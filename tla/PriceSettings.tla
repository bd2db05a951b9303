---------------------------- MODULE PriceSettings ----------------------------
(***************************************************************************)
(* The rates at which a template strategy trades: its price updaters, from *)
(* the settings somebody asks for, through their validation and the table  *)
(* of the spot slot, to the rate of the orders it has open in the spot     *)
(* market, in the future market and in the settlement market of the slot   *)
(* that has just ended (two-sided simulation).                             *)
(*                                                                         *)
(* A load only buys, a PV only sells, a storage and a smart meter do both. *)
(* The buying updater raises its rate from initial to final, the selling   *)
(* updater lowers it.  A rate profile is a function of the slot; profiles  *)
(* cover the whole run.  Time is counted in ticks.  Rates are multiples    *)
(* that the divisions by a number of updates leave whole.                  *)
(***************************************************************************)
EXTENDS Integers, FiniteSets, SequencesExt

CONSTANTS
    SlotTicks, LastSlot,   \* ticks of a slot, slots 0 .. LastSlot
    Window,                \* slots a future slot is open before its delivery
    Interval,              \* update interval of the future and settlement updaters
    Ahead,                 \* initial and final rate of the future and settlement updaters
    Starts,                \* [kind, settings, useMM] to start from
    Requests,              \* keyword arguments of a reconfiguration
    MarketMaker, Fees,     \* market maker rate, fees on the path to the root
    MaxRequests, MaxFeeChanges   \* bounds

PriceAssumption == Window > 0 /\ Interval > 0 /\ SlotTicks % Interval = 0 /\ SlotTicks > Interval

NoOrder == -1
Slots == 0 .. LastSlot

VARIABLES
    kind, settings,   \* asset and, per side, [initial, final, step, fit, interval]
    useMM, fees,      \* use_market_maker_rate, get_path_to_root_fees
    tick, pc, slot,   \* next tick, what comes next, spot slot
    table,            \* per side, [initial, final, change, count] of the spot slot
    spot,             \* per side, rate of the open spot order
    future,           \* per open future slot, [added] and, per side, [count, rates]
    settlement,       \* [side, count, rate] in the slot that has just ended
    requests, changes, \* reconfigurations and fee changes so far
    request,          \* the last reconfiguration that was not refused
    failed            \* an exception has ended the simulation

asset == <<kind, settings, useMM, fees, table>>
bounds == <<requests, changes, request>>
vars == <<asset, bounds, tick, pc, slot, spot, future, settlement, failed>>

SidesOf(k) == CASE k = "load" -> {"buy"} [] k = "pv" -> {"sell"} [] OTHER -> {"buy", "sell"}
Sides == SidesOf(kind)
TradesAhead == kind # "meter"
Settles == kind \in {"load", "pv"}
Elapsed == tick % SlotTicks
-----------------------------------------------------------------------------
(* TemplateStrategyUpdaterBase *)

(* rate_limit_object: max for offers, min for bids. *)
Limit(side, rate, final) ==
    IF side = "sell" THEN (IF rate > final THEN rate ELSE final)
                     ELSE (IF rate < final THEN rate ELSE final)

UpdatedRate(side, d) == Limit(side, d.initial - d.change * d.count, d.final)

AvailableUpdates(ticks, interval) == IF ticks \div interval > 2 THEN ticks \div interval - 1 ELSE 1

IntervalAllowed(s) == 1 <= s.interval /\ s.interval < SlotTicks

Change(side, s, t) ==
    IF s.fit THEN (s.initial[t] - s.final[t]) \div AvailableUpdates(SlotTicks, s.interval)
    ELSE IF side = "sell" THEN s.step ELSE - s.step

Row(side, s, t, count) ==
    [initial |-> s.initial[t], final |-> s.final[t], change |-> Change(side, s, t), count |-> count]

(* update_and_populate_price_settings for slot t: the counter is kept when *)
(* the slot is known already, nothing is written when the assertion on the *)
(* interval fails.                                                         *)
Populate(tab, set, side, t, known) ==
    IF IntervalAllowed(set[side])
    THEN [tab EXCEPT ![side] = Row(side, set[side], t, IF known THEN @.count ELSE 0)]
    ELSE tab

TimeForPriceUpdate(elapsed, interval, count) == elapsed >= interval * count
Due(side) == TimeForPriceUpdate(Elapsed, settings[side].interval, table[side].count)
Counted(count, elapsed) == IF TimeForPriceUpdate(elapsed, Interval, count) THEN count + 1 ELSE count

AheadRow(side, ticks, count) ==
    LET initial == IF side = "sell" THEN Ahead[1] ELSE Ahead[2]
        final == IF side = "sell" THEN Ahead[2] ELSE Ahead[1]
    IN  [initial |-> initial, final |-> final, count |-> count,
         change |-> (initial - final) \div AvailableUpdates(ticks, Interval)]
AheadRate(side, ticks, count) == UpdatedRate(side, AheadRow(side, ticks, count))
FutureRate(side, count) == AheadRate(side, Window * SlotTicks, count)
SettlementRate(side, count) == AheadRate(side, SlotTicks, count)
-----------------------------------------------------------------------------
(* Validation.  The validators of the framework refuse limits in the wrong *)
(* order; slots before the last closed market are not looked at, except by *)
(* the smart meter.                                                        *)

OrderedAt(side, s, t) ==
    IF side = "sell" THEN s.initial[t] >= s.final[t] ELSE s.initial[t] <= s.final[t]
StepAllowed(s) == s.fit \/ s.step >= 0
LastClosed == IF pc = "cycle" /\ tick > 0 THEN slot ELSE slot - 1
Checked == IF kind = "meter" THEN Slots ELSE {t \in Slots : t >= LastClosed}

Valid(side, set) == StepAllowed(set[side]) /\ \A t \in Checked : OrderedAt(side, set[side], t)

(* The storage validates both sides at once, and against each other. *)
StorageValid(set) ==
    /\ \A side \in {"buy", "sell"} : Valid(side, set)
    /\ \A t \in Checked : set["buy"].final[t] <= set["sell"].final[t]

(* _reconfigure_initial_selling_rate, _reconfigure_final_buying_rate: set  *)
(* before they are validated.                                              *)
Flat(rate) == [t \in Slots |-> rate]
WithMarketMakerRates(set, use, fee) ==
    IF ~use \/ kind = "storage" THEN set
    ELSE [side \in DOMAIN set |->
            IF side = "sell" THEN [set[side] EXCEPT !.initial = Flat(MarketMaker - fee)]
                             ELSE [set[side] EXCEPT !.final = Flat(MarketMaker + fee)]]
-----------------------------------------------------------------------------
(* Reconfiguration.  A request is a function of the arguments it names.    *)

Given(r, key, default) == IF key \in DOMAIN r THEN r[key] ELSE default
InitialKey(side) == IF side = "sell" THEN "initial_selling_rate" ELSE "initial_buying_rate"
FinalKey(side) == IF side = "sell" THEN "final_selling_rate" ELSE "final_buying_rate"

(* Only the storage reads the key of the offers' decrease. *)
StepKey(side) == IF kind = "storage" /\ side = "sell" THEN "decrease" ELSE "increase"

Requested(r, side) ==
    [initial |-> Given(r, InitialKey(side), settings[side].initial),
     final |-> Given(r, FinalKey(side), settings[side].final),
     step |-> Given(r, StepKey(side), settings[side].step),
     fit |-> Given(r, "fit", settings[side].fit),
     interval |-> Given(r, "interval", settings[IF kind = "storage" THEN "buy" ELSE side].interval)]

(* The sides are dealt with one after the other; the assertion on the      *)
(* interval ends the request after set_parameters of the first of them.    *)
InOrder == CASE kind = "storage" -> <<"sell", "buy">>
             [] kind = "meter" -> <<"buy", "sell">>
             [] OTHER -> SetToSeq(Sides)
Accepted(r, side, set) == IF kind = "storage" THEN StorageValid(set) ELSE Valid(side, set)

SetParameters(r, accepted) ==
    FoldLeft(LAMBDA c, side :
                IF c.raised \/ ~accepted[side] THEN c
                ELSE LET set == [c.settings EXCEPT ![side] = Requested(r, side)]
                     IN  [settings |-> set, table |-> Populate(c.table, set, side, slot, TRUE),
                          raised |-> ~IntervalAllowed(set[side])],
             [settings |-> settings, table |-> table, raised |-> FALSE], InOrder)

(* area_reconfigure_event.  A storage and a meter populate their updaters  *)
(* once more, even if nothing was accepted.                                *)
Reconfigure(r, escapes) ==
    LET wanted == [side \in Sides |-> Requested(r, side)]
        accepted == [side \in Sides |-> Accepted(r, side, wanted)]
        done == SetParameters(r, accepted)
        raised == done.raised \/ (/\ kind \in {"storage", "meter"}
                                  /\ \E side \in Sides : ~IntervalAllowed(done.settings[side]))
    IN  /\ settings' = done.settings /\ table' = done.table
        /\ useMM' = Given(r, "useMM", useMM)
        /\ failed' = (raised /\ escapes)
        /\ request' = IF raised \/ \E side \in Sides : ~accepted[side] THEN <<>> ELSE <<r>>
        /\ requests' = requests + 1
        /\ UNCHANGED <<kind, fees, changes, tick, pc, slot, spot, future, settlement>>

(* Live events are handled between the market cycle and the first tick and *)
(* their exceptions are logged; an area's StrategyEvents run before the    *)
(* cycle, and nothing catches what they raise.                             *)
LiveEvent ==
    /\ pc = "live" /\ ~failed /\ requests < MaxRequests
    /\ \E r \in Requests : Reconfigure(r, FALSE)
StrategyEvent ==
    /\ pc = "cycle" /\ ~failed /\ requests < MaxRequests
    /\ \E r \in Requests : Reconfigure(r, TRUE)

(* Grid fees above the asset change: update_descendants_strategy_prices    *)
(* runs event_activate_price, whose refusal is only logged.                *)
FeesChange ==
    /\ ~failed /\ changes < MaxFeeChanges /\ fees' \in Fees \ {fees}
    /\ settings' = WithMarketMakerRates(settings, useMM, fees')
    /\ changes' = changes + 1 /\ request' = <<>>
    /\ UNCHANGED <<kind, useMM, table, requests, tick, pc, slot, spot, future, settlement, failed>>
-----------------------------------------------------------------------------
(* event_market_cycle.                                                     *)

FirstRate(side, tab) == tab[side].initial

(* The future market opens the slots of the window; an open slot gets an   *)
(* order at the rate of its counter, which counts as an update.            *)
Opened(t) == [count |-> [side \in Sides |-> 0], added |-> t * SlotTicks, rates |-> [side \in Sides |-> NoOrder]]
FutureSlots(t) == {u \in Slots : t < u /\ u <= t + Window}
Posts(f, posts, u, side) == f.rates[side] = NoOrder /\ <<u, side>> \in posts
Posted(f, posts, u) ==
    [f EXCEPT !.rates = [side \in Sides |-> IF Posts(f, posts, u, side) THEN FutureRate(side, f.count[side]) ELSE @[side]],
              !.count = [side \in Sides |-> IF Posts(f, posts, u, side) THEN Counted(@[side], tick - f.added) ELSE @[side]]]
FutureCycle(t, posts) ==
    IF ~TradesAhead THEN <<>>
    ELSE [u \in FutureSlots(t) |-> Posted(IF u \in DOMAIN future THEN future[u] ELSE Opened(t), posts, u)]

(* Orders of the settlement market, posted once the slot has ended; the    *)
(* first tick is not to update them.                                       *)
NoSettlement == [side |-> "buy", count |-> 0, rate |-> NoOrder]
FirstSettlementCount(side) == Counted(0, 0)
SettlementCycle(t) ==
    IF Settles /\ t > 0
    THEN {NoSettlement} \cup {[side |-> side, count |-> FirstSettlementCount(side),
                               rate |-> SettlementRate(side, 0)] : side \in {"buy", "sell"}}
    ELSE {NoSettlement}

EventMarketCycle ==
    /\ pc = "cycle" /\ ~failed
    /\ slot' = tick \div SlotTicks
    /\ IF \E side \in Sides : ~IntervalAllowed(settings[side])
       THEN failed' = TRUE /\ UNCHANGED <<table, spot, future, settlement, pc>>
       ELSE /\ table' = FoldLeft(LAMBDA c, side : Populate(c, settings, side, slot', FALSE), table, InOrder)
            /\ spot' \in [Sides -> {NoOrder} \cup {FirstRate(side, table') : side \in Sides}]
            /\ \A side \in Sides : spot'[side] \in {NoOrder, FirstRate(side, table')}
            /\ \E posts \in SUBSET (FutureSlots(slot') \X Sides) : future' = FutureCycle(slot', posts)
            /\ settlement' \in SettlementCycle(slot')
            /\ pc' = "live" /\ UNCHANGED failed
    /\ UNCHANGED <<kind, settings, useMM, fees, bounds, tick>>

StartTicks == pc = "live" /\ pc' = "tick" /\ UNCHANGED <<asset, bounds, tick, slot, spot, future, settlement, failed>>
-----------------------------------------------------------------------------
(* event_tick: orders are updated when it is time, then the counters are   *)
(* incremented.  A storage without a bid resets its counter and bids anew. *)

Repost(side, reposts) == kind = "storage" /\ side = "buy" /\ spot[side] = NoOrder /\ reposts

SpotTick(reposts) ==
    /\ spot' = [side \in Sides |->
                  IF Repost(side, reposts) THEN table[side].initial
                  ELSE IF spot[side] # NoOrder /\ Due(side) THEN UpdatedRate(side, table[side])
                  ELSE spot[side]]
    /\ table' = [side \in Sides |->
                   LET d == IF Repost(side, reposts) THEN [table[side] EXCEPT !.count = 0] ELSE table[side]
                   IN  IF TimeForPriceUpdate(Elapsed, settings[side].interval, d.count)
                       THEN [d EXCEPT !.count = @ + 1] ELSE d]

FutureDue(f, side) == TimeForPriceUpdate(tick - f.added, Interval, f.count[side])
FutureTick ==
    future' = [u \in DOMAIN future |->
                 LET f == future[u]
                 IN  [f EXCEPT !.count = [side \in Sides |-> Counted(@[side], tick - f.added)],
                               !.rates = [side \in Sides |-> IF FutureDue(f, side) /\ @[side] # NoOrder
                                                             THEN FutureRate(side, f.count[side]) ELSE @[side]]]]

SettlementTick ==
    settlement' = [settlement EXCEPT
        !.count = Counted(@, Elapsed),
        !.rate = IF @ # NoOrder /\ TimeForPriceUpdate(Elapsed, Interval, settlement.count)
                 THEN SettlementRate(settlement.side, settlement.count) ELSE @]

EventTick ==
    /\ pc = "tick" /\ ~failed
    /\ \E reposts \in BOOLEAN : (reposts => kind = "storage") /\ SpotTick(reposts)
    /\ FutureTick /\ SettlementTick
    /\ tick' = tick + 1
    /\ pc' = IF tick' % SlotTicks # 0 THEN "tick" ELSE IF slot = LastSlot THEN "done" ELSE "cycle"
    /\ UNCHANGED <<kind, settings, useMM, fees, bounds, slot, failed>>

(* An order is traded as a whole. *)
Trade ==
    /\ pc \in {"tick", "cycle"} /\ ~failed
    /\ \/ \E side \in Sides : spot[side] # NoOrder /\ spot' = [spot EXCEPT ![side] = NoOrder]
                              /\ UNCHANGED <<future, settlement>>
       \/ \E u \in DOMAIN future, side \in Sides :
             /\ future[u].rates[side] # NoOrder
             /\ future' = [future EXCEPT ![u].rates[side] = NoOrder]
             /\ UNCHANGED <<spot, settlement>>
    /\ UNCHANGED <<asset, bounds, tick, pc, slot, settlement, failed>>
-----------------------------------------------------------------------------
(* event_activate, in slot 0: an asset whose rates are refused does not    *)
(* start.                                                                  *)
EmptyRow == [initial |-> 0, final |-> 0, change |-> 0, count |-> 0]
Init ==
    /\ slot = 0 /\ tick = 0 /\ pc = "cycle"
    /\ fees \in Fees
    /\ \E start \in Starts :
          /\ kind = start.kind /\ useMM = start.useMM
          /\ settings = WithMarketMakerRates(start.settings, useMM, fees)
    /\ IF kind = "storage" THEN StorageValid(settings) ELSE \A side \in Sides : Valid(side, settings)
    /\ \A side \in Sides : IntervalAllowed(settings[side])
    /\ table = [side \in Sides |-> Row(side, settings[side], 0, 0)]
    /\ spot = [side \in Sides |-> NoOrder] /\ future = <<>> /\ settlement = NoSettlement
    /\ requests = 0 /\ changes = 0 /\ request = <<>> /\ failed = FALSE

Next ==
    LiveEvent \/ StrategyEvent \/ FeesChange \/ EventMarketCycle \/ StartTicks \/ EventTick \/ Trade

Spec == Init /\ [][Next]_vars
-----------------------------------------------------------------------------
(* Every order that is still open after a tick is at the rate its schedule *)
(* gives for the time that has passed, whatever was reconfigured, traded   *)
(* or posted late; the bid a storage posts within a slot starts over and   *)
(* may only lag behind.                                                    *)
Scheduled(side, d, steps) == UpdatedRate(side, [d EXCEPT !.count = steps])
OnSchedule(side, steps) ==
    IF kind = "storage" /\ side = "buy" THEN spot'[side] <= Scheduled(side, table[side], steps)
    ELSE spot'[side] = Scheduled(side, table[side], steps)
RatesFollowSchedule ==
    [][tick' # tick =>
         /\ \A side \in Sides : spot'[side] # NoOrder /\ IntervalAllowed(settings[side])
               => OnSchedule(side, Elapsed \div settings[side].interval)
         /\ \A u \in DOMAIN future, side \in Sides :
               future'[u].rates[side] \in {NoOrder, FutureRate(side, (tick - future[u].added) \div Interval)}
         /\ settlement'.rate \in {NoOrder, SettlementRate(settlement.side, Elapsed \div Interval)}]_vars

(* By the last tick before its market closes an order has reached its      *)
(* final rate: a spot order of a curve fitted to the limits, a settlement  *)
(* order, and a future order of a slot that was open for the whole window. *)
(* The bids of a storage are left out, and what was switched to a step.    *)
FinalRatesReached ==
    [][tick' # tick /\ tick' % SlotTicks = 0 =>
         /\ \A side \in Sides :
               settings[side].fit /\ IntervalAllowed(settings[side]) /\ (kind = "storage" => side = "sell")
               => spot'[side] \in {NoOrder, table[side].final}
         /\ \A u \in DOMAIN future, side \in Sides :
               u = slot + 1 /\ future[u].added = (u - Window) * SlotTicks
               => future'[u].rates[side] \in {NoOrder, AheadRow(side, SlotTicks, 0).final}
         /\ settlement'.rate \in {NoOrder, AheadRow(settlement.side, SlotTicks, 0).final}]_vars

(* The limits of the spot slot are in order, and a storage never bids more *)
(* than it asks, after any sequence of reconfigurations: validation holds  *)
(* for what is in force, not only for what was asked.  Market maker rates  *)
(* are set before they are validated and may be out of order.              *)
LimitsInOrder ==
    /\ useMM \/ \A side \in Sides : Limit(side, table[side].initial, table[side].final) = table[side].initial
    /\ kind = "storage" /\ spot["buy"] # NoOrder /\ spot["sell"] # NoOrder => spot["buy"] <= spot["sell"]

(* SmartMeterStrategy.area_reconfigure_event: "Reconfigure the device      *)
(* properties at runtime using the provided arguments."                    *)
ReconfigurationTakesEffect ==
    \A i \in DOMAIN request, side \in Sides :
        settings[side].step = Given(request[i], IF side = "sell" THEN "decrease" ELSE "increase", settings[side].step)
=============================================================================
