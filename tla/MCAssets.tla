------------------------------ MODULE MCAssets ------------------------------
(* Instances for TLC of an asset on the spot, future and settlement        *)
(* markets (AssetTrading) and of one on the forward markets                *)
(* (ForwardTrading).                                                       *)
EXTENDS AssetTrading

VARIABLES
    markets,   \* which of the two a behaviour is about; the other is idle
    asset, scenario, now, phase, opened, updaters, placed, posted, trades

forwardVars == <<asset, scenario, now, phase, opened, updaters, placed, posted, trades>>
assetVars == <<config, pc, slot, tick, power, hours, connected, active, plan, total, deviation,
               unsettled, spot, future, settlement, reconfigured, measured, settled,
               past, restarts>>

(* Measurements are off by one and never change sign. *)
MCPowers == {-2, 2}
MCMeasured(energy) ==
    IF energy = 0 THEN {0} ELSE {e \in {energy - 1, energy + 1} : e >= 0}

(* For the forward markets a day of four quarters in hours of two, weeks of*)
(* two days, months of three days and years of two months, with a tick     *)
(* half a quarter long.  Months and years overlap as they do in the real   *)
(* calendar, and a week may cross the end of a month.                      *)
MCProfile == (0 :> 1) @@ (1 :> 2) @@ (2 :> 2) @@ (3 :> 1)
MCInterval == [intraday |-> 1, day |-> 2, week |-> 4, month |-> 8, year |-> 24]
MCCapacity == [intraday |-> 2, day |-> 4, week |-> 6, month |-> 4, year |-> 6]
MCInitialRate == [intraday |-> 10, day |-> 30, week |-> 10, month |-> 30, year |-> 30]
MCFinalRate   == [intraday |-> 40, day |-> 10, week |-> 40, month |-> 10, year |-> 10]

(* The last scenario starts one update interval before the first year      *)
(* closes.                                                                 *)
MCScenarios ==
    {[types |-> {"intraday", "day"}, start |-> 0, last |-> 15],
     [types |-> {"week"}, start |-> 0, last |-> 33],
     [types |-> {"month", "year"}, start |-> 0, last |-> 49],
     [types |-> {"year"}, start |-> 24, last |-> 49]}

Forward == INSTANCE ForwardTrading WITH
    Quarter <- 2, Hour <- 4, Day <- 8, Week <- 16, Month <- 24, Year <- 48, MaxYears <- 3,
    SimulationEnd <- 150, Peak <- 8, ProfileUnit <- 2, Profile <- MCProfile,
    Interval <- MCInterval, Capacity <- MCCapacity, InitialRate <- MCInitialRate,
    FinalRate <- MCFinalRate, Scenarios <- MCScenarios, MaxTrades <- 2, orders <- placed
ASSUME Forward!CalendarAssumption /\ Forward!EnergyAssumption /\ Forward!TradingAssumption

None == "none"
IdleForward ==
    /\ asset = None /\ scenario = None /\ now = None /\ phase = None /\ opened = None
    /\ updaters = None /\ placed = None /\ posted = None /\ trades = None
IdleAsset ==
    /\ kind = None /\ oneSided = None /\ balancing = None /\ pc = None /\ slot = None
    /\ tick = None /\ power = None /\ hours = None /\ connected = None /\ active = None
    /\ plan = None /\ total = None /\ deviation = None /\ unsettled = None /\ spot = None
    /\ future = None /\ settlement = None /\ reconfigured = None /\ measured = None
    /\ settled = None /\ past = None /\ restarts = None

AssetsInit ==
    \/ markets = "spot" /\ Init /\ IdleForward
    \/ markets = "forward" /\ Forward!Init /\ IdleAsset
AssetsNext ==
    \/ markets = "spot" /\ Next /\ UNCHANGED <<markets, forwardVars>>
    \/ markets = "forward" /\ Forward!Next /\ UNCHANGED <<markets, assetVars>>
(* Orders ahead of the last slot are for a slot that is never reached, so  *)
(* their trades are left out of the search.                                *)
TradesForReachedSlots ==
    markets = "spot" /\ slot = LastSlot /\ pc = "match_future" => traded' = traded
AssetsSpec == AssetsInit /\ [][AssetsNext]_<<vars, markets, forwardVars>>
-----------------------------------------------------------------------------
(* No asset trades more in a slot than its configuration says, spot and    *)
(* future market together, so that no assertion of its state fails; and a  *)
(* load counts its demand once (TypeOK, TradedWithinPlan, AssertionsHold,  *)
(* DemandCountedOnce).                                                     *)
AssetTradesWithinPlan ==
    markets = "spot" => TypeOK /\ TradedWithinPlan /\ AssertionsHold /\ DemandCountedOnce

(* The open orders of an asset are the energy it still has to trade.       *)
AssetOrdersMatchEnergy == markets = "spot" => OrdersMatchEnergy

(* What is settled is the difference between what was measured and what was*)
(* traded (DeviationIsReal, SettlesOnlyTheDeviation).                      *)
AssetSettlesTheDeviation == markets = "spot" => DeviationIsReal /\ SettlesOnlyTheDeviation

(* Orders of overlapping forward products never exceed the energy of a     *)
(* quarter and the asset fails only on long products; rates follow the     *)
(* schedule of their slot, and no order outlives it (OrdersCovered,        *)
(* FailsOnlyWhenKnown, RatesFollowSchedule, NothingOutlivesItsSlot of      *)
(* ForwardTrading).                                                        *)
ForwardOrdersCovered ==
    markets = "forward" =>
        /\ Forward!OrdersCovered /\ Forward!FailsOnlyWhenKnown
        /\ Forward!RatesFollowSchedule /\ Forward!NothingOutlivesItsSlot
=============================================================================
