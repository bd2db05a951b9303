--------------------------- MODULE Electrolyzer ----------------------------
(***************************************************************************)
(* An electrolyzer: a storage asset that never sells on the spot market    *)
(* and whose reservoir is drawn by a discharge profile at the end of every *)
(* market cycle.  Everything else, the future market included, it inherits *)
(* from the storage strategy.  Hydrogen is counted as the energy it holds. *)
(***************************************************************************)
EXTENDS StorageState

CONSTANT Profiles   \* load_profile_kWh: slot -> energy, to choose from

ElectrolyzerAssumption == StorageAssumption /\ Profiles \subseteq [Slots -> Nat]

VARIABLES
    load_profile,
    cycling,   \* the handler of the storage is done, the one of the electrolyzer is not
    drawn      \* history: energy drawn so far

ownVars == <<load_profile, cycling, drawn>>

ElectrolyzerInit == Init /\ load_profile \in Profiles /\ cycling = FALSE /\ drawn = 0

(* _sell_energy_to_spot_market *)
SellNothing ==
    /\ pc = "sell" /\ pc' = "buy"
    /\ UNCHANGED <<areaVars, current_slot, post, pending, stateVars, open_sell, open_buy,
                   ledger, losses, restarts>>

(* What follows super().event_market_cycle(): the draw, or an exception.   *)
Drawable_FromReservoir == used_storage - MinEnergy >= load_profile[spot]
Drawable == ~ SellLookupRaises(spot) /\ AvailableEnergyToSell(spot) >= load_profile[spot]
Draw ==
    LET energy == IF Drawable THEN load_profile[spot] ELSE 0
    IN  /\ cycling /\ cycling' = FALSE
        /\ drawn' = drawn + energy /\ used_storage' = used_storage - energy
        /\ UNCHANGED <<areaVars, current_slot, post, pending, pledged_sell, pledged_buy,
                       offered_sell, offered_buy, open_sell, open_buy, ledger, losses, restarts,
                       load_profile>>
        /\ Continue("ticks", Drawable /\ CheckStatePasses(spot)')

Inherited ==
    \/ EndSlot \/ RotateMarkets \/ MarketCycle \/ BuyOnMarketCycle \/ Tick
    \/ \E s \in Slots : PostFutureOrders(s)
    \/ \E s \in Slots, e \in 1..BatteryEnergy : TradeOffer(s, e) \/ TradeBid(s, e)
    \/ \E e \in 1..BatteryEnergy : TryToBuyOffer(e)

ElectrolyzerNext ==
    \/ Draw
    \/ ~ cycling /\ DeletePastState /\ cycling' = TRUE /\ UNCHANGED <<load_profile, drawn>>
    \/ ~ cycling /\ (SellNothing \/ Inherited) /\ UNCHANGED ownVars
-----------------------------------------------------------------------------
(* The reservoir holds what was bought and delivered, less what was drawn  *)
(* and what was sold ahead and delivered; the draw never takes what is     *)
(* sold ahead, although it goes past the ledger of the storage.            *)
ReservoirFlow ==
    pc \in {"ticks", "future"} =>
        /\ used_storage = InitialEnergy + SumRange(ledger, 0, clock) - drawn
        /\ SellHeadroom >= 0 /\ BuyHeadroom >= 0

(* The simulation ends only when the profile asks for more than the        *)
(* reservoir may give in a slot: what is above the minimum and not sold    *)
(* ahead, and never more than the production rate.                         *)
FailsOnlyWhenShort ==
    pc = "failed" => load_profile[spot] > Least(SellHeadroom, MaxOfferEnergy(spot))
=============================================================================
