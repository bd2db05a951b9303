----------------------------- MODULE HeatPumps -----------------------------
(***************************************************************************)
(* The strategies of heat pumps: with tanks, without tanks, with a         *)
(* sorption store, and the virtual heat pump.  At every market cycle the   *)
(* energy parameters turn the electricity bought in the slot that is over  *)
(* into heat, and work out how much electricity the pump has to and may    *)
(* buy; the strategy bids for one of these amounts, as the management of   *)
(* the state of charge decides, and bids again at every tick.              *)
(*                                                                         *)
(* One pump, of a kind chosen in Init, in a two-sided spot market that may *)
(* take a part of its bid at any time.  The profiles are an input of the   *)
(* slot chosen at the cycle: the temperatures, the demand, whether energy  *)
(* is cheap, and the tick from which the rate of the bid exceeds the       *)
(* preferred one.                                                          *)
(***************************************************************************)
EXTENDS SorTesTank, VirtualTanks

CONSTANTS
    Pumps,         \* the configurations to choose from
    Inputs(_),     \* the inputs of a slot for a pump
    SwitchAfter,   \* the slots before another switch is allowed
    LastSlot, LastTick,
    Tolerance      \* what the rounding of the model may amount to

VARIABLES
    pump, slot, tick, input, failed,
    store,                \* [tanks, stored, cop, heat] of the current slot
    need, bought, bid,    \* the electricity to buy, what was bought of it and the open bid
    mode, lastSwitch,     \* the management of the state of charge
    asked, spilled, unserved, entered, unmatched  \* history
energy == <<store, need, bought, asked, spilled, unserved>>
vars == <<pump, slot, tick, input, failed, energy, bid, mode, lastSwitch, entered, unmatched>>

Modes == {"charge", "discharge", "maintain"}
Tanks == store.tanks
-----------------------------------------------------------------------------
(* The heat pump with tanks.  No state is left of the slot before the last *)
(* one, so an electricity that is not on the curve of the model gives no   *)
(* heat; for the demand the state of the last slot is still there, and the *)
(* energy is taken for a power.                                            *)

CopOfDeletedSlot == 0
HeatBought(tanks) ==
    LET power == HeatFromPower(pump.model, bought, input.source, AverageCondenserTemp(tanks))
    IN  IF power = Infeasible THEN Energy((bought * CopOfDeletedSlot) \div 100) ELSE Energy(power)
CopAfter(tanks) ==
    LET from == AverageCondenserTemp(tanks)
        power == HeatFromPower(pump.model, bought, input.source, from)
    IN  IF pump.model # "measured" THEN UniversalCop(pump.model, input.source, from)
        ELSE IF bought = 0 \/ power = Infeasible THEN store.cop
        ELSE (100 * power) \div Power(bought)
HeatDemand(tanks, cop, in) ==
    LET power == HeatFromPower(pump.model, in.demand, in.source, AverageCondenserTemp(tanks)) IN
    IF pump.heatProfile THEN in.demand
    ELSE IF power = Infeasible THEN Energy((in.demand * cop) \div 100) ELSE Energy(power)

Consumption(tanks, heat, in, least) ==
    LET cop == Cop(pump.model, heat, in.source, AverageCondenserTemp(tanks)) IN
    IF cop = 0 THEN 0 ELSE AtMost(pump.maxEnergy, (100 * heat) \div AtLeast(least, cop))
NeedWithTanks(tanks, heat, in) ==
    [min |-> Consumption(tanks, MinHeatConsumption(tanks, heat), in, -999),
     demand |-> Consumption(tanks, heat, in, -999),
     max |-> Consumption(tanks, MaxHeatConsumption(tanks, heat), in, 100)]

Outcome(tanks, stored, cop, heat, n, fails) ==
    [store |-> [tanks |-> tanks, stored |-> stored, cop |-> cop, heat |-> heat],
     need |-> n, fails |-> fails, spilled |-> 0, unserved |-> 0]
CalcEnergyDemand(tanks, cop, heat, in) ==
    Outcome(tanks, 0, cop, heat, NeedWithTanks(tanks, heat, in),
            UnrealisticCondenser(tanks) \/ AssertsNegative(tanks, heat))
PopulateState(tanks, cop, in) == CalcEnergyDemand(tanks, cop, HeatDemand(tanks, cop, in), in)
Balanced(outcome, net, gained) ==
    [outcome EXCEPT !.spilled = IF net > 0 THEN AtLeast(0, net - gained) ELSE 0,
                    !.unserved = IF net < 0 THEN AtLeast(0, gained - net) ELSE 0]
UpdateLastTimeSlot(lossy, net, tanks, in) ==
    Balanced(PopulateState(tanks, CopAfter(lossy), in), net, HeatIn(tanks) - HeatIn(lossy))
ChargeAndPopulate(lossy, net, in) == UpdateLastTimeSlot(lossy, net, UpdateTanks(Tanks, lossy, net), in)
AfterLosses(lossy, in) == ChargeAndPopulate(lossy, HeatBought(lossy) - store.heat, in)
CycleWithTanks(in, isFirst) ==
    IF isFirst THEN PopulateState(Tanks, 0, in) ELSE AfterLosses(Each(Tanks, ApplyLosses), in)

(* Without tanks the demand of a slot follows from the coefficient of      *)
(* performance of the slot before.                                         *)
CopWithoutTanks ==
    LET power == HeatFromPower(pump.model, bought, input.source, input.target) IN
    IF pump.model # "measured" THEN UniversalCop(pump.model, input.source, input.target)
    ELSE IF bought = 0 \/ power = Infeasible THEN store.cop
    ELSE (100 * power) \div Power(bought)
DemandWithoutTanks(cop, in) ==
    LET power == HeatFromPower(pump.model, in.demand, in.source, in.target) IN
    IF pump.heatProfile
    THEN [heat |-> in.demand, energy |-> IF cop = 0 THEN 0 ELSE (100 * in.demand) \div cop]
    ELSE [heat |-> IF power = Infeasible THEN (in.demand * store.cop) \div 100 ELSE Energy(power),
          energy |-> in.demand]
OutcomeWithoutTanks(cop, wanted) ==
    Outcome(<<>>, 0, cop, wanted.heat, [min |-> 0, demand |-> wanted.energy, max |-> 0], FALSE)
PopulateWithoutTanks(cop, in) == OutcomeWithoutTanks(cop, DemandWithoutTanks(cop, in))
CycleWithoutTanks(in, isFirst) == PopulateWithoutTanks(IF isFirst THEN 300 ELSE CopWithoutTanks, in)

(* With a sorption store.                                                  *)
PopulateSorTes(stored, cop, demand, in, fails) ==
    Outcome(<<>>, stored, cop, in.demand,
            [min |-> EnergyToBuyMinimum(stored, in.source, demand), demand |-> demand,
             max |-> EnergyToBuyMaximum(stored, in.source, demand)], fails)
SorTesDemand(stored, cop, in, fails) == PopulateSorTes(stored, cop, Demand(in.demand, cop), in, fails)
SorTesCop(in) == UniversalCop(pump.model, 10 * in.source, in.target)
SorTesAfter(net, in) ==
    SorTesDemand(ChargeOrDischarge(store.stored, input.source, net, mode), SorTesCop(in), in,
                 CannotHappen(input.source, net, mode))
CycleSorTes(in, isFirst) ==
    IF isFirst THEN SorTesDemand(store.stored, SorTesCop(in), in, FALSE)
    ELSE SorTesAfter(bought - Demand(store.heat, store.cop), in)

(* The virtual heat pump.                                                  *)
VirtualNeed(tanks, min, max, in) ==
    Outcome(tanks, 0, 0, HeatOut(in),
            [min |-> AtMost(pump.maxEnergy, min), demand |-> 0, max |-> AtMost(pump.maxEnergy, max)],
            min < 0 \/ max < 0)
PopulateVirtual(tanks, in) == VirtualNeed(tanks, VirtualMinimum(tanks, in), VirtualMaximum(tanks, in), in)
UpdateTanksTemperature(increase) == [i \in DOMAIN Tanks |-> UpdateStorageTemp(Tanks[i], increase)]
CycleVirtual(in, isFirst) ==
    LET increase == IF isFirst THEN 0 ELSE StorageTempFromEnergy(Tanks, bought, input)
    IN  PopulateVirtual(SetTempDecrease(UpdateTanksTemperature(increase), in), in)

CycleEnergy(in, isFirst) ==
    CASE pump.kind = "tanks" -> CycleWithTanks(in, isFirst)
      [] pump.kind = "bare" -> CycleWithoutTanks(in, isFirst)
      [] pump.kind = "sortes" -> CycleSorTes(in, isFirst)
      [] pump.kind = "virtual" -> CycleVirtual(in, isFirst)
-----------------------------------------------------------------------------
(* The management of the state of charge.  The one that avoids switches    *)
(* looks at the tanks when it may switch, and at its limits when it may    *)
(* not.                                                                    *)

PreferredRateEnergy(n, in, at) == IF at >= in.dearFrom THEN n.min ELSE n.max

LowSoc == IF pump.kind = "sortes" THEN MinSoc ELSE 15
HighSoc == IF pump.kind = "sortes" THEN MaxSoc ELSE 85
TankSoc(s) == IF pump.kind = "sortes" THEN (100 * s.stored) \div StoreCapacity ELSE AverageSoc(s.tanks)
NeverSwitched == -1
IsTimeForStateChange(at) == lastSwitch = NeverSwitched \/ mode = "maintain" \/ at - lastSwitch >= SwitchAfter
ShouldChargeOrDischarge(s, in) ==
    IF in.cheap THEN IF TankSoc(s) >= HighSoc THEN "maintain" ELSE "charge"
    ELSE IF TankSoc(s) > LowSoc THEN "discharge" ELSE "maintain"
AtSocLimits(s) ==
    IF \/ TankSoc(s) >= HighSoc /\ (pump.kind = "sortes" => mode = "charge")
       \/ TankSoc(s) <= LowSoc /\ (pump.kind = "sortes" => mode = "discharge")
    THEN "maintain" ELSE mode
ModeEnergy(n, m) == CASE m = "charge" -> n.max [] m = "discharge" -> n.min [] OTHER -> n.demand

(* The bid of the slot and the state of the management after it.           *)
Bid(amount, m, last) == [amount |-> amount, mode |-> m, last |-> last]
SwitchTo(target, n, may, at) ==
    Bid(ModeEnergy(n, target), IF may THEN target ELSE mode,
        IF lastSwitch = NeverSwitched \/ (may /\ target # mode) THEN at ELSE lastSwitch)
Calculate(s, n, in, sl, at) ==
    CASE pump.kind = "bare" -> Bid(n.demand, mode, lastSwitch)
      [] pump.byRate -> Bid(PreferredRateEnergy(n, in, at), mode, lastSwitch)
      [] IsTimeForStateChange(sl) -> SwitchTo(ShouldChargeOrDischarge(s, in), n, TRUE, sl)
      [] OTHER -> SwitchTo(AtSocLimits(s), n, FALSE, sl)
PostOrder(s, n, in, sl, at) ==
    \E c \in {Calculate(s, n, in, sl, at)} :
      /\ bid' = AtLeast(0, c.amount)
      /\ mode' = c.mode
      /\ lastSwitch' = c.last
      /\ entered' = IF c.mode # mode THEN sl ELSE entered
-----------------------------------------------------------------------------
TankOf(p) == [kind |-> p.kind, min |-> p.min, max |-> p.max, mass |-> p.mass, loss |-> p.loss,
              temp |-> p.initial, htf |-> p.initial, condenser |-> p.initial, drop |-> 0]
Nothing == [min |-> 0, demand |-> 0, max |-> 0]
Init ==
    /\ pump \in Pumps
    /\ slot = -1 /\ tick = 0 /\ failed = {}
    /\ input \in Inputs(pump)
    /\ store = [tanks |-> [i \in DOMAIN pump.tanks |-> TankOf(pump.tanks[i])],
                stored |-> Threshold(MinSoc), cop |-> 0, heat |-> 0]
    /\ need = Nothing /\ asked = Nothing /\ bought = 0 /\ bid = 0
    /\ mode = IF pump.kind = "sortes" THEN "maintain" ELSE "charge"
    /\ lastSwitch = NeverSwitched /\ entered = 0 - SwitchAfter
    /\ spilled = 0 /\ unserved = 0 /\ unmatched = FALSE

EventMarketCycle ==
    /\ failed = {} /\ slot < LastSlot /\ (slot = -1 \/ tick > LastTick)
    /\ \E in \in Inputs(pump) : \E c \in {CycleEnergy(in, slot = -1)} :
             /\ input' = in
             /\ store' = c.store /\ need' = c.need /\ asked' = c.need
             /\ spilled' = c.spilled /\ unmatched' = (unmatched \/ bid > 0)
             /\ unserved' = IF bought >= asked.min /\ asked.min < pump.maxEnergy THEN c.unserved ELSE 0
             /\ failed' = IF c.fails THEN {pump.kind} ELSE {}
             /\ IF c.fails THEN bid' = 0 /\ UNCHANGED <<mode, lastSwitch, entered>>
                ELSE PostOrder(c.store, c.need, in, slot + 1, 0)
    /\ slot' = slot + 1 /\ tick' = 0 /\ bought' = 0
    /\ UNCHANGED pump

(* At a tick the open bid is removed and posted again.                     *)
EventTick ==
    /\ failed = {} /\ slot >= 0 /\ tick <= LastTick
    /\ PostOrder(store, need, input, slot, tick)
    /\ tick' = tick + 1
    /\ UNCHANGED <<pump, slot, input, failed, energy, unmatched>>

(* The market takes the bid or, once in a slot, a part of it; the rest     *)
(* stays open.                                                             *)
DecrementPostedEnergy(amount) == [k \in DOMAIN need |-> AtLeast(0, need[k] - amount)]
EventBidTraded ==
    /\ failed = {} /\ slot >= 0 /\ bid > 0
    /\ \E amount \in {bid} \cup (IF bought = 0 THEN {(bid + 1) \div 2} ELSE {}) :
         /\ bid' = bid - amount
         /\ bought' = bought + amount
         /\ need' = DecrementPostedEnergy(amount)
    /\ UNCHANGED <<pump, slot, tick, input, failed, store, asked, spilled, unserved, mode, lastSwitch, entered, unmatched>>

Next == EventMarketCycle \/ EventTick \/ EventBidTraded
Spec == Init /\ [][Next]_vars
-----------------------------------------------------------------------------
(* What a pump has bought in a slot and still bids for stays within its    *)
(* rating and within the largest need of the slot, however often the bid   *)
(* is removed, posted again and taken in parts, and whatever the           *)
(* management decides in between.                                          *)
NeverAboveRating ==
    /\ pump.kind \in {"tanks", "virtual"} => bought + bid <= pump.maxEnergy
    /\ bought + bid <= Max({asked[k] : k \in DOMAIN asked} \cup {0})

(* The heat the electricity brings in fits into the tanks: nothing is cut  *)
(* off at the maximum temperature, although the need was worked out a slot *)
(* before, for another state of the tanks.  This and the next property are *)
(* about water tanks and the universal model: the model of a PCM tank in   *)
(* the code leaves its temperature alone, and the electricity of a         *)
(* measured model may be off its curve.                                    *)
Exact == pump.kind = "tanks" /\ pump.model # "measured" /\ \A i \in DOMAIN Tanks : Tanks[i].kind = "water"
NothingWasted == Exact => spilled <= Tolerance

(* If the pump bought its minimum, the demand of the slot is covered from  *)
(* the pump and the tanks, but for what the tanks lose in a slot.          *)
LossesIn(tanks) == SumOver([i \in DOMAIN tanks |-> (tanks[i].max * tanks[i].mass * tanks[i].loss) \div 1000])
DemandServed == Exact => unserved <= Tolerance + LossesIn(Tanks)

(* A state that runs the pump is kept for the time the management promises *)
(* before it changes.                                                      *)
SwitchesRarely ==
    [][mode # "maintain" /\ mode' # mode => slot' - entered >= SwitchAfter]_vars

(* The sorption store stays between its limits, up to one charge or        *)
(* discharge, as long as every bid is taken; a bid that is not taken       *)
(* empties the store nevertheless.                                         *)
LargestStep == Max({ChargeEnergy(in.source) : in \in Inputs(pump)} \cup {DischargeEnergy(in.source) : in \in Inputs(pump)})
SorTesWithinReach ==
    pump.kind = "sortes" /\ ~ unmatched =>
        store.stored \in Threshold(MinSoc) - LargestStep .. Threshold(MaxSoc) + LargestStep

(* An assertion fails only in the one known way: the sorption store after  *)
(* a bid that was not taken whole.                                         *)
FailsOnlyWhenKnown == failed # {} => pump.kind = "sortes" /\ unmatched

(* The virtual pump that buys its minimum keeps the temperature of its     *)
(* tanks, which is what the minimum is worked out for.                     *)
MinimumMaintainsTemperature ==
    [][pump.kind = "virtual" /\ slot >= 0 /\ slot' > slot /\ bought >= asked.min /\ asked.min < pump.maxEnergy
         => \A i \in DOMAIN Tanks : store'.tanks[i].temp >= Tanks[i].temp - Tolerance]_vars
=============================================================================
