----------------------------- MODULE MCDevices ------------------------------
(* Instances for TLC of heat pumps of every kind (HeatPumps), chargers of  *)
(* electric vehicles (EVCharger), electrolyzers with a future market or in *)
(* a one-sided market (Electrolyzer), and a storage with losses, refused   *)
(* purchases and a restart (StorageState), with few values for each        *)
(* profile.                                                                *)
EXTENDS HeatPumps

VARIABLES
    device,   \* which of them a behaviour is about; the others are idle
    charger, status, profiled, contents,
    pc, open_buy, open_sell, pledged_buy, pledged_sell,
    clock, spot, last_past, current_slot, post, pending, used_storage,
    offered_sell, offered_buy, ledger, losses, restarts,
    load_profile, cycling, drawn

pumpVars == <<pump, tick, input, failed, store, need, bought, bid, mode, lastSwitch, asked,
              spilled, unserved, entered, unmatched>>
chargerVars == <<charger, status, profiled, contents>>
storageVars == <<clock, spot, last_past, current_slot, post, pending, used_storage,
                 offered_sell, offered_buy, ledger, losses, restarts>>
electrolyzerVars == <<load_profile, cycling, drawn>>
orderVars == <<pc, open_buy, open_sell, pledged_buy, pledged_sell>>

MCPumpModel == [qRef |-> 120, pRef |-> 40, qMin |-> 15, qMax |-> 120,
                capft |-> <<95, 100, -20, 0, 0, 0>>, heirft |-> <<90, 0, 50, 0, 0, 0>>,
                heirfplr |-> <<5, 60, 35>>]
Water(mass, loss) == [kind |-> "water", min |-> 300, max |-> 600, initial |-> 450, mass |-> mass, loss |-> loss]
Warm(mass) == [Water(mass, 0) EXCEPT !.initial = 590]
Pcm(mass, loss) == [Water(mass, loss) EXCEPT !.kind = "pcm"]
Pump(kind, tanks, model, byRate, heatProfile) ==
    [kind |-> kind, tanks |-> tanks, model |-> model, byRate |-> byRate, heatProfile |-> heatProfile, maxEnergy |-> IF kind = "virtual" THEN 600 ELSE 100]
MCPumps ==
    {Pump("tanks", <<Water(1, 0), Water(3, 0)>>, "ground", TRUE, TRUE),
     Pump("tanks", <<Water(2, 0)>>, "air", FALSE, FALSE),
     Pump("tanks", <<Water(1, 20), Pcm(1, 20)>>, "air", FALSE, TRUE),
     Pump("tanks", <<Water(2, 10)>>, "measured", TRUE, FALSE),
     Pump("bare", <<>>, "measured", TRUE, TRUE),
     Pump("bare", <<>>, "air", TRUE, FALSE),
     Pump("sortes", <<>>, "air", FALSE, TRUE),
     Pump("virtual", <<Warm(10)>>, "air", TRUE, TRUE),
     Pump("virtual", <<Warm(10), Warm(8)>>, "air", TRUE, TRUE)}
MCInputs(p) ==
    LET sources == {50, 150}
        demands == IF p.model = "measured" THEN {5, 50} ELSE {20, 140}
        rates == IF p.byRate THEN {TRUE} ELSE BOOLEAN
    IN  CASE p.kind = "tanks" -> [source : sources, demand : demands, cheap : rates, dearFrom : {1}]
          [] p.kind = "bare" -> [source : sources, target : {500}, demand : demands]
          [] p.kind = "sortes" -> [source : {5, 15}, target : {350}, demand : {500, 3000}, cheap : rates]
          [] p.kind = "virtual" -> [source : {50}, supply : {600}, return : {540}, flow : {1, 4}, dearFrom : {1}]

(* Two cars of the same and of different size that overlap, follow each    *)
(* other, leave a gap or come late.                                        *)
MCSession(from, to, capacity, min, initial) ==
    [from |-> from, to |-> to, capacity |-> capacity, min |-> min, initial |-> initial]
MCSessions ==
    {<<MCSession(0, 3, 100, 50, 20), MCSession(0, 2, 100, 30, 70)>>,
     <<MCSession(0, 3, 100, 20, 90), MCSession(1, 3, 100, 50, 80)>>,
     <<MCSession(0, 2, 200, 100, 40), MCSession(0, 3, 50, 10, 30)>>,
     <<MCSession(0, 1, 100, 50, 60), MCSession(2, 3, 100, 50, 60)>>,
     <<MCSession(1, 3, 100, 50, 60)>>}
Unset == 9999   \* NoPreference of EVCharger
MCNoProfile == [s \in 0..2 |-> Unset]
MCChargers ==
    [sessions : MCSessions, bidirectional : BOOLEAN, twoSided : BOOLEAN,
     rating : {60}, preferred : {MCNoProfile, [MCNoProfile EXCEPT ![0] = 30, ![1] = -40]}]

Charger == INSTANCE EVCharger WITH
    LastSlot <- 2, Chargers <- MCChargers, Efficiency <- 90, Tolerance <- 6, energy <- contents

(* Profiles that ask for nothing, for a little in every slot, for as much  *)
(* as the production rate, and for more.                                   *)
MCDraws == {0 :> a @@ 1 :> b @@ 2 :> c : a \in {0, 1}, b \in {0, 1, 3}, c \in {0, 2}}
Electrolyzer == INSTANCE Electrolyzer WITH
    LastSlot <- 2, FutureSlots <- 1, TwoSided <- TRUE, Capacity <- 5, MinEnergy <- 1,
    InitialEnergy <- 2, BatteryEnergy <- 2, LossScale <- 1, ChargingLoss <- 0,
    DischargingLoss <- 0, SelfDischarge <- 0, AcceptMayFail <- FALSE, MaxRestarts <- 0,
    Profiles <- MCDraws
OneSided == INSTANCE Electrolyzer WITH
    LastSlot <- 2, FutureSlots <- 0, TwoSided <- FALSE, Capacity <- 5, MinEnergy <- 1,
    InitialEnergy <- 2, BatteryEnergy <- 2, LossScale <- 1, ChargingLoss <- 0,
    DischargingLoss <- 0, SelfDischarge <- 0, AcceptMayFail <- FALSE, MaxRestarts <- 0,
    Profiles <- MCDraws
Storage == INSTANCE StorageState WITH
    LastSlot <- 2, FutureSlots <- 1, TwoSided <- TRUE, Capacity <- 5, MinEnergy <- 1,
    InitialEnergy <- 4, BatteryEnergy <- 2, LossScale <- 2, ChargingLoss <- 1,
    DischargingLoss <- 1, SelfDischarge <- 1, AcceptMayFail <- TRUE, MaxRestarts <- 1
ASSUME Electrolyzer!ElectrolyzerAssumption /\ OneSided!ElectrolyzerAssumption
ASSUME Charger!ChargerAssumption

None == "none"
IdlePump ==
    /\ pump = None /\ tick = None /\ input = None /\ failed = None /\ store = None
    /\ need = None /\ bought = None /\ bid = None /\ mode = None /\ lastSwitch = None
    /\ asked = None /\ spilled = None /\ unserved = None /\ entered = None /\ unmatched = None
IdleCharger == charger = None /\ status = None /\ profiled = None /\ contents = None
IdleStorage ==
    /\ clock = None /\ spot = None /\ last_past = None /\ current_slot = None /\ post = None
    /\ pending = None /\ used_storage = None /\ offered_sell = None /\ offered_buy = None
    /\ ledger = None /\ losses = None /\ restarts = None
NoOrders ==
    pc = None /\ open_buy = None /\ open_sell = None /\ pledged_buy = None /\ pledged_sell = None
NoDraw == load_profile = None /\ cycling = None /\ drawn = None

DevicesInit ==
    \/ device = "heat pump" /\ Init /\ IdleCharger /\ IdleStorage /\ NoOrders /\ NoDraw
    \/ device = "charger" /\ Charger!Init /\ IdlePump /\ IdleStorage /\ NoDraw
    \/ /\ device \in {"electrolyzer", "one-sided electrolyzer"}
       /\ Electrolyzer!ElectrolyzerInit /\ IdlePump /\ IdleCharger /\ slot = None
    \/ device = "storage" /\ Storage!Init /\ IdlePump /\ IdleCharger /\ NoDraw /\ slot = None
DevicesNext ==
    \/ device = "heat pump" /\ Next
       /\ UNCHANGED <<device, chargerVars, storageVars, orderVars, electrolyzerVars>>
    \/ device = "charger" /\ Charger!Next
       /\ UNCHANGED <<device, pumpVars, storageVars, electrolyzerVars>>
    \/ device = "electrolyzer" /\ Electrolyzer!ElectrolyzerNext
       /\ UNCHANGED <<device, pumpVars, chargerVars, slot>>
    \/ device = "one-sided electrolyzer" /\ OneSided!ElectrolyzerNext
       /\ UNCHANGED <<device, pumpVars, chargerVars, slot>>
    \/ device = "storage" /\ Storage!Next
       /\ UNCHANGED <<device, pumpVars, chargerVars, electrolyzerVars, slot>>
DevicesSpec ==
    DevicesInit
    /\ [][DevicesNext]_<<vars, device, chargerVars, storageVars, orderVars, electrolyzerVars>>
-----------------------------------------------------------------------------
(* A heat pump stays within its rating and its need, the heat it buys fits *)
(* into the tanks and serves the demand, the sorption store keeps its      *)
(* range, and the management of the state of charge switches rarely        *)
(* (NeverAboveRating, NothingWasted, DemandServed, SorTesWithinReach,      *)
(* SwitchesRarely of HeatPumps).                                           *)
PumpBuysWhatIsNeeded ==
    /\ [](device = "heat pump" =>
            NeverAboveRating /\ NothingWasted /\ DemandServed /\ SorTesWithinReach)
    /\ SwitchesRarely

(* Cars of one size stay within their limits, and the charger within its   *)
(* power (CarsStayWithinLimits, ChargesAtRating of EVCharger).             *)
CarsWithinLimits ==
    device = "charger" => Charger!CarsStayWithinLimits /\ Charger!ChargesAtRating

(* The assertions of the states fail only in the known situations, and an  *)
(* electrolyzer only raises when its profile asks for too much             *)
(* (FailsOnlyWhenKnown of HeatPumps and of EVCharger, FailsOnlyWhenShort). *)
DevicesFailOnlyWhenKnown ==
    /\ device = "heat pump" => FailsOnlyWhenKnown
    /\ device = "charger" => Charger!FailsOnlyWhenKnown
    /\ device = "electrolyzer" => Electrolyzer!FailsOnlyWhenShort
    /\ device = "one-sided electrolyzer" => OneSided!FailsOnlyWhenShort

(* An electrolyzer holds what it bought less what was drawn, and covers    *)
(* its orders with it (ReservoirFlow); the battery of a storage may drop   *)
(* below its minimum, but no slot is sold beyond the power limit           *)
(* (DischargeLimitRespected of StorageState).                              *)
StoresKeepTheirLedger ==
    /\ device = "electrolyzer" => Electrolyzer!ReservoirFlow
    /\ device = "one-sided electrolyzer" => OneSided!ReservoirFlow
    /\ device = "storage" => Storage!DischargeLimitRespected
=============================================================================
