---------------------------- MODULE SorTesTank ----------------------------
(***************************************************************************)
(* A heat pump with a sorption store (SorTES).  The store is charged or    *)
(* discharged with the whole power its performance maps give for the       *)
(* ambient temperature, for a whole slot or not at all.  Energies are in   *)
(* Wh, temperatures in degrees, coefficients in hundredths.                *)
(***************************************************************************)
EXTENDS CopModels, TLC

CONSTANT StoreCapacity   \* the heat the store holds when it is full

MinSoc == 10
MaxSoc == 90
Correction == 5      \* between the ambient temperature and that of the maps

ChargingPower == (5 :> 3800) @@ (10 :> 3500) @@ (15 :> 3300) @@ (20 :> 3000) @@ (25 :> 2600)
                 @@ (30 :> 2200) @@ (35 :> 1800) @@ (40 :> 1500) @@ (45 :> 500)
DischargingPower == (5 :> 3000) @@ (10 :> 3500) @@ (15 :> 4000) @@ (20 :> 4300) @@ (25 :> 4800)

(* Linear between the points of a map, and beyond them along the line      *)
(* through the two last ones.                                              *)
OnLine(map, at, a, b) == map[a] + ((map[b] - map[a]) * (at - a)) \div (b - a)
PowerAt(map, at) ==
    LET points == DOMAIN map
        inner == points \ {Max(points)}
        from == IF at < Min(points) THEN Min(points) ELSE Max({p \in inner : p <= at})
    IN  OnLine(map, at, from, Min({p \in points : p > from}))
ChargeEnergy(ambient) == PowerAt(ChargingPower, ambient + Correction) \div SlotsPerHour
DischargeEnergy(ambient) == PowerAt(DischargingPower, ambient - Correction) \div SlotsPerHour

(* The electricity of the condenser and of the evaporator.                 *)
CondenserElectricity(heat) == (heat * 10) \div (35 * 12)
EvaporatorElectricity(heat) == (heat * 10) \div 12

Threshold(soc) == (soc * StoreCapacity) \div 100
FreeStorage(stored, ambient) == IF stored > Threshold(MaxSoc) THEN 0 ELSE ChargeEnergy(ambient)
StoredHeat(stored, ambient) == IF stored < Threshold(MinSoc) THEN 0 ELSE DischargeEnergy(ambient)

Demand(heat, cop) == (heat * 100) \div cop
EnergyToBuyMaximum(stored, ambient, demand) ==
    LET free == FreeStorage(stored, ambient) IN demand + free + CondenserElectricity(free)
EnergyToBuyMinimum(stored, ambient, demand) ==
    LET heat == StoredHeat(stored, ambient) IN
    IF demand - heat < 0 /\ heat > 0 THEN demand ELSE demand - heat + EvaporatorElectricity(heat)

(* The state of the management decides what the difference between the     *)
(* electricity that was bought and the demand means.                       *)
ChargeOrDischarge(stored, ambient, net, mode) ==
    IF net = 0 THEN stored
    ELSE IF mode = "charge" THEN stored + ChargeEnergy(ambient) ELSE stored - DischargeEnergy(ambient)
CannotHappen(ambient, net, mode) ==
    /\ net # 0
    /\ CASE mode = "charge" -> \/ net < 0
                               \/ net # ChargeEnergy(ambient) + CondenserElectricity(ChargeEnergy(ambient))
         [] mode = "discharge" -> net > 0
         [] OTHER -> TRUE
=============================================================================
