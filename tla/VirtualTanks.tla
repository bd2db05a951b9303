--------------------------- MODULE VirtualTanks ---------------------------
(***************************************************************************)
(* The virtual heat pump: what a house with district heating would have    *)
(* consumed if a heat pump with water tanks had supplied it.  The solver   *)
(* relates the electricity of a slot to the temperatures of the tanks.     *)
(* Units are those of HeatTanks; flow is the heat in Wh that the water of  *)
(* the district heating carries in a slot per tenth of a degree.  An input *)
(* of the pump is a record [supply, return, flow, source].                 *)
(***************************************************************************)
EXTENDS HeatTanks

CONSTANTS
    Calibration,   \* of the coefficient of performance, in hundredths
    MaxChange      \* bounds the change of a temperature the solver looks at

HeatOut(in) == in.flow * (in.supply - in.return)

(* The coefficient of performance for a temperature of the condenser.      *)
VirtualCop(condenser, source) == (Calibration * condenser) \div (condenser - source)
HeatFor(tanks, targets, in) ==
    SumOver([i \in DOMAIN tanks |-> tanks[i].mass * (targets[i] - tanks[i].temp)]) + HeatOut(in)
Electricity(heat, condenser, in) == (heat * 100) \div VirtualCop(condenser, in.source)

(* From target temperatures to electricity: the condenser is as much above *)
(* the mean of the targets as the flow needs to carry the heat.            *)
EnergyFromStorageTemp(tanks, targets, in) ==
    LET heat == HeatFor(tanks, targets, in) IN
    IF in.flow = 0 THEN 0
    ELSE Electricity(heat, heat \div in.flow + SumOver(targets) \div Len(tanks), in)

(* From electricity to temperatures: all tanks change by the same amount,  *)
(* the largest one the electricity pays for.  The condenser is computed by *)
(* another formula here, with the heat shared by the tanks.                *)
Warmed(tanks, change) == [i \in DOMAIN tanks |-> tanks[i].temp + change]
CondenserTo(tanks, targets, in) == (HeatFor(tanks, targets, in) \div in.flow + SumOver(targets)) \div Len(tanks)
ElectricityToWarm(tanks, change, in) ==
    LET targets == Warmed(tanks, change)
    IN  Electricity(HeatFor(tanks, targets, in), CondenserTo(tanks, targets, in), in)
StorageTempFromEnergy(tanks, energy, in) ==
    LET exists(c) == CondenserTo(tanks, Warmed(tanks, c), in) > in.source
        pays(c) == ElectricityToWarm(tanks, c, in) <= energy
        solutions == {c \in (0 - MaxChange) .. MaxChange : exists(c) /\ pays(c) /\ ~ pays(c + 1)}
    IN  IF solutions = {} THEN 0 ELSE Max(solutions)

(* A tank remembers the decrease of the slot, in the field drop.           *)
UpdateStorageTemp(t, increase) == [t EXCEPT !.temp = AtLeast(t.min, @ - t.drop + increase), !.drop = 0]
DecreaseTankTemp(t, heat) ==
    LET drop == heat \div t.mass IN [t EXCEPT !.drop = IF t.temp - drop < t.min THEN 0 ELSE drop]
SetTempDecrease(tanks, in) == [i \in DOMAIN tanks |-> DecreaseTankTemp(tanks[i], HeatOut(in) \div Len(tanks))]

Maintained(tanks) == [i \in DOMAIN tanks |-> AtLeast(tanks[i].min, AtMost(tanks[i].max, tanks[i].temp))]
Full(tanks) == [i \in DOMAIN tanks |-> tanks[i].max]
VirtualMinimum(tanks, in) == EnergyFromStorageTemp(tanks, Maintained(tanks), in)
VirtualMaximum(tanks, in) == EnergyFromStorageTemp(tanks, Full(tanks), in)
=============================================================================
