----------------------------- MODULE HeatTanks -----------------------------
(***************************************************************************)
(* The tanks of a heat pump: water tanks and tanks of phase change         *)
(* material (PCM).  A tank is a record of its parameters and of its state  *)
(* in the current slot.  Temperatures are in tenths of a degree and mass   *)
(* is the heat in Wh that changes the temperature of the tank by one       *)
(* tenth; for a PCM tank it is that of the flow through it in a slot.      *)
(***************************************************************************)
EXTENDS Integers, Sequences, FiniteSets, SequencesExt, FiniteSetsExt

SumOver(f) == FoldFunction(LAMBDA x, y : x + y, 0, f)
Each(tanks, Op(_)) == [i \in DOMAIN tanks |-> Op(tanks[i])]
AtLeast(low, x) == IF x < low THEN low ELSE x
AtMost(high, x) == IF x > high THEN high ELSE x

(* What a tank can still take, and what can be drawn from it.  The soc of  *)
(* a water tank goes with its temperature and may be negative after        *)
(* losses; a PCM tank reports nothing below its minimum.                   *)
WaterRoom(t) == (t.max - t.temp) * t.mass
WaterStored(t) == (t.temp - t.min) * t.mass
PcmRoom(t) == AtLeast(0, t.max - t.temp) * t.mass
PcmStored(t) == AtLeast(0, t.temp - t.min) * t.mass
Room(t) == IF t.kind = "pcm" THEN PcmRoom(t) ELSE WaterRoom(t)
Stored(t) == IF t.kind = "pcm" THEN PcmStored(t) ELSE WaterStored(t)
CondenserTemp(t) == IF t.kind = "pcm" THEN t.condenser ELSE t.temp
AverageCondenserTemp(tanks) == SumOver(Each(tanks, CondenserTemp)) \div Len(tanks)
Soc(t) == IF t.kind = "pcm" THEN 50 ELSE (100 * (t.temp - t.min)) \div (t.max - t.min)
AverageSoc(tanks) == SumOver(Each(tanks, Soc)) \div Len(tanks)
HeatIn(tanks) == SumOver([i \in DOMAIN tanks |-> tanks[i].temp * tanks[i].mass])

(* A heat is shared between the tanks in proportion to parts.              *)
Share(heat, parts, i) ==
    LET total == SumOver(parts) IN
    IF total < 0 THEN ((0 - heat) * parts[i]) \div (0 - total) ELSE (heat * parts[i]) \div total

(* The energy the heat pump has to and may bring into the tanks for the    *)
(* heat that is demanded from them.                                        *)
TankMaximum(t, heat) == Room(t) + heat
TankMinimum(t, heat) == AtLeast(0, heat - Stored(t))
(* Mutated form: every tank counts the whole demand. *)
MaxHeatConsumption_Unshared(tanks, heat) == SumOver([i \in DOMAIN tanks |-> TankMaximum(tanks[i], heat)])
MaxHeatConsumption(tanks, heat) ==
    LET parts == Each(tanks, Room) IN
    IF SumOver(parts) = 0 THEN heat
    ELSE SumOver([i \in DOMAIN tanks |-> TankMaximum(tanks[i], Share(heat, parts, i))])
MinHeatConsumption(tanks, heat) ==
    LET parts == Each(tanks, Stored) IN
    IF SumOver(parts) = 0 THEN heat
    ELSE SumOver([i \in DOMAIN tanks |-> TankMinimum(tanks[i], Share(heat, parts, i))])
AssertsNegative(tanks, heat) ==
    LET parts == Each(tanks, Room) IN
    SumOver(parts) # 0 /\ \E i \in DOMAIN tanks : tanks[i].kind = "water" /\ TankMaximum(tanks[i], Share(heat, parts, i)) < 0

(* At the market cycle the tanks lose heat, on the record of the slot that *)
(* is over; its soc is not computed again.                                 *)
ApplyLosses(t) == [t EXCEPT !.temp = @ - (@ * t.loss) \div 1000]
PartsOf(Op(_), old, tanks) == [i \in DOMAIN tanks |-> Op(IF tanks[i].kind = "pcm" THEN tanks[i] ELSE old[i])]

Limit(t, temp) == AtLeast(t.min, AtMost(t.max, temp))
PcmLimited(t, condenser) == [t EXCEPT !.condenser = condenser, !.temp = Limit(t, @), !.htf = Limit(t, @)]
PcmIncrease(t, heat) == PcmLimited(t, t.htf + heat \div t.mass)
PcmDecrease(t, heat) == PcmLimited(t, t.htf - heat \div t.mass)
WaterIncrease(t, heat) == [t EXCEPT !.temp = AtMost(t.max, @ + heat \div t.mass)]
WaterDecrease(t, heat) == [t EXCEPT !.temp = AtLeast(t.min, @ - heat \div t.mass)]
NoCharge(t) == IF t.kind = "water" THEN t ELSE [t EXCEPT !.temp = t.htf, !.condenser = t.htf]
IncreaseTemp(t, heat) ==
    IF heat <= 0 THEN NoCharge(t) ELSE IF t.kind = "water" THEN WaterIncrease(t, heat) ELSE PcmIncrease(t, heat)
DecreaseTemp(t, heat) ==
    IF heat <= 0 THEN NoCharge(t) ELSE IF t.kind = "water" THEN WaterDecrease(t, heat) ELSE PcmDecrease(t, heat)

IncreaseTanks(old, tanks, heat) ==
    LET parts == PartsOf(Room, old, tanks) IN
    [i \in DOMAIN tanks |-> IF SumOver(parts) = 0 THEN NoCharge(tanks[i])
                            ELSE IncreaseTemp(tanks[i], Share(heat, parts, i))]
DecreaseTanks(old, tanks, heat) ==
    LET parts == PartsOf(Stored, old, tanks) IN
    [i \in DOMAIN tanks |-> IF SumOver(parts) = 0 THEN NoCharge(tanks[i])
                            ELSE DecreaseTemp(tanks[i], Share(heat, parts, i))]
UpdateTanks(old, tanks, net) ==
    IF net > 0 THEN IncreaseTanks(old, tanks, net)
    ELSE IF net < 0 THEN DecreaseTanks(old, tanks, -net)
    ELSE [i \in DOMAIN tanks |-> NoCharge(tanks[i])]
UnrealisticCondenser(tanks) ==
    \E i \in DOMAIN tanks : tanks[i].kind = "pcm" /\ tanks[i].condenser \notin 1 .. 999
=============================================================================
