----------------------------- MODULE CopModels -----------------------------
(***************************************************************************)
(* Models of the coefficient of performance of a heat pump.  Temperatures  *)
(* are in tenths of a degree, coefficients of performance and the          *)
(* coefficients of a model in hundredths, energy in Wh and power in W.     *)
(***************************************************************************)
EXTENDS Integers, FiniteSets, FiniteSetsExt

CONSTANTS
    PumpModel,     \* a measured heat pump: its limits and its coefficients
    SlotsPerHour   \* the number of market slots in an hour

Infeasible == -1
Power(energy) == energy * SlotsPerHour
Energy(power) == power \div SlotsPerHour

(* The universal model: a parabola of the temperature difference.          *)
UniversalCop(source, from, to) ==
    LET delta == to - from IN
    IF source = "air" THEN 608 - (9 * delta) \div 10 + (5 * delta * delta) \div 10000
                      ELSE 1029 - (21 * delta) \div 10 + (12 * delta * delta) \div 10000

(* A measured model: the capacity and the input at full load depend on the *)
(* temperatures, the input at part load on the share of the capacity.      *)
Biquadratic(c, from, to) ==
    LET s == from \div 10
        t == to \div 10
    IN  (c[1] * 100 + c[2] * s + c[3] * t + (c[4] * s * s + c[5] * s * t + c[6] * t * t) \div 100) \div 100
HeatCapacity(from, to) == (PumpModel.qRef * Biquadratic(PumpModel.capft, from, to)) \div 100
InputAtPartLoad(heat, from, to) ==
    LET share == (100 * heat) \div HeatCapacity(from, to)
        part == PumpModel.heirfplr[1] + (PumpModel.heirfplr[2] * share) \div 100
                + (PumpModel.heirfplr[3] * share * share) \div 10000
    IN  (((PumpModel.pRef * Biquadratic(PumpModel.capft, from, to)) \div 100)
          * Biquadratic(PumpModel.heirft, from, to) * part) \div 10000

LimitHeatDemand(heat) == IF heat > PumpModel.qMax THEN PumpModel.qMax
                         ELSE IF heat < PumpModel.qMin THEN PumpModel.qMin ELSE heat
MeasuredCop(heat, from, to) ==
    LET limited == LimitHeatDemand(heat)
        input == InputAtPartLoad(limited, from, to)
    IN  IF limited <= 0 \/ input <= 0 THEN 0 ELSE (100 * limited) \div input

(* The heat for which the pump draws a given power: of the solutions up to *)
(* the capacity the larger one, none if the power is not on the curve.     *)
ResolveHeat(input, from, to) ==
    LET above == [q \in 0 .. HeatCapacity(from, to) |-> InputAtPartLoad(q, from, to) > input]
        solutions == {q \in DOMAIN above \ {0} : above[q - 1] # above[q]}
    IN  IF solutions = {} THEN Infeasible ELSE Max(solutions)

(* What the energy parameters ask of either model, of energies of a slot.  *)
Cop(model, heat, from, to) ==
    IF model = "measured" THEN MeasuredCop(Power(heat), from, to) ELSE UniversalCop(model, from, to)
HeatFromPower(model, electricity, from, to) ==
    IF model = "measured" THEN ResolveHeat(Power(electricity), from, to)
    ELSE (Power(electricity) * UniversalCop(model, from, to)) \div 100
=============================================================================
