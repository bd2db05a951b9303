---------------------------- MODULE ForwardEnergy ----------------------------
(***************************************************************************)
(* What a load or a PV may still trade on a forward market, and what the   *)
(* trade of a product takes from the quarters it delivers in.  A ledger is *)
(* a function from quarters to energy.  Intraday and day products share    *)
(* one record of the energy posted per quarter; the longer ones keep none. *)
(***************************************************************************)
EXTENDS ForwardMarkets

CONSTANTS Peak,        \* peak_energy_kWh, per quarter
          Profile,     \* the standard profile over the quarters of a day
          ProfileUnit  \* its value at the peak

EnergyAssumption ==
  /\ Peak \in Nat \ {0} /\ ProfileUnit \in Nat \ {0}
  /\ Profile \in [0..(Day \div Quarter) - 1 -> 0..ProfileUnit]

Horizon == (MaxYears + 1) * Year   \* the years the asset has a profile for
Quarters == {t \in 0..Horizon - 1 : t % Quarter = 0}

\* The share of energy that a profile of that height has at a quarter.
Scaled(energy, q) == (energy * Profile[(q % Day) \div Quarter]) \div ProfileUnit

\* The energy the asset wants to consume, or can produce, in every quarter.
Desired == [q \in Quarters |-> Scaled(Peak, q)]

\* The quarters a product delivers in, and what it delivers in each of them.
Delivery(type, slot) == {q \in slot..slot + SlotDuration(type) - 1 : q % Quarter = 0}
Delivered(type, energy, q) == IF type \in {"intraday", "day"} THEN energy ELSE Scaled(energy, q)

\* The quarter at noon that stands for a whole long product.
ReferenceSlot(slot) == StartOf(slot, Day) + Day \div 2

\* The posted energy of a product: the largest of its quarters; the products
\* of a week and longer keep no account of it.
Posted(type, slot, posted) ==
  IF type \in {"intraday", "day"} THEN Max({posted[q] : q \in Delivery(type, slot)}) ELSE 0

AddPosted_FirstQuarter(type, slot, energy, posted) ==
  IF type \in {"intraday", "day"} THEN [posted EXCEPT ![slot] = @ + energy] ELSE posted

AddPosted(type, slot, energy, posted) ==
  IF type \in {"intraday", "day"}
    THEN [q \in DOMAIN posted |-> IF q \in Delivery(type, slot) THEN posted[q] + energy ELSE posted[q]]
    ELSE posted

\* The share of the peak that is left at noon.

LongAvailable(slot, left) ==
  LET noon == ReferenceSlot(slot)
  IN  IF Desired[noon] <= 0 THEN 0 ELSE (left[noon] * Peak) \div Desired[noon]

\* A PV offers a day product from its forecast, not from what is left of it.
Available(asset, type, slot, left) ==
  CASE type = "intraday" -> left[slot]
    [] type = "day" /\ asset = "load" -> Min({left[q] : q \in Delivery(type, slot)})
    [] type = "day" /\ asset = "pv"   -> Min({Desired[q] : q \in Delivery(type, slot)})
    [] OTHER -> LongAvailable(slot, left)

\* What is left of a ledger after a trade.
AfterTrade(type, slot, energy, left) ==
  [q \in DOMAIN left |->
     IF q \in Delivery(type, slot) THEN left[q] - Delivered(type, energy, q) ELSE left[q]]
=============================================================================
