------------------------------ MODULE Battery -------------------------------
(***************************************************************************)
(* The contract of a storage asset seen from outside its strategy: stored  *)
(* energy that is delivered slot by slot, within the capacity, above the   *)
(* minimum state of charge and within the power limit of one slot.         *)
(***************************************************************************)
EXTENDS Integers

CONSTANTS Capacity, MinEnergy, InitialEnergy, BatteryEnergy

VARIABLES stored, slot

Init == stored = InitialEnergy /\ slot = 0

(* A market cycle delivers the energy traded for the slot that ended. *)
Deliver ==
    /\ slot' = slot + 1
    /\ stored' \in MinEnergy..Capacity
    /\ stored' - stored \in -BatteryEnergy..BatteryEnergy

Spec == Init /\ [][Deliver]_<<stored, slot>>
=============================================================================
