----------------------------- MODULE MCClients ------------------------------
(* Instances for TLC of an asset that external clients control             *)
(* (ExternalAssets), with commands, requests and energies for its four     *)
(* kinds.                                                                  *)
EXTENDS ExternalAssets

(* The main thread does not look at the mappings in every step, at a batch *)
(* not before it is approved, and at the queue only where it empties it:   *)
(* other moments of the arrival of a message need not be distinguished.    *)
Timely ==
    /\ admin' # admin => todo # <<>> \/ pc \in {"rejecting", "requests", "consume", "consume_asset"}
    /\ batches' # batches => pc = "approve" /\ todo = <<>>
    /\ asked' # asked => pc \in {"rejecting", "forecast", "requests"} /\ todo = <<>>

(* The aggregators are interchangeable: only the order of replies depends  *)
(* on their names, and no property looks at it.                            *)
Symmetry == Permutations(Aggregators)

Command(type, at, energy, replace, order) ==
    [type |-> type, slot |-> at, energy |-> energy, replace |-> replace, order |-> order,
     fits |-> energy = 1]
Simple(type) == Command(type, NoSlot, 1, FALSE, 0)

Buys(k) == k \in {"load", "storage", "meter"}
Sells(k) == k \in {"pv", "storage", "meter"}
SideCommands(order, delete, list) ==
    {<<Simple(order), Command(order, NoSlot, 1, FALSE, 0)>>, <<Command(order, NoSlot, 2, TRUE, 0)>>,
     <<Command(order, 1, 1, FALSE, 0), Command(delete, NoSlot, 0, FALSE, 1)>>,
     <<Simple(delete), Simple(list)>>}
AssetBatches(k) ==
    (IF Buys(k) THEN SideCommands("bid", "delete_bid", "list_bids") ELSE {<<Simple("bid")>>})
    \cup (IF Sells(k) THEN SideCommands("offer", "delete_offer", "list_offers") ELSE {<<Simple("offer")>>})
    \cup (IF k \in {"load", "pv"} THEN {<<Command("set_energy_forecast", 1, 2, FALSE, 0)>>} ELSE {})
MCContents(k) ==
    {"asset" :> cs : cs \in AssetBatches(k)}
    \cup {("asset" :> <<Simple("device_info")>>) @@ ("grid" :> <<Command("grid_fees", NoSlot, 1, FALSE, 0)>>)}
MCRequests(k) ==
    (IF Buys(k) THEN {Simple("bid"), Simple("delete_bid")} ELSE {})
    \cup (IF Sells(k) THEN {Simple("offer"), Simple("delete_offer")} ELSE {})
    \cup (IF k \in {"load", "pv"} THEN {Command("set_energy_forecast", 1, 2, FALSE, 0)} ELSE {})
    \cup {Simple("device_info")}
MCLimits(k) ==
    CASE k = "load" -> {[bid |-> 2, offer |-> 0]}
      [] k = "pv" -> {[bid |-> 0, offer |-> 2]}
      [] k = "storage" -> {[bid |-> 2, offer |-> 1]}
      [] k = "meter" -> {[bid |-> 2, offer |-> 0], [bid |-> 0, offer |-> 2]}
-----------------------------------------------------------------------------
(* The open orders of an asset stay within its energy, and market and      *)
(* strategy agree on them (TypeOK, OrdersWithinEnergy, OrdersAgree).       *)
OrdersInOrder == TypeOK /\ OrdersWithinEnergy /\ OrdersAgree
=============================================================================
