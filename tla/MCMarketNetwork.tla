--------------------------- MODULE MCMarketNetwork --------------------------
(* Instances of MarketNetwork: houses on one grid, each joined to it by its*)
(* agent; a producer and a load in the first house, a load or a storage in *)
(* the second.                                                             *)
EXTENDS MarketNetwork, TLC

CONSTANTS grid, house1, house2, house3, agent1, agent2, agent3, pv, load, device

AllLower  == (agent1 :> house1) @@ (agent2 :> house2) @@ (agent3 :> house3)
AllHigher == (agent1 :> grid) @@ (agent2 :> grid) @@ (agent3 :> grid)
LowerMarkets  == [a \in Agents |-> AllLower[a]]
HigherMarkets == [a \in Agents |-> AllHigher[a]]
Homes == [a \in Assets |-> IF a = device THEN house2 ELSE house1]

Posts(ofPV, ofLoad, ofDevice) ==
    [a \in Assets |-> CASE a = pv -> ofPV [] a = load -> ofLoad [] a = device -> ofDevice]
Roles(ofDevice) == [a \in Assets |-> CASE a = pv -> {"offer"} [] a = load -> {"bid"} [] a = device -> ofDevice]

Loads(type, bound) == [type |-> type, sides |-> Roles({"bid"}), minAge |-> 1, maxPosts |-> bound, refused |-> {}]

(* The storage trades on both sides; the copies of orders that enter its   *)
(* house may be refused.                                                   *)
Storage == [type |-> "two-sided", sides |-> Roles(Sides), minAge |-> 0,
            maxPosts |-> Posts(1, 0, 2), refused |-> {<<agent2, "down">>}]

(* With three assets in a two-sided network the agents forward at once, and *)
(* an offer or a bid may come twice.                                       *)
AtOnce(bound) == [Loads("two-sided", bound) EXCEPT !.minAge = 0]
MCSettings == {Loads("one-sided", Posts(2, 1, 1)), Loads("two-sided", Posts(1, 0, 1)),
               AtOnce(Posts(2, 1, 1)), AtOnce(Posts(1, 1, 2)), Storage}

(* A producer and a load two agents apart, next to a third house. *)
MCDistant == {AtOnce(Posts(1, 0, 1))}
=============================================================================
