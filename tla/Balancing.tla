------------------------------ MODULE Balancing ------------------------------
(***************************************************************************)
(* The balancing markets of one time slot.  Devices named in the registry  *)
(* offer to raise or to lower their consumption; market agents copy these  *)
(* offers from market to market; an agent that buys energy for its area on *)
(* the spot market buys a share of it, in both directions, from the        *)
(* balancing market of its area, and keeps what it cannot buy for later    *)
(* ticks.                                                                  *)
(*                                                                         *)
(* An offer to deliver has positive energy, an offer to consume negative   *)
(* energy.  An offer, its copies and the residuals of its splits are one   *)
(* family: a family is listed at most once per market.  How engines carry  *)
(* one trade from market to market, call by call, is the subject of module *)
(* MarketNetwork; here the cascade is one step.  Prices enter only as the  *)
(* order in which offers are bought.  Energy is an integer well above the  *)
(* tolerance of the code.                                                  *)
(***************************************************************************)
EXTENDS EnergySums, Sequences, FiniteSets

CONSTANTS
    Markets, Agents, Lower, Higher,  \* the tree of areas
    Loads, Storages, Plants, Home,   \* devices and their markets
    Ratio,       \* divisors [demand, supply, spot] of the balancing ratios
    Wh,          \* Wh per kWh, scaled down
    Capacity, PlantEnergy,           \* of a storage, and per slot of a plant
    Rank,        \* ranks the offers by energy rate: device, direction -> number
    Registries,  \* registries to start from
    MaxDesired, MaxTrades            \* bounds

Devices == Loads \cup Storages \cup Plants
Directions == {"upward", "downward"}

(* A load may make one offer to ramp down per spot trade. *)
Families == (Devices \X Directions \X {1}) \cup (Loads \X {"upward"} \X (1 .. MaxTrades))
Direction(f) == f[2]
Origin(f) == Home[f[1]]

Above[m \in Markets] ==
    UNION {{a} \cup Above[Higher[a]] : a \in {b \in Agents : Lower[b] = m}}
AgentsBetween ==
    [p \in Markets \X Markets |-> (Above[p[1]] \ Above[p[2]]) \cup (Above[p[2]] \ Above[p[1]])]
Paths ==
    {p \in Markets \X Markets \X Markets :
        AgentsBetween[<<p[2], p[1]>>] \cap AgentsBetween[<<p[1], p[3]>>] = {}}
OnPath(k, m, n) == <<k, m, n>> \in Paths
Neighbours == {p \in Markets \X Markets : Cardinality(AgentsBetween[p]) = 1}

ASSUME BalancingAssumption ==
    /\ Lower \in [Agents -> Markets] /\ Higher \in [Agents -> Markets]
    /\ IsFiniteSet(Agents) /\ IsFiniteSet(Devices) /\ Home \in [Devices -> Markets]
    /\ Loads \cap Storages = {} /\ Loads \cap Plants = {} /\ Storages \cap Plants = {}
    /\ Ratio \in [{"demand", "supply", "spot"} -> Nat \ {0}]
    /\ {Wh, Capacity, PlantEnergy, MaxDesired, MaxTrades} \subseteq Nat
    /\ Registries \subseteq SUBSET Devices
    /\ Rank \in [Devices \X Directions -> Nat]
    /\ \A p, q \in Devices \X Directions : p # q => Rank[p] # Rank[q]

VARIABLES
    registry,     \* DeviceRegistry.REGISTRY: the devices with balancing rates
    flexible,     \* FLEXIBLE_LOADS_SUPPORT
    twoSided,
    desired, requirement, bid,  \* of each load, in kWh
    used,         \* used_storage of each storage
    open,         \* the slot has begun
    listed,       \* market, family -> energy of its offer, 0 when there is none
    unmatched,    \* unmatched_energy_upward and _downward of Lower[agent]
    due,          \* spot energy an agent has bought and has not heard of yet
    trades,       \* spot trades so far
    offered, sold,       \* history: energy of each family, in absolute terms
    imported, balanced   \* history: spot and balancing energy an agent bought

spotTrades == <<desired, requirement, bid, used, trades, imported>>
options == <<registry, flexible, twoSided>>
vars == <<options, spotTrades, open, listed, unmatched, due, offered, sold, balanced>>

Nothing == [f \in Families |-> 0]
Size(energy) == IF energy < 0 THEN - energy ELSE energy
Idle == \A a \in Agents : due[a] = 0
-----------------------------------------------------------------------------
(* BalancingMarket *)

(* split_offer *)
Residual(energy, t) == energy - t

(* What market n lists of an offer after accept_offer of t kWh of it in    *)
(* market m, the split of an offer that is larger and all that the engines *)
(* make of both: towards the device the offer is split and bought in every *)
(* market, in the neighbouring markets the copy is replaced by one of the  *)
(* residual, copies further away are deleted.  The agents ask for no more  *)
(* than the offer, with its sign.                                          *)
AfterTrade_KeepsCopies(book, n, m, f, t) ==
    IF t # 0 /\ OnPath(n, m, Origin(f)) THEN Residual(book[n][f], t) ELSE book[n][f]
AfterTrade(book, n, m, f, t) ==
    CASE t = 0 -> book[n][f]
      [] t # 0 /\ (OnPath(n, m, Origin(f)) \/ (<<n, m>> \in Neighbours /\ book[n][f] # 0)) ->
            Residual(book[m][f], t)
      [] OTHER -> 0

(* balancing_offer in the market of the device; an offer of no energy is   *)
(* refused.                                                                *)
Offered(book, f, energy) == [book EXCEPT ![Origin(f)][f] = energy]
-----------------------------------------------------------------------------
(* BalancingAgent *)

Cheaper(f, g) ==
    \/ Rank[<<f[1], f[2]>>] < Rank[<<g[1], g[2]>>]
    \/ f[1] = g[1] /\ f[2] = g[2] /\ f[3] < g[3]
SortedOffers(book, m) ==
    LET offers == {f \in Families : book[m][f] # 0}
    IN  [i \in 1 .. Cardinality(offers) |->
            CHOOSE f \in offers : Cardinality({g \in offers : Cheaper(g, f)}) = i - 1]

Smaller(x, y) == IF x < y THEN x ELSE y

(* One turn of the loop over the offers of the market: buy the offer, or   *)
(* the part of it that is still wanted.                                    *)
DirectionOf(energy) == IF energy > 0 THEN "upward" ELSE "downward"
Amount(energy, want) == Smaller(Size(energy), want[DirectionOf(energy)])
Signed_WholeOffer(energy, amount) == IF amount = 0 THEN 0 ELSE energy
Signed(energy, amount) == IF energy > 0 THEN amount ELSE - amount
BalancingTrade(energy, state, f) ==
    LET amount == Amount(energy, state.want)
    IN  [want |-> [state.want EXCEPT ![DirectionOf(energy)] = @ - amount],
         bought |-> [state.bought EXCEPT ![f] = Signed(energy, amount)]]

(* What is still wanted after the first i offers, and what was bought.     *)
Purchases(energies, offers, want) ==
    LET after[i \in 0 .. Len(offers)] ==
            IF i = 0 THEN [want |-> want, bought |-> Nothing]
            ELSE BalancingTrade(energies[offers[i]], after[i - 1], offers[i])
    IN  after[Len(offers)]

TriggerBalancingTrades(a, book, want) ==
    \E after \in {Purchases(book[Lower[a]], SortedOffers(book, Lower[a]), want)} :
        /\ listed' = [n \in Markets |-> [f \in Families |->
                         AfterTrade(book, n, Lower[a], f, after.bought[f])]]
        /\ unmatched' = [unmatched EXCEPT ![a] = after.want]
        /\ sold' = [f \in Families |-> sold[f] + Size(after.bought[f])]
        /\ balanced' = [balanced EXCEPT ![a] =
               [dir \in Directions |-> @[dir] + want[dir] - after.want[dir]]]

(* _calculate_and_buy_balancing_energy on a spot trade whose buyer is the  *)
(* area of the agent.                                                      *)
Share(energy) == energy \div Ratio["spot"]
BalancingEnergy_OfTheTrade(a) == [dir \in Directions |-> Share(due[a])]
BalancingEnergy(a) == [dir \in Directions |-> Share(due[a]) + unmatched[a][dir]]
EventOfferTraded(a) ==
    /\ due[a] > 0
    /\ TriggerBalancingTrades(a, listed, BalancingEnergy(a))
    /\ due' = [due EXCEPT ![a] = 0]
    /\ UNCHANGED <<options, spotTrades, open, offered>>

(* event_tick: the engines copy the offers that are old enough - ages are  *)
(* left out, so any of them may be - and the energy not matched so far is  *)
(* tried again.                                                            *)
Opposite(a, m) == IF m = Lower[a] THEN Higher[a] ELSE Lower[a]
Forwardable(a) ==
    {p \in {Lower[a], Higher[a]} \X Families :
        listed[Opposite(a, p[1])][p[2]] # 0 /\ listed[p[1]][p[2]] = 0}
Forwarded(a, copies) ==
    [m \in Markets |-> [f \in Families |->
        IF <<m, f>> \in copies THEN listed[Opposite(a, m)][f] ELSE listed[m][f]]]
EventTick(a) ==
    /\ open /\ Idle
    /\ \E book \in {Forwarded(a, copies) : copies \in SUBSET Forwardable(a)} :
          TriggerBalancingTrades(a, book, unmatched[a])
    /\ UNCHANGED <<options, spotTrades, open, due, offered>>
-----------------------------------------------------------------------------
(* Strategies *)

IsEligible(d) == d \in registry

(* The share of its demand that a load commits to take up when required:   *)
(* set aside from the energy it buys, and offered in Wh.                   *)
RampUp(d) == IF IsEligible(d) THEN desired[d] \div Ratio["demand"] ELSE 0
FirstBid(d) == requirement[d] - RampUp(d)

(* The offers of the cycle of the balancing market - a plant makes its own *)
(* in the market cycle - as the energy of each direction.                  *)
StorageOffers(d) ==
    [downward |-> - ((Capacity - used[d]) \div Ratio["demand"]), upward |-> used[d] \div Ratio["supply"]]
PlantOffers == [downward |-> 0, upward |-> PlantEnergy]
CycleOffers(d) ==
    CASE ~IsEligible(d) -> [dir \in Directions |-> 0]
      [] IsEligible(d) /\ d \in Loads    -> [downward |-> - RampUp(d) * Wh, upward |-> 0]
      [] IsEligible(d) /\ d \in Storages -> StorageOffers(d)
      [] IsEligible(d) /\ d \in Plants   -> PlantOffers
CycleEnergy(f) == IF f[3] = 1 THEN CycleOffers(f[1])[f[2]] ELSE 0

OpenSlot ==
    /\ ~open /\ open' = TRUE
    /\ bid' = [d \in Loads |-> IF twoSided THEN FirstBid(d) ELSE 0]
    /\ requirement' = [d \in Loads |-> requirement[d] - RampUp(d)]
    /\ listed' = [m \in Markets |-> [f \in Families |-> IF m = Origin(f) THEN CycleEnergy(f) ELSE 0]]
    /\ offered' = [f \in Families |-> Size(CycleEnergy(f))]
    /\ UNCHANGED <<options, desired, used, trades, imported, unmatched, due, sold, balanced>>

(* A load buys e kWh on the spot market from a seller in market m; every   *)
(* agent in between buys them too.  With flexible loads the load offers to *)
(* give a share back.                                                      *)
RampDown(d, e) == IF flexible /\ IsEligible(d) THEN e \div Ratio["supply"] ELSE 0
SpotTrade(d, e, m) ==
    LET f == <<d, "upward", trades + 1>>
    IN  /\ open /\ Idle /\ trades < MaxTrades
        /\ e <= (IF twoSided THEN bid[d] ELSE requirement[d])
        /\ trades' = trades + 1
        /\ requirement' = [requirement EXCEPT ![d] = @ - e]
        /\ bid' = [bid EXCEPT ![d] = IF twoSided THEN @ - e ELSE @]
        /\ listed' = Offered(listed, f, RampDown(d, e))
        /\ offered' = [offered EXCEPT ![f] = RampDown(d, e)]
        /\ due' = [a \in Agents |-> IF a \in AgentsBetween[<<Home[d], m>>] THEN e ELSE 0]
        /\ imported' = [a \in Agents |-> imported[a] + due'[a]]
        /\ UNCHANGED <<options, desired, used, open, unmatched, sold, balanced>>
-----------------------------------------------------------------------------
Init ==
    /\ registry \in Registries
    /\ flexible \in BOOLEAN /\ twoSided \in BOOLEAN
    /\ desired \in [Loads -> {MaxDesired}] /\ requirement = desired
    /\ used \in [Storages -> {Ratio["supply"], Capacity}]
    /\ open = FALSE /\ trades = 0
    /\ bid = [d \in Loads |-> 0]
    /\ listed = [m \in Markets |-> Nothing]
    /\ unmatched = [a \in Agents |-> [dir \in Directions |-> 0]]
    /\ due = [a \in Agents |-> 0] /\ imported = due
    /\ offered = Nothing /\ sold = Nothing /\ balanced = unmatched

Next ==
    \/ OpenSlot
    \/ \E d \in Loads, e \in 1 .. MaxDesired, m \in Markets : e % Ratio["spot"] = 0 /\ SpotTrade(d, e, m)
    \/ \E a \in Agents : EventOfferTraded(a) \/ EventTick(a)

Spec == Init /\ [][Next]_vars
-----------------------------------------------------------------------------
TypeOK ==
    /\ registry \subseteq Devices /\ flexible \in BOOLEAN /\ twoSided \in BOOLEAN
    /\ {desired, requirement, bid} \subseteq [Loads -> Nat] /\ used \in [Storages -> Nat]
    /\ open \in BOOLEAN /\ trades \in 0 .. MaxTrades
    /\ listed \in [Markets -> [Families -> Int]]
    /\ due \in [Agents -> Nat] /\ imported \in [Agents -> Nat]
    /\ {unmatched, balanced} \subseteq [Agents -> [Directions -> Nat]]
    /\ {offered, sold} \subseteq [Families -> Nat]

(* Of every spot purchase of an area its agent buys the share it owes, in  *)
(* both directions, or still knows what is missing: nothing is bought twice*)
(* or forgotten over the trades and ticks of a slot.                       *)
SpotTradesBalanced ==
    \A a \in Agents, dir \in Directions :
        balanced[a][dir] + unmatched[a][dir] + Share(due[a]) = Share(imported[a])

(* Splitting, copying and buying through several markets loses no offered  *)
(* energy and sells none twice: what is left of an offer and what was sold *)
(* of it make up the offer, and no market lists more or less than what is  *)
(* left.                                                                   *)
OffersConserved ==
    \A f \in Families :
        /\ Size(listed[Origin(f)][f]) + sold[f] = offered[f]
        /\ \A m \in Markets : listed[m][f] \in {0, listed[Origin(f)][f]}

(* The agents together have bought what the devices have sold, however     *)
(* many markets the offers went through.                                   *)
Bought == [p \in Agents \X Directions |-> balanced[p[1]][p[2]]]
BoughtIsSold == Total(sold) = Total(Bought)

(* A load never has more energy bid for than it still has to buy after the *)
(* share it has committed to the balancing market.                         *)
BidsLeaveTheCommitment == open => \A d \in Loads : bid[d] <= requirement[d]

CommitmentsHonoured == SpotTradesBalanced /\ BidsLeaveTheCommitment
=============================================================================
