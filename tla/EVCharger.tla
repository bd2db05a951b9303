----------------------------- MODULE EVCharger ------------------------------
(***************************************************************************)
(* The charger of electric vehicles: EVChargerStrategy with EVChargerState *)
(* and EVSessionsManager.  It is a storage asset that lives only while a   *)
(* charging session is active: its handlers return at once in any other    *)
(* slot.  Energy that is bought is spread over the connected cars by how   *)
(* empty they are, energy that is sold by how much they hold above their   *)
(* minimum.                                                                *)
(*                                                                         *)
(* Sessions are given in whole slots, because is_active compares the start *)
(* of a slot with the session.  Energies are whole units; a share is       *)
(* rounded down (Tolerance).  The markets of other slots (future market)   *)
(* are not modelled here, and a trade takes an order whole or by half.     *)
(***************************************************************************)
EXTENDS Integers, Sequences, FiniteSetsExt

CONSTANTS
    LastSlot,        \* the last slot of the simulation
    Chargers,        \* chargers to start from: records, see MCDevices
    Efficiency,      \* percentage of the bought energy that reaches the cars
    Tolerance        \* rounding of shares

ChargerAssumption ==
    /\ LastSlot \in Nat /\ Efficiency \in 0..100 /\ Tolerance \in Nat

NoPreference == 9999   \* no entry in the preferred power profile

VARIABLES
    charger,          \* the charger's settings
    pc,               \* "activate", "dispatch", "ticks", "done" or "failed"
    slot,             \* slot of the spot market
    status,           \* EVChargerStatus
    profiled,         \* slots with an entry in the ledgers of the state
    energy,           \* _current_energy_kWh of every session
    open_buy, open_sell,       \* the charger's orders open in the spot market
    pledged_buy, pledged_sell  \* of the current slot

tradeVars == <<open_buy, open_sell, pledged_buy, pledged_sell>>
vars == <<charger, pc, slot, status, profiled, energy, tradeVars>>

Sessions == charger.sessions
Minimum(a, b) == IF a <= b THEN a ELSE b
AtLeastZero(a) == IF a < 0 THEN 0 ELSE a
-----------------------------------------------------------------------------
(* EVSessionsManager, for the sessions active in a slot. *)

ActiveIn(s) == {i \in DOMAIN Sessions : Sessions[i].from <= s /\ s < Sessions[i].to}
TotalCapacity(s) == MapThenSumSet(LAMBDA i : Sessions[i].capacity, ActiveIn(s))
TotalEnergy(s) == MapThenSumSet(LAMBDA i : energy[i], ActiveIn(s))
AggregateToBuy(s) == TotalCapacity(s) - TotalEnergy(s)
AggregateToSell(s) ==
    MapThenSumSet(LAMBDA i : AtLeastZero(energy[i] - Sessions[i].min), ActiveIn(s))

(* State of charge in thousandths; exact for capacities that divide 1000. *)
Soc(i, e) == (1000 * e) \div Sessions[i].capacity

BuyWeight_Equal(i) == 1
BuyWeight(i) == 1000 - Soc(i, energy[i])
SellWeight(i) == AtLeastZero(Soc(i, energy[i]) - Soc(i, Sessions[i].min))

Shares(total, weight) ==
    LET all == MapThenSumSet(LAMBDA i : weight[i], DOMAIN weight)
    IN  [i \in DOMAIN weight |->
            IF all = 0 THEN total \div Cardinality(DOMAIN weight)
            ELSE (total * weight[i]) \div all]

DistributeBought(e) ==
    LET share == Shares((e * Efficiency) \div 100, [i \in ActiveIn(slot) |-> BuyWeight(i)])
    IN  energy' = [i \in DOMAIN energy |->
                      IF i \in DOMAIN share THEN energy[i] + share[i] ELSE energy[i]]

(* Nothing is taken from the cars when none is above its minimum. *)
DistributeSold(e) ==
    LET weight == [i \in ActiveIn(slot) |-> SellWeight(i)]
        share == Shares(e, weight)
    IN  energy' = [i \in DOMAIN energy |->
                      IF i \in DOMAIN share /\ \E j \in DOMAIN weight : weight[j] > 0
                      THEN energy[i] - share[i] ELSE energy[i]]

(* _get_effective_power_kW for one slot; a preferred power replaces the    *)
(* rating of the charger, and its sign leaves only one direction.          *)
BuyLimit(s) == IF charger.preferred[s] = NoPreference THEN charger.rating
               ELSE AtLeastZero(charger.preferred[s])
SellLimit(s) == IF charger.preferred[s] = NoPreference THEN charger.rating
                ELSE AtLeastZero(-charger.preferred[s])

AvailableToBuy ==
    IF pledged_buy > 0 THEN 0 ELSE Minimum(AggregateToBuy(slot), BuyLimit(slot))
AvailableToSell ==
    IF pledged_sell > 0 THEN 0 ELSE Minimum(AggregateToSell(slot), SellLimit(slot))

(* The assertions of check_state.  What is offered is what is open: an     *)
(* order is registered when it is posted and moved when it is traded.      *)
CheckStatePasses(bid) ==
    ActiveIn(slot) # {} =>
        /\ TotalEnergy(slot) <= TotalCapacity(slot)
        /\ \A e \in {open_sell, bid, pledged_sell, pledged_buy} :
               0 <= e /\ e <= TotalCapacity(slot)
-----------------------------------------------------------------------------
Init ==
    /\ charger \in Chargers
    /\ pc = "activate" /\ slot = 0 /\ status = "IDLE" /\ profiled = {}
    /\ energy = [i \in DOMAIN Sessions |-> Sessions[i].initial]
    /\ open_buy = 0 /\ open_sell = 0 /\ pledged_buy = 0 /\ pledged_sell = 0

(* _update_session_state, the first thing every handler does. *)
UpdateSessionState ==
    status' = IF ActiveIn(slot) = {} THEN "IDLE" ELSE "ACTIVE"

(* event_activate: the first spot market exists by now. *)
Activate ==
    /\ pc = "activate"
    /\ pc' = "dispatch"
    /\ UpdateSessionState
    /\ profiled' = IF status' = "ACTIVE" THEN profiled \cup {slot} ELSE profiled
    /\ UNCHANGED <<charger, slot, energy, tradeVars>>

(* StorageState.market_cycle reads the ledger of the past slot, which has  *)
(* an entry only if the charger was active in it.                          *)
PastLedgerMissing == slot > 0 /\ slot - 1 \notin profiled

UpdateProfiles_OnActivation == IF status = "IDLE" THEN profiled \cup {slot} ELSE profiled
UpdateProfiles == profiled \cup {slot}

(* event_market_cycle: the offer of a bidirectional charger, then in a     *)
(* two-sided market its bid, which the market may refuse.                  *)
MarketCycle ==
    /\ pc = "dispatch"
    /\ UpdateSessionState
    /\ IF status' = "IDLE"
       THEN pc' = "ticks" /\ UNCHANGED <<profiled, open_buy, open_sell>>
       ELSE /\ profiled' = UpdateProfiles
            /\ IF PastLedgerMissing
               THEN pc' = "failed" /\ UNCHANGED <<open_buy, open_sell>>
               ELSE /\ pc' = "ticks"
                    /\ open_sell' = IF charger.bidirectional THEN AtLeastZero(AvailableToSell) ELSE 0
                    /\ open_buy' \in IF charger.twoSided THEN {0, AtLeastZero(AvailableToBuy)} ELSE {0}
    /\ UNCHANGED <<charger, slot, energy, pledged_buy, pledged_sell>>

(* event_tick in a two-sided market: a bid is posted when none is open.    *)
TickTwoSided ==
    /\ pc = "ticks" /\ charger.twoSided /\ ActiveIn(slot) # {}
    /\ open_buy' \in IF open_buy > 0 THEN {open_buy} ELSE {0, AtLeastZero(AvailableToBuy)}
    /\ pc' = IF CheckStatePasses(open_buy') THEN "ticks" ELSE "failed"
    /\ UNCHANGED <<charger, slot, status, profiled, energy, open_sell, pledged_buy, pledged_sell>>

(* An order is taken whole or by half. *)
Portions(e) == {e, e \div 2} \ {0}

(* event_tick in a one-sided market buys from an offer, after check_state. *)
(* The purchase is pledged before the market accepts it, and no bid trade  *)
(* follows: the energy never reaches the cars.                             *)
TickOneSided ==
    /\ pc = "ticks" /\ ~charger.twoSided /\ ActiveIn(slot) # {}
    /\ IF CheckStatePasses(open_buy)
       THEN /\ pledged_buy' \in {pledged_buy + e : e \in {0} \cup Portions(AtLeastZero(AvailableToBuy))}
            /\ pc' = pc
       ELSE pc' = "failed" /\ UNCHANGED pledged_buy
    /\ UNCHANGED <<charger, slot, status, profiled, energy, open_buy, open_sell, pledged_sell>>

(* event_bid_traded and event_offer_traded for the charger's own orders. *)
BidTraded(e) ==
    /\ pc = "ticks"
    /\ open_buy' = open_buy - e /\ pledged_buy' = pledged_buy + e
    /\ DistributeBought(e)
    /\ UNCHANGED <<charger, pc, slot, status, profiled, open_sell, pledged_sell>>

OfferTraded(e) ==
    /\ pc = "ticks"
    /\ open_sell' = open_sell - e /\ pledged_sell' = pledged_sell + e
    /\ DistributeSold(e)
    /\ UNCHANGED <<charger, pc, slot, status, profiled, open_buy, pledged_buy>>

(* The next slot starts: the old spot market goes with its open orders,    *)
(* and the ledgers of the new slot start at zero.                          *)
NextSlot ==
    /\ pc = "ticks"
    /\ IF slot = LastSlot THEN pc' = "done" /\ slot' = slot
       ELSE pc' = "dispatch" /\ slot' = slot + 1
    /\ open_buy' = 0 /\ open_sell' = 0 /\ pledged_buy' = 0 /\ pledged_sell' = 0
    /\ UNCHANGED <<charger, status, profiled, energy>>

Next ==
    \/ Activate \/ MarketCycle \/ TickTwoSided \/ TickOneSided \/ NextSlot
    \/ \E e \in Portions(open_buy) : BidTraded(e)
    \/ \E e \in Portions(open_sell) : OfferTraded(e)

Spec == Init /\ [][Next]_vars
-----------------------------------------------------------------------------
(* When the connected cars have batteries of one size, the shares of a     *)
(* trade never charge a car beyond its capacity nor discharge it below the *)
(* minimum it was, or came, with.  With different sizes the code's shares, *)
(* which weigh percentages, do both, and only the sum is asserted.         *)
CarsStayWithinLimits ==
    (\A i, j \in DOMAIN Sessions : Sessions[i].capacity = Sessions[j].capacity) =>
        \A i \in DOMAIN Sessions :
            /\ energy[i] <= Sessions[i].capacity + Tolerance
            /\ energy[i] >= Minimum(Sessions[i].initial, Sessions[i].min) - Tolerance

(* However often the charger renews its bid within a slot, and whatever    *)
(* part of it is traded each time, it never buys or sells more in the slot *)
(* than its power allows.                                                  *)
ChargesAtRating == pledged_buy <= BuyLimit(slot) /\ pledged_sell <= SellLimit(slot)

(* The handlers fail in two situations only: a session starts in a slot    *)
(* other than the first and no session was active in the slot before it,   *)
(* or cars of different size overlap and one that was charged beyond its   *)
(* capacity stays when the others leave.                                   *)
FailsOnlyWhenKnown ==
    pc = "failed" =>
        \/ slot > 0 /\ ActiveIn(slot) # {} /\ ActiveIn(slot - 1) = {}
        \/ /\ \E i \in ActiveIn(slot) : energy[i] > Sessions[i].capacity
           /\ \E i, j \in DOMAIN Sessions : Sessions[i].capacity # Sessions[j].capacity

(* check_state asserts that the active cars together hold no more than     *)
(* their capacity.                                                         *)
TotalWithinCapacity == pc = "ticks" => TotalEnergy(slot) <= TotalCapacity(slot)
=============================================================================
