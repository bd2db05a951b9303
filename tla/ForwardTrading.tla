--------------------------- MODULE ForwardTrading ---------------------------
(***************************************************************************)
(* One load or PV that trades automatically on the forward markets of its  *)
(* area: the area opens and removes delivery slots, the strategy posts an  *)
(* order for every new slot and posts it again, at a rate that moves from  *)
(* the initial to the final one, at every update time; the matcher trades  *)
(* orders at the times the market is cleared.                              *)
(***************************************************************************)
EXTENDS ForwardEnergy

CONSTANTS Scenarios,     \* [types, start, last]: the market types the asset trades on,
                         \* the time a run starts and the time it is followed to
          Interval,      \* update interval of a market type
          Capacity,      \* energy an order may have at most, per market type
          InitialRate, FinalRate,
          MaxTrades

TradingAssumption ==
  /\ \A s \in Scenarios :
       s.types \subseteq Range(MarketTypes) /\ s.start \in Nat /\ s.start % Quarter = 0 /\ s.last \in Nat
  /\ \A type \in Range(MarketTypes) : Interval[type] \in Nat \ {0} /\ Capacity[type] \in 0..Peak
  /\ MaxTrades \in Nat

VARIABLES asset,     \* "load" or "pv"
          scenario,
          now,
          phase,     \* what the tick does next: "cycle", "tick" or "advance"
          opened,    \* opening time of the open slots of a market
          updaters,  \* slots of a market that have an order updater
          orders,    \* the open order of a slot, of which there is at most one
          left,      \* energy requirement of a load, available energy of a PV
          posted,    \* _posted_energy_kWh
          traded,    \* history: energy traded for a quarter
          trades,    \* number of trades so far
          failed     \* the exception that ended the run, or "no"

vars == <<asset, scenario, now, phase, opened, updaters, orders, left, posted, traded, trades, failed>>

NoSlots == [slot \in {} |-> 0]

types == scenario.types
TypesInOrder == SelectSeq(MarketTypes, LAMBDA type : type \in types)

(***************************************************************************)
(* The order updater.                                                      *)
(***************************************************************************)
LastUpdate(type, slot) == ClosingTime(type, slot) - Interval[type]

UpdateTimes(type, slot, opening) ==
  {t \in opening..LastUpdate(type, slot) - 1 : (t - opening) % Interval[type] = 0}
    \cup {LastUpdate(type, slot)}

NoRate(type, slot, opening) == LastUpdate(type, slot) = opening

RateAt(type, slot, opening, t) ==
  LET moved == ((t - opening) * (IF FinalRate[type] > InitialRate[type]
                                   THEN FinalRate[type] - InitialRate[type]
                                   ELSE InitialRate[type] - FinalRate[type]))
                 \div (LastUpdate(type, slot) - opening)
  IN  IF InitialRate[type] < FinalRate[type] THEN InitialRate[type] + moved ELSE InitialRate[type] - moved

(***************************************************************************)
(* Posting.  A book is [orders, posted, failed]: the orders of the asset,  *)
(* what it has recorded as posted, and whether posting raised.             *)
(***************************************************************************)
OrderEnergy(type, slot, book) ==
  Min({Available(asset, type, slot, left) - Posted(type, slot, book.posted), Capacity[type]})

Place(type, slot, opening, energy, book) ==
  CASE NoRate(type, slot, opening) -> [book EXCEPT !.failed = "zero_division"]
    [] ~NoRate(type, slot, opening) /\ energy <= 0 -> book
    [] OTHER ->
         [book EXCEPT !.orders[type] =
                        (slot :> [energy |-> energy, rate |-> RateAt(type, slot, opening, now)]) @@ @,
                      !.posted = AddPosted(type, slot, energy, @)]

\* post_order: a book that failed stays as it is.
PostOrder(type, slot, opening, book) ==
  IF book.failed # "no" THEN book ELSE Place(type, slot, opening, OrderEnergy(type, slot, book), book)

\* remove_open_orders leaves what was recorded as posted.
RemoveOpenOrders(type, slot, book) ==
  IF book.failed # "no" THEN book ELSE [book EXCEPT !.orders[type] = Restrict(@, DOMAIN @ \ {slot})]

PostTo(type, slots, openings, book) ==
  FoldLeft(LAMBDA b, slot : PostOrder(type, slot, openings[type][slot], b), book, InOrder(slots))

\* The updaters whose time has come, in the order they were created.
UpdateOpenOrders(book) ==
  FoldLeft(
    LAMBDA b, type :
      FoldLeft(LAMBDA c, slot : PostOrder(type, slot, opened[type][slot], RemoveOpenOrders(type, slot, c)),
               b, InOrder({slot \in updaters[type] : now \in UpdateTimes(type, slot, opened[type][slot])})),
    book, TypesInOrder)

Book(someOrders) == [orders |-> someOrders, posted |-> posted, failed |-> "no"]

(***************************************************************************)
(* A market cycle: the area removes closed slots with their orders, then   *)
(* opens new ones; then the strategy drops the updaters of closed slots    *)
(* and posts to the slots that have none.                                  *)
(***************************************************************************)
Rotated == [type \in types |-> Restrict(opened[type], SlotsKept(type, now, DOMAIN opened[type]))]

Opened(kept) ==
  [type \in types |-> kept[type] @@ [slot \in NewSlots(type, now, DOMAIN kept[type]) |-> now]]

OrdersKept(kept) == [type \in types |-> Restrict(orders[type], DOMAIN orders[type] \cap DOMAIN kept[type])]

UpdatersKept(after) ==
  [type \in types |-> {slot \in updaters[type] : slot \in DOMAIN after[type] /\ ClosingTime(type, slot) > now}]

Tradable(after, kept) ==
  [type \in types |->
     {slot \in DOMAIN after[type] \ kept[type] :
        /\ ClosingTime(type, slot) > after[type][slot]
        /\ ClosingTime(type, slot) > now}]

PostOrdersToNewMarkets(fresh, after, book) ==
  FoldLeft(LAMBDA b, type : PostTo(type, fresh[type], after, b), book, TypesInOrder)

Init ==
  /\ asset \in {"load", "pv"}
  /\ scenario \in Scenarios
  /\ now = scenario.start
  /\ phase = "cycle"
  /\ opened = [type \in types |-> NoSlots]
  /\ updaters = [type \in types |-> {}]
  /\ orders = [type \in types |-> NoSlots]
  /\ left = Desired
  /\ posted = [q \in Quarters |-> 0]
  /\ traded = [q \in Quarters |-> 0]
  /\ trades = 0
  /\ failed = "no"

MarketCycle ==
  /\ failed = "no" /\ phase = "cycle"
  /\ \E after \in {Opened(Rotated)} : \E kept \in {UpdatersKept(after)} :
     \E fresh \in {Tradable(after, kept)} :
     \E book \in {PostOrdersToNewMarkets(fresh, after, Book(OrdersKept(Rotated)))} :
       /\ opened' = after
       /\ updaters' = [type \in types |-> kept[type] \cup fresh[type]]
       /\ orders' = book.orders
       /\ posted' = book.posted
       /\ failed' = book.failed
  /\ phase' = "tick"
  /\ UNCHANGED <<asset, scenario, now, left, traded, trades>>

StrategyTick ==
  /\ failed = "no" /\ phase = "tick"
  /\ \E book \in {UpdateOpenOrders(Book(orders))} :
       /\ orders' = book.orders
       /\ posted' = book.posted
       /\ failed' = book.failed
  /\ phase' = "advance"
  /\ UNCHANGED <<asset, scenario, now, opened, updaters, left, traded, trades>>

Advance ==
  /\ failed = "no" /\ phase = "advance"
  /\ now < scenario.last
  /\ now' = now + 1
  /\ phase' = IF (now + 1) % Quarter = 0 THEN "cycle" ELSE "tick"
  /\ UNCHANGED <<asset, scenario, opened, updaters, orders, left, posted, traded, trades, failed>>

(***************************************************************************)
(* The matcher trades a part of an order, before or after the tick of the  *)
(* asset.  The load books its trade; the PV has no handler for the event   *)
(* of a traded offer, so that nothing of its trade is booked.              *)
(***************************************************************************)
Trade(type, slot, energy) ==
  /\ failed = "no" /\ phase \in {"tick", "advance"}
  /\ trades < MaxTrades
  /\ TimeToClear(type, now)
  /\ energy <= orders[type][slot].energy
  /\ orders' = [orders EXCEPT ![type] =
                  IF energy = @[slot].energy THEN Restrict(@, DOMAIN @ \ {slot})
                  ELSE [@ EXCEPT ![slot].energy = @ - energy]]
  /\ \E after \in {IF asset = "load" THEN AfterTrade(type, slot, energy, left) ELSE left} :
       /\ left' = after
       /\ failed' = IF \E q \in Delivery(type, slot) : after[q] < 0 THEN "below_zero" ELSE "no"
  /\ posted' = IF asset = "load" THEN AddPosted(type, slot, 0 - energy, posted) ELSE posted
  /\ traded' = [q \in Quarters |->
                  IF q \in Delivery(type, slot) THEN traded[q] + Delivered(type, energy, q) ELSE traded[q]]
  /\ trades' = trades + 1
  /\ UNCHANGED <<asset, scenario, now, phase, opened, updaters>>

\* The energy of a trade has a whole share in every quarter.
TradedEnergies == {energy \in 1..Peak : energy % ProfileUnit = 0}

MatchRecommendations ==
  \E type \in types : \E slot \in DOMAIN orders[type], energy \in TradedEnergies : Trade(type, slot, energy)

Next == MarketCycle \/ StrategyTick \/ Advance \/ MatchRecommendations

Spec == Init /\ [][Next]_vars

(***************************************************************************)
(* Properties.                                                             *)
(***************************************************************************)
Short == {"intraday", "day"}
Placed == {placed \in types \X Quarters : placed[2] \in DOMAIN orders[placed[1]]}
OpenFor(q) ==
  MapThenSumSet(LAMBDA placed : orders[placed[1]][placed[2]].energy,
                {placed \in Placed : q \in Delivery(placed[1], placed[2])})

\* Where only intraday and day products are traded, what is open and what was
\* traded for a quarter, over both markets, never exceed what the asset wants
\* or can produce in it: both markets keep one record of the posted energy.
OrdersCovered ==
  types \subseteq Short =>
    \A placed \in Placed : \A q \in Delivery(placed[1], placed[2]) : OpenFor(q) + traded[q] <= Desired[q]

\* No order and no updater outlives the slot of its market, and no slot stays
\* open after it has closed: rotation, which each market does at times of its
\* own, keeps up with the closing times.
NothingOutlivesItsSlot ==
  phase # "cycle" =>
    \A type \in types :
      /\ DOMAIN orders[type] \subseteq updaters[type]
      /\ updaters[type] \subseteq DOMAIN opened[type]
      /\ \A slot \in DOMAIN opened[type] : now < ClosingTime(type, slot)

\* After the tick of the asset the rate of an open order is the scheduled one
\* of a time less than an update interval ago, or of the last update.
RatesFollowSchedule ==
  phase = "advance" =>
    \A placed \in Placed :
      \E type \in {placed[1]}, slot \in {placed[2]} : \E opening \in {opened[type][slot]} :
        opening < LastUpdate(type, slot) =>
          \E t \in opening..LastUpdate(type, slot) :
            /\ t <= now /\ (t > now - Interval[type] \/ t = LastUpdate(type, slot))
            /\ orders[type][slot].rate = RateAt(type, slot, opening, t)

\* A load buys more than it needs only on two markets of long products, whose
\* slots overlap, and a rate that cannot be computed is met only in the first
\* market cycle, when a slot may open a single update interval before it closes.
FailsOnlyWhenKnown ==
  /\ failed = "below_zero" => asset = "load" /\ Cardinality(types \ Short) > 1
  /\ failed = "zero_division" => now = scenario.start

\* The comment in OrderUpdater: "in order to make sure that the final rate is
\* indeed reached".  After the last update of a slot for which the asset still
\* has energy that is neither traded nor on offer, its order asks for the final
\* rate.  It does not hold: what is removed stays recorded as posted.
FinalRateReached ==
  phase = "advance" =>
    \A type \in types : \A slot \in updaters[type] :
      /\ opened[type][slot] < now /\ now = LastUpdate(type, slot)
      /\ \A q \in Delivery(type, slot) : traded[q] + OpenFor(q) < Desired[q]
      => slot \in DOMAIN orders[type] /\ orders[type][slot].rate = FinalRate[type]
=============================================================================
