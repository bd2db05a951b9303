------------------------------ MODULE MCRates -------------------------------
(* Instances for TLC of what trades cost and what they entail: the price   *)
(* updaters of an asset (PriceSettings), the fees on a path through the    *)
(* grid (GridFees), and the balancing markets of a chain of three areas    *)
(* (Balancing).                                                            *)
EXTENDS Balancing, TLC

VARIABLES
    part,   \* which of the three a behaviour is about; the others are idle
    kind, settings, useMM, fees, table, tick, pc, slot, spot, future, settlement, requests,
    changes, request, failed,
    path, offer_rate, bid_rate, offers, bids, matched, offer_trades, bid_trades, trade_rate

priceVars == <<kind, settings, useMM, fees, table, tick, pc, slot, spot, future, settlement,
               requests, changes, request>>
feeVars == <<path, offer_rate, bid_rate, offers, bids, matched, offer_trades, bid_trades,
             trade_rate>>

(* Every kind of asset through three slots of six ticks, a future window of*)
(* two slots, reconfigurations with good and bad rates, steps and intervals*)
(* and changing grid fees.                                                 *)
RateSlots == 0 .. 2
Steady(rate) == [t \in RateSlots |-> rate]
Limits(initial, final, interval) ==
    [initial |-> Steady(initial), final |-> Steady(final), step |-> 0, fit |-> TRUE, interval |-> interval]
Stepped(s, step) == [s EXCEPT !.fit = FALSE, !.step = step]
Buying == Limits(0, 30, 2)
Selling == Limits(60, 30, 2)

MCAhead == <<60, 0>>

MCStarts ==
    {[kind |-> k, useMM |-> mm, settings |-> ("buy" :> Buying @@ "sell" :> Selling)] :
        k \in {"storage", "meter"}, mm \in BOOLEAN}
    \cup {[kind |-> "load", useMM |-> mm, settings |-> ("buy" :> s)] : mm \in BOOLEAN, s \in {Buying, Stepped(Buying, 20)}}
    \cup {[kind |-> "pv", useMM |-> mm, settings |-> ("sell" :> s)] :
            mm \in BOOLEAN, s \in {Selling, [Selling EXCEPT !.interval = 1]}}

Later(first, later) == [t \in RateSlots |-> IF t = 0 THEN first ELSE later]

MCRequests ==
    { "final_selling_rate" :> Steady(0),
      "final_selling_rate" :> Later(90, 0),
      "initial_selling_rate" :> Later(60, 0),
      "final_buying_rate" :> Steady(60) @@ "interval" :> 3,
      "initial_buying_rate" :> Steady(90) @@ "useMM" :> TRUE,
      "fit" :> FALSE @@ "decrease" :> 10,
      "fit" :> FALSE @@ "increase" :> 7 @@ "decrease" :> 20,
      "fit" :> TRUE @@ "interval" :> 1,
      "interval" :> 6, "interval" :> 4 }

(* Paths of up to four markets with unequal fees, free markets among them, *)
(* of every kind of fee and of pricing.                                    *)
MCFees == {<<5>>, <<10, 20>>, <<0, 10, 5>>, <<20, 0, 10, 5>>, <<50, 50>>}
MCPaths == [fees : MCFees, kind : {"constant", "percentage"},
            twoSided : BOOLEAN, payAsBid : BOOLEAN]

Price == INSTANCE PriceSettings WITH
    SlotTicks <- 6, LastSlot <- 2, Window <- 2, Interval <- 2, Ahead <- MCAhead,
    Starts <- MCStarts, Requests <- MCRequests, MarketMaker <- 50, Fees <- {0, 30},
    MaxRequests <- 1, MaxFeeChanges <- 1

Fee == INSTANCE GridFees WITH
    Paths <- MCPaths, OfferRates <- {0, 1000, 7000}, BidRates <- {0, 1000, 3000, 9000, 20000},
    Tolerance <- 2

(* A grid with a plant, an area with a storage and, below it, a house with *)
(* a load; the balancing ratios are one half.                              *)
MCLower == [Street |-> "street", House |-> "house"]
MCHigher == [Street |-> "grid", House |-> "street"]
MCHome == [load |-> "house", storage |-> "street", plant |-> "grid"]
MCRatio == [demand |-> 2, supply |-> 2, spot |-> 2]
MCRegistries == {{"load", "storage", "plant"}, {"load", "storage"}, {"storage", "plant"}}
MCRank == [p \in {"load", "storage", "plant"} \X {"upward", "downward"} |->
             CASE p = <<"load", "upward">> -> 5  [] p = <<"load", "downward">> -> 0
               [] p = <<"storage", "upward">> -> 3 [] p = <<"storage", "downward">> -> 1
               [] p = <<"plant", "upward">> -> 4 [] OTHER -> 2]

ASSUME Price!PriceAssumption /\ Fee!FeesAssumption

None == "none"
IdlePrices ==
    /\ kind = None /\ settings = None /\ useMM = None /\ fees = None /\ table = None
    /\ tick = None /\ pc = None /\ slot = None /\ spot = None /\ future = None
    /\ settlement = None /\ requests = None /\ changes = None /\ request = None
IdleFees ==
    /\ path = None /\ offer_rate = None /\ bid_rate = None /\ offers = None /\ bids = None
    /\ matched = None /\ offer_trades = None /\ bid_trades = None /\ trade_rate = None
(* The balancing markets that are idle stay as they begin.                 *)
IdleBalancing == Init /\ registry = Devices /\ ~flexible /\ ~twoSided /\ used["storage"] = Capacity

PricesInit == part = "prices" /\ Price!Init /\ IdleFees /\ IdleBalancing
RatesInit ==
    \/ PricesInit
    \/ part = "fees" /\ Fee!Init /\ IdlePrices /\ IdleBalancing
    \/ part = "balancing" /\ Init /\ IdlePrices /\ IdleFees /\ failed = None
RatesNext ==
    \/ part = "prices" /\ Price!Next /\ UNCHANGED <<part, feeVars, vars>>
    \/ part = "fees" /\ Fee!Next /\ UNCHANGED <<part, priceVars, vars>>
    \/ part = "balancing" /\ Next /\ UNCHANGED <<part, priceVars, feeVars, failed>>
RatesSpec == RatesInit /\ [][RatesNext]_<<vars, part, priceVars, feeVars, failed>>

(* The behaviours about prices alone. *)
PricesSpec == PricesInit /\ [][RatesNext]_<<vars, part, priceVars, feeVars, failed>>
-----------------------------------------------------------------------------

(* Fees neither make an agent win or lose nor break the limits of the two  *)
(* orders (AgentsBreakEven, OrdersRespected of GridFees).                  *)
FeesAreNeutral == part = "fees" => Fee!AgentsBreakEven /\ Fee!OrdersRespected

(* What a reconfiguration asks of the step is what the updaters use, see   *)
(* PriceSettings.                                                          *)
ReconfigurationTakesEffect == part = "prices" => Price!ReconfigurationTakesEffect
=============================================================================
