------------------------------ MODULE GridFees ------------------------------
(***************************************************************************)
(* The prices of one offer and one bid on the path of markets between a    *)
(* seller and a buyer: market agents copy the offer forward, starting in   *)
(* market 1, and the bid backward, starting in the last market, each copy  *)
(* with the grid fee of a market in it; the two are matched in some market *)
(* of the path, and the trade is repeated in every market on both sides,   *)
(* back to the seller and to the buyer.  In a one-sided simulation the     *)
(* buyer takes the offer's copy in its own market.                         *)
(*                                                                         *)
(* Prices are rates, for one unit of energy: a part of an order has its    *)
(* part of the prices.  Rates are whole numbers.  A percentage is taken of *)
(* an original rate, which the instances choose as a multiple of 100; only *)
(* the division by 1 + fees is rounded (Tolerance).                        *)
(***************************************************************************)
EXTENDS Integers, Sequences, SequencesExt

CONSTANTS
    Paths,        \* settings to start from: [fees, kind, twoSided, payAsBid]
    OfferRates, BidRates,   \* rates the seller and the buyer may ask
    Tolerance     \* rounding of a trade's price

FeesAssumption == OfferRates \subseteq Nat /\ BidRates \subseteq Nat /\ Tolerance \in Nat

NoRate == -1

VARIABLES
    path,            \* the markets' grid fees and the settings
    offer_rate, bid_rate,   \* original rates of the two devices
    offers,          \* rates of the offer's copies in markets 1, 2, ...
    bids,            \* rates of the bid's copies in the last market, the one before, ...
    matched,         \* market of the match, 0: not yet
    offer_trades, bid_trades,  \* trades towards the seller and the buyer
    trade_rate,      \* rate the matched trade is made for
    failed           \* a division by zero escaped the matching

orderVars == <<path, offer_rate, bid_rate, offers, bids>>
vars == <<orderVars, matched, offer_trades, bid_trades, trade_rate, failed>>

FeesOfMarkets == path.fees
Constant == path.kind = "constant"
MarketCount == Len(FeesOfMarkets)
-----------------------------------------------------------------------------
(* The fee classes ConstantGridFees and GridFees (percentage). *)

FeeOn(i, original) == IF Constant THEN FeesOfMarkets[i] ELSE (original * FeesOfMarkets[i]) \div 100

IncomingOffer(i, rate, original) == rate + FeeOn(i, original)
ForwardedBid(i, rate, original) == rate - FeeOn(i, original)

(* The percentage class writes source_rate or original_rate, so that a bid *)
(* copied for nothing gets its original rate back.                         *)
IncomingBid(rate, original) == IF ~Constant /\ rate = 0 THEN original ELSE rate

(* What the buyer pays in its own market for a clearing rate elsewhere.    *)
OriginalTradeRate(clearing, original, propagated) ==
    IF Constant THEN clearing + original - propagated
    ELSE (clearing * original) \div propagated

DemandTax(info) ==
    IF info.originalBid = 0 THEN 0
    ELSE 100 - (100 * info.bid) \div info.originalBid
SupplyTax(info) ==
    IF info.originalOffer = 0 THEN 0
    ELSE (100 * info.offer) \div info.originalOffer - 100

(* calculate_trade_price_and_fees: the price of a trade in market i and    *)
(* the market's part of it.  Constant fees ignore the trade rate.          *)
ConstantPrice(i, info) == [price |-> info.bid, fee |-> FeesOfMarkets[i]]
PercentagePrice(i, info) ==
    LET revenue == (100 * info.rate) \div (100 + DemandTax(info) + SupplyTax(info))
    IN  [price |-> revenue + (revenue * SupplyTax(info)) \div 100,
         fee |-> (revenue * FeesOfMarkets[i]) \div 100]
PriceAndFee(i, info) == IF Constant THEN ConstantPrice(i, info) ELSE PercentagePrice(i, info)

(* propagate_original_bid_info_on_offer_trade, on the way to the seller.   *)
PropagateBidInfo(i, info) ==
    IF info.bid = NoRate THEN info
    ELSE [info EXCEPT !.bid = @ - FeeOn(i, info.originalBid),
                      !.offer = NoRate, !.originalOffer = NoRate]

PropagateOfferInfo_IgnoresFees(i, info) == [info EXCEPT !.bid = NoRate, !.originalBid = NoRate]

(* propagate_original_offer_info_on_bid_trade, on the way to the buyer:    *)
(* the market the trade comes from ignores its fee, the next adds its own. *)
PropagateOfferInfo(i, info) ==
    [info EXCEPT !.offer = @ + FeeOn(i, info.originalOffer),
                 !.bid = NoRate, !.originalBid = NoRate]
-----------------------------------------------------------------------------
Init ==
    /\ path \in Paths
    /\ offer_rate \in OfferRates /\ bid_rate \in BidRates
    /\ offers = <<IncomingOffer(1, offer_rate, offer_rate)>>
    /\ bids = IF path.twoSided THEN <<IncomingBid(bid_rate, bid_rate)>> ELSE <<>>
    /\ matched = 0 /\ offer_trades = <<>> /\ bid_trades = <<>>
    /\ trade_rate = NoRate /\ failed = FALSE

OfferIn(i) == i <= Len(offers)
OfferOf(i) == offers[i]
BidIn(i) == i > MarketCount - Len(bids)
BidOf(i) == bids[MarketCount + 1 - i]

(* _forward_offer: the target market adds its fee. *)
ForwardOffer ==
    /\ matched = 0 /\ Len(offers) < MarketCount
    /\ offers' = Append(offers, IncomingOffer(Len(offers) + 1, offers[Len(offers)], offer_rate))
    /\ UNCHANGED <<path, offer_rate, bid_rate, bids, matched, offer_trades, bid_trades,
                   trade_rate, failed>>

(* The market the bid is copied from, and the copy's rate. *)
BidSource == MarketCount + 1 - Len(bids)
CopiedBid == ForwardedBid(BidSource, bids[Len(bids)], bid_rate)

(* _forward_bid: the fee of the source market is taken off, and the target *)
(* market refuses a negative price.                                        *)
ForwardBid ==
    /\ matched = 0 /\ path.twoSided /\ Len(bids) < MarketCount
    /\ CopiedBid >= 0
    /\ bids' = Append(bids, IncomingBid(CopiedBid, bid_rate))
    /\ UNCHANGED <<path, offer_rate, bid_rate, offers, matched, offer_trades, bid_trades,
                   trade_rate, failed>>

(* match_recommendations for the pair, in a market that has both.  Paying  *)
(* as cleared, the matcher chose a rate between the two orders.            *)
Clearings(i) == IF path.payAsBid THEN {BidOf(i)} ELSE {OfferOf(i), BidOf(i)}

Match(i, clearing) ==
    /\ matched = 0 /\ path.twoSided
    /\ OfferIn(i) /\ BidIn(i) /\ OfferOf(i) <= BidOf(i) /\ clearing \in Clearings(i)
    /\ UNCHANGED orderVars
    /\ IF ~path.payAsBid /\ ~Constant /\ BidOf(i) = 0
       THEN failed' = TRUE /\ UNCHANGED <<matched, offer_trades, bid_trades, trade_rate>>
       ELSE /\ matched' = i
            /\ trade_rate' = IF path.payAsBid THEN bid_rate
                             ELSE OriginalTradeRate(clearing, bid_rate, BidOf(i))
            /\ LET info == [originalBid |-> bid_rate, bid |-> BidOf(i),
                            originalOffer |-> offer_rate, offer |-> OfferOf(i),
                            rate |-> trade_rate']
                   trade == PriceAndFee(i, info)
               IN  /\ offer_trades' = <<[paid |-> trade, info |-> PropagateBidInfo(i, info)]>>
                   /\ bid_trades' = <<[paid |-> trade,
                                       info |-> [info EXCEPT !.bid = NoRate, !.originalBid = NoRate]]>>
            /\ UNCHANGED failed

(* accept_offer by a buyer of the last market, one-sided: the offer's rate *)
(* is the price, the fee is the market's own.                              *)
Buy ==
    /\ matched = 0 /\ ~path.twoSided /\ OfferIn(MarketCount) /\ OfferOf(MarketCount) <= bid_rate
    /\ matched' = MarketCount
    /\ trade_rate' = OfferOf(MarketCount)
    /\ offer_trades' = <<[paid |-> [price |-> trade_rate', fee |-> FeeOn(MarketCount, offer_rate)],
                          info |-> [originalBid |-> NoRate, bid |-> NoRate,
                                    originalOffer |-> NoRate, offer |-> NoRate,
                                    rate |-> trade_rate']]>>
    /\ UNCHANGED <<orderVars, bid_trades, failed>>

(* update_forwarded_offer_trade_original_info and its twin: the rates of   *)
(* the order in the market where the trade is repeated.                    *)
ForwardedOfferInfo(info, i) == [info EXCEPT !.originalOffer = offer_rate, !.offer = OfferOf(i)]
ForwardedBidInfo(info, i) == [info EXCEPT !.originalBid = bid_rate, !.bid = BidOf(i)]

SettledOffer == matched + 1 - Len(offer_trades)   \* last market on the seller's side
SettledBid == matched + Len(bid_trades) - 1       \* last market on the buyer's side
LastOfferTrade == offer_trades[Len(offer_trades)]
LastBidTrade == bid_trades[Len(bid_trades)]

(* One-sided, the agent pays in the source what is left without the fee.   *)
OneSidedRate(trade) == trade.paid.price - trade.paid.fee

(* MAEngine.event_offer_traded: the agent buys the original of the copy.   *)
SettleOffer ==
    LET i == SettledOffer - 1
        info == [ForwardedOfferInfo(LastOfferTrade.info, i)
                    EXCEPT !.rate = IF path.twoSided THEN @ ELSE OneSidedRate(LastOfferTrade)]
        trade == IF path.twoSided THEN PriceAndFee(i, info)
                 ELSE [price |-> info.rate, fee |-> FeeOn(i, offer_rate)]
    IN  /\ matched > 0 /\ SettledOffer > 1
        /\ offer_trades' = Append(offer_trades, [paid |-> trade, info |-> PropagateBidInfo(i, info)])
        /\ UNCHANGED <<orderVars, matched, bid_trades, trade_rate, failed>>

(* TwoSidedEngine.event_bid_traded: the agent sells to the original bid.   *)
SettleBid ==
    LET i == SettledBid + 1
        info == ForwardedBidInfo(PropagateOfferInfo(i, LastBidTrade.info), i)
    IN  /\ matched > 0 /\ bid_trades # <<>> /\ SettledBid < MarketCount
        /\ bid_trades' = Append(bid_trades,
               [paid |-> PriceAndFee(i, info),
                info |-> [info EXCEPT !.bid = NoRate, !.originalBid = NoRate]])
        /\ UNCHANGED <<orderVars, matched, offer_trades, trade_rate, failed>>

Next ==
    \/ ForwardOffer \/ ForwardBid \/ Buy \/ SettleOffer \/ SettleBid
    \/ \E i \in 1..MarketCount : \E c \in (IF OfferIn(i) /\ BidIn(i) THEN Clearings(i) ELSE {}) :
           Match(i, c)

Spec == Init /\ [][Next]_vars
-----------------------------------------------------------------------------
Near(a, b) == a - b \in -Tolerance..Tolerance
Settled == matched > 0 /\ SettledOffer = 1 /\ (path.twoSided => SettledBid = MarketCount)
Price(i) == IF i <= matched THEN offer_trades[matched + 1 - i].paid.price
            ELSE bid_trades[i + 1 - matched].paid.price
Fee(i) == IF i <= matched THEN offer_trades[matched + 1 - i].paid.fee
          ELSE bid_trades[i + 1 - matched].paid.fee

(* The agent between two markets pays in the one what it gets in the other *)
(* less the fee: after the whole chain the buyer has paid the seller and   *)
(* the fee of every market, and no agent has won or lost.  Not so for an   *)
(* offer for nothing under percentage fees, whose tax the code cannot tell *)
(* from its rates.                                                         *)
AgentsBreakEven ==
    Settled /\ (Constant \/ offer_rate > 0) =>
        \A i \in 1..MarketCount - 1 : Near(Price(i + 1) - Fee(i + 1), Price(i))

(* Wherever the orders meet and whatever the clearing rate is, the seller  *)
(* gets at least the rate it asked and the buyer pays at most its bid.     *)
OrdersRespected ==
    Settled /\ (Constant \/ offer_rate > 0) =>
        /\ Price(1) - Fee(1) >= offer_rate - Tolerance
        /\ Price(MarketCount) <= bid_rate + Tolerance

(* The buyer pays the rate calculate_original_trade_rate_from_clearing_rate *)
(* found for it, once the trade chain settles.                             *)
BuyerPaysTradeRate == Settled /\ path.twoSided => Near(Price(MarketCount), trade_rate)
=============================================================================
