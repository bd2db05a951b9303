--------------------------- MODULE StrategyOrders ---------------------------
(***************************************************************************)
(* What a strategy remembers of its own orders in one market, next to what *)
(* the market lists: the class Offers with its dictionaries posted, sold   *)
(* and split, and the bids of BidEnabledStrategy.  An account is a record  *)
(*                                                                         *)
(*   listed, listedBids   the orders the market lists for this strategy    *)
(*   posted, sold, split  the offers the strategy remembers                *)
(*   bids, bought         its posted and its traded bids                   *)
(*   next                 the id of the next order                         *)
(*   error                the last operation has raised                    *)
(*                                                                         *)
(* and every operator maps an account to the account after the operation,  *)
(* with the events the market sends back in between.                       *)
(***************************************************************************)
EXTENDS Integers, Sequences, SequencesExt, FiniteSetsExt

NewAccount ==
    [listed |-> {}, posted |-> <<>>, sold |-> {}, split |-> {},
     listedBids |-> {}, bids |-> <<>>, bought |-> {}, next |-> 1, error |-> FALSE]

Order(id, energy) == [id |-> id, energy |-> energy]
Energy(orders) == MapThenSumSet(LAMBDA o : o.energy, orders)
Ids(orders) == {o.id : o \in orders}
Without(seq, Drop(_)) == SelectSeq(seq, LAMBDA o : ~ Drop(o))

(* open_in_market and the sums over it; the sum of posted includes what is *)
(* sold already.                                                           *)
OpenInMarket(b) == {o \in ToSet(b.posted) : o.id \notin Ids(b.sold)}
OpenOfferEnergy(b) == Energy(OpenInMarket(b))
PostedOfferEnergy(b) == FoldLeft(LAMBDA sum, o : sum + o.energy, 0, b.posted)
PostedBidEnergy(b) == FoldLeft(LAMBDA sum, o : sum + o.energy, 0, b.bids)

CanOfferBePosted(b, energy, available, replace) ==
    energy + (IF replace THEN 0 ELSE PostedOfferEnergy(b)) <= available
CanBidBePosted(b, energy, required, replace) ==
    energy + (IF replace THEN 0 ELSE PostedBidEnergy(b)) <= required
-----------------------------------------------------------------------------
(* The class Offers. *)

Post(b, o) == IF o.id \in b.split THEN b ELSE [b EXCEPT !.posted = Append(@, o)]

(* _remove leaves an offer that is sold where it is. *)
RemovePosted(b, o) ==
    IF o \in b.sold THEN b ELSE [b EXCEPT !.posted = Without(@, LAMBDA x : x = o)]

ReplacePosted(b, old, new) == IF old \in b.sold THEN b ELSE Post(RemovePosted(b, old), new)

OnOfferSplit(b, original, accepted, residual) ==
    LET c == Post([b EXCEPT !.split = @ \cup {original.id}], residual)
    IN  IF original \in ToSet(c.posted) THEN ReplacePosted(c, original, accepted) ELSE c

OnTrade(b, o) ==
    LET c == IF o.id \in b.split /\ o \in ToSet(b.posted) THEN RemovePosted(b, o) ELSE b
    IN  [c EXCEPT !.sold = @ \cup {o}]

(* A buyer accepts energy of an offer the market lists: the market splits  *)
(* the offer if it is larger, the accepted part keeping the id, and then   *)
(* sells it; the strategy hears of both.                                   *)
AcceptOffer(b, o, energy) ==
    IF energy < o.energy
    THEN LET accepted == Order(o.id, energy)
             residual == Order(b.next, o.energy - energy)
             c == OnOfferSplit(b, o, accepted, residual)
         IN  OnTrade([c EXCEPT !.listed = (@ \ {o}) \cup {residual}, !.next = @ + 1], accepted)
    ELSE OnTrade([b EXCEPT !.listed = @ \ {o}], o)

(* remove_offer_from_cache_and_market: the market refuses to delete an     *)
(* offer it does not list any more.                                        *)
RemoveOffer(b, o) ==
    IF b.error THEN b
    ELSE IF o.id \in Ids(b.listed)
         THEN RemovePosted([b EXCEPT !.listed = {x \in @ : x.id # o.id}], o)
         ELSE [b EXCEPT !.error = TRUE]

RemoveOpenOffers(b) == FoldLeft(RemoveOffer, b, SelectSeq(b.posted, LAMBDA o : o.id \notin Ids(b.sold)))

(* _remove_existing_offers goes through everything posted, sold or not. *)
RemoveExistingOffers(b) == FoldLeft(RemoveOffer, b, b.posted)

(* market.offer lists the offer and tells everyone, so that a buyer may    *)
(* take takes[1], takes[2], ... of it before the call returns and post is  *)
(* reached.  Each buyer takes from what is left of this offer.             *)
TakeWhilePosting(b, takes) ==
    FoldLeft(LAMBDA c, e : LET rest == CHOOSE o \in c.listed : \A x \in c.listed : x.id <= o.id
                           IN  AcceptOffer(c, rest, e), b, takes)

PostOffer(b, energy, replace, takes) ==
    LET c == IF replace THEN RemoveExistingOffers(b) ELSE b
        new == Order(c.next, energy)
        d == [c EXCEPT !.listed = @ \cup {new}, !.next = @ + 1]
    IN  IF c.error THEN c ELSE Post(TakeWhilePosting(d, takes), new)

(* update_offer_rates deletes every posted offer and lists it again at the *)
(* new rate, where buyers may take it at once; a sold one is skipped       *)
(* because the market does not know it.                                    *)
RelistOffer(b, o, takes) ==
    IF o.id \notin Ids(b.listed) THEN b
    ELSE LET new == Order(b.next, o.energy)
             c == [b EXCEPT !.listed = {x \in @ : x.id # o.id} \cup {new}, !.next = @ + 1]
         IN  ReplacePosted(TakeWhilePosting(c, takes), o, new)
UpdateOfferRates(b, Takes(_)) ==
    IF OpenInMarket(b) = {} THEN b
    ELSE FoldLeft(LAMBDA c, o : RelistOffer(c, o, Takes(o)), b, b.posted)
-----------------------------------------------------------------------------
(* The bids of BidEnabledStrategy. *)

RemoveBidFromPending(b, id) ==
    [b EXCEPT !.listedBids = {o \in @ : o.id # id}, !.bids = Without(@, LAMBDA o : o.id = id)]
RemoveExistingBids(b) ==
    FoldLeft(LAMBDA c, o : RemoveBidFromPending(c, o.id), b, b.bids)

PostBid(b, energy, replace) ==
    LET c == IF replace THEN RemoveExistingBids(b) ELSE b
        new == Order(c.next, energy)
    IN  [c EXCEPT !.listedBids = @ \cup {new}, !.next = @ + 1, !.bids = Append(@, new)]

UpdateBidRates(b) ==
    FoldLeft(LAMBDA c, o : PostBid(RemoveBidFromPending(c, o.id), o.energy, FALSE), b, b.bids)

BidSplit(b, accepted, residual) == [b EXCEPT !.bids = @ \o <<accepted, residual>>]
BidTraded_KeepsBid(b, o) == [b EXCEPT !.bought = @ \cup {o}]
BidTraded(b, o) == RemoveBidFromPending([b EXCEPT !.bought = @ \cup {o}], o.id)

(* The market accepts a bid, in part or as a whole. *)
AcceptBid(b, o, energy) ==
    IF energy < o.energy
    THEN LET accepted == Order(o.id, energy)
             residual == Order(b.next, o.energy - energy)
             c == BidSplit(b, accepted, residual)
         IN  BidTraded([c EXCEPT !.listedBids = (@ \ {o}) \cup {residual}, !.next = @ + 1], accepted)
    ELSE BidTraded([b EXCEPT !.listedBids = @ \ {o}], o)
-----------------------------------------------------------------------------
(* The strategy and the market agree on what is open. *)
Agrees(b) ==
    /\ OpenInMarket(b) = b.listed
    /\ ToSet(b.bids) = b.listedBids /\ Len(b.bids) = Cardinality(b.listedBids)
=============================================================================
