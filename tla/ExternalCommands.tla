-------------------------- MODULE ExternalCommands --------------------------
(***************************************************************************)
(* What a command of an external client does to the orders of an asset,    *)
(* for the four kinds of external strategies, sent in a batch by an        *)
(* aggregator or directly by a client of the asset.                        *)
(*                                                                         *)
(* A command is a record with the fields                                   *)
(*   type     "bid", "offer", "delete_bid", "delete_offer", "list_bids",   *)
(*            "list_offers", "device_info", or one the asset does not know *)
(*   slot     the time slot it names, or NoSlot                            *)
(*   energy   of a bid or offer                                            *)
(*   replace  replace_existing                                             *)
(*   order    the id of the order to delete, or 0 for all                  *)
(*   fits     whether a future or settlement market would take the order,  *)
(*            whose energies are not modelled                              *)
(* and has an outcome: the account of the asset in its spot market         *)
(* afterwards and a status, where "raises" is an exception that leaves the *)
(* strategy and ends the simulation.                                       *)
(***************************************************************************)
EXTENDS StrategyOrders

CONSTANTS NoSlot

Outcome(b, status) == [book |-> b, status |-> status]
Accept(b) == Outcome(b, "ready")
Reject(b) == Outcome(b, "error")
Raise(b) == Outcome(b, "raises")

(* _get_market_from_command_argument and _get_market_from_time_slot. *)
Market(command, slot) ==
    CASE command.slot \in {NoSlot, slot} -> "spot"
      [] command.slot = slot - 1 -> "settlement"
      [] command.slot = slot + 1 -> "future"
      [] OTHER -> "none"

(* An operation that failed half-way keeps what it had done. *)
Done(b) == IF b.error THEN Reject([b EXCEPT !.error = FALSE]) ELSE Accept(b)

(* _bid_aggregator_impl and _offer_aggregator_impl of ExternalMixin. *)
BidAggregatorImpl(b, c, limit) ==
    IF CanBidBePosted(b, c.energy, limit.bid, c.replace)
    THEN Done(PostBid(b, c.energy, c.replace)) ELSE Reject(b)
OfferAggregatorImpl(b, c, limit) ==
    IF CanOfferBePosted(b, c.energy, limit.offer, c.replace)
    THEN Done(PostOffer(b, c.energy, c.replace, <<>>)) ELSE Reject(b)

(* Orders in the future and the settlement market. *)
Elsewhere(b, c) == IF c.fits THEN Accept(b) ELSE Reject(b)

DeleteOffers(b, c) ==
    Done(IF c.order = 0 THEN RemoveOpenOffers(b)
         ELSE FoldLeft(RemoveOffer, b, SelectSeq(b.posted, LAMBDA o : o.id = c.order)))
DeleteBids(b, c) ==
    Accept(IF c.order = 0 THEN RemoveExistingBids(b) ELSE RemoveBidFromPending(b, c.order))

OfferIsPosted(b, c) == c.order = 0 \/ c.order \in Ids(ToSet(b.posted))
BidIsPosted(b, c) == c.order = 0 \/ c.order \in Ids(ToSet(b.bids))
-----------------------------------------------------------------------------
(* LoadExternalMixin.  That there is no market for the slot is an          *)
(* exception which the handlers of orders do not catch.                    *)

LoadBid(b, c, m, limit) ==
    CASE m = "none" -> Raise(b)
      [] m = "spot" -> BidAggregatorImpl(b, c, limit)
      [] OTHER -> Elsewhere(b, c)
LoadOffer(b, c, m) ==
    CASE m = "none" -> Raise(b) [] m = "settlement" -> Elsewhere(b, c) [] OTHER -> Reject(b)
LoadDeleteBid(b, c, m) ==
    CASE m = "none" -> Reject(b) [] m = "spot" -> DeleteBids(b, c) [] OTHER -> Accept(b)
LoadListBids(b, m) == IF m = "none" THEN Reject(b) ELSE Accept(b)

(* _bid_impl; its handler of exceptions reads the market it failed to find. *)
LoadBidImpl(b, c, m, limit) ==
    CASE m = "none" -> Raise(b)
      [] m = "spot" -> BidAggregatorImpl(b, c, limit)
      [] OTHER -> Elsewhere(b, c)
-----------------------------------------------------------------------------
(* PVExternalMixin. *)

PVOffer(b, c, m, limit) ==
    CASE m = "none" -> Raise(b)
      [] m = "spot" -> OfferAggregatorImpl(b, c, limit)
      [] OTHER -> Elsewhere(b, c)
PVBid(b, c, m) ==
    CASE m = "none" -> Raise(b) [] m = "settlement" -> Elsewhere(b, c) [] OTHER -> Reject(b)
(* An id that is not posted raises outside the try block. *)
PVDeleteOffer(b, c, m) ==
    CASE m = "none" -> Raise(b)
      [] m = "spot" -> IF OfferIsPosted(b, c) THEN DeleteOffers(b, c) ELSE Raise(b)
      [] OTHER -> Accept(b)
PVListOffers(b, m) == IF m = "none" THEN Reject(b) ELSE Accept(b)

(* _offer_impl does not pass the time slot can_offer_be_posted requires:   *)
(* a TypeError, which it does not catch.                                   *)
PVOfferImpl(b) == Raise(b)
PVDeleteOfferImpl(b, c, m) ==
    CASE m = "none" -> Reject(b) [] m = "spot" -> DeleteOffers(b, c) [] OTHER -> Accept(b)
-----------------------------------------------------------------------------
(* StorageExternalMixin.  limit is the energy to sell or to buy with what  *)
(* is on offer already.                                                    *)

StorageCanOffer_IgnoresOpen(b, c, limit) == c.energy <= limit.offer
StorageCanOffer(b, c, limit) ==
    c.energy + (IF c.replace THEN 0 ELSE OpenOfferEnergy(b)) <= limit.offer
StorageCanBid(b, c, limit) ==
    c.energy + (IF c.replace THEN 0 ELSE PostedBidEnergy(b)) <= limit.bid

StorageOffer(b, c, m, limit) ==
    CASE m = "none" -> Raise(b)
      [] m = "spot" -> IF StorageCanOffer(b, c, limit)
                       THEN Done(PostOffer(b, c.energy, c.replace, <<>>)) ELSE Reject(b)
      [] OTHER -> Elsewhere(b, c)
StorageBid(b, c, m, limit) ==
    CASE m = "none" -> Raise(b)
      [] m = "spot" -> IF StorageCanBid(b, c, limit)
                       THEN Done(PostBid(b, c.energy, c.replace)) ELSE Reject(b)
      [] OTHER -> Elsewhere(b, c)
StorageDeleteOffer(b, c, m) ==
    CASE m = "none" -> Raise(b)
      [] m = "spot" -> IF OfferIsPosted(b, c) THEN DeleteOffers(b, c) ELSE Raise(b)
      [] OTHER -> Accept(b)
StorageDeleteBid(b, c, m) ==
    CASE m = "none" -> Raise(b)
      [] m = "spot" -> IF BidIsPosted(b, c) THEN DeleteBids(b, c) ELSE Reject(b)
      [] OTHER -> Accept(b)
StorageListBids(b, m) == IF m = "none" THEN Reject(b) ELSE Accept(b)
StorageListOffers(b, m) == IF m = "none" THEN Reject(b) ELSE Accept(b)

StorageOfferImpl(b, c, m, limit) == StorageOffer(b, c, m, limit)
(* _bid_impl unpacks the arguments into a call that takes a dictionary:    *)
(* the TypeError is caught and the bid refused.                            *)
StorageBidImpl(b, m) == IF m = "none" THEN Raise(b) ELSE Reject(b)
StorageDeleteOfferImpl(b, c, m) ==
    CASE m = "none" -> Reject(b) [] m = "spot" -> DeleteOffers(b, c) [] OTHER -> Accept(b)
StorageDeleteBidImpl(b, c, m) ==
    CASE m = "none" -> Reject(b) [] m = "spot" -> DeleteBids(b, c) [] OTHER -> Accept(b)
-----------------------------------------------------------------------------
(* SmartMeterExternalMixin. *)

MeterBid(b, c, m, limit) ==
    CASE m = "none" -> Raise(b)
      [] m = "spot" -> BidAggregatorImpl(b, c, limit)
      [] OTHER -> Elsewhere(b, c)
(* replace_existing is passed in the position of time_slot, for which no   *)
(* offer is posted: only the new energy is compared with what is available. *)
MeterCanOffer(c, limit) == c.energy <= limit.offer
MeterOffer(b, c, m, limit) ==
    CASE m = "none" -> Raise(b)
      [] m = "spot" -> IF MeterCanOffer(c, limit)
                       THEN Done(PostOffer(b, c.energy, c.replace, <<>>)) ELSE Reject(b)
      [] OTHER -> Elsewhere(b, c)
MeterDeleteBid(b, c, m) ==
    CASE m = "none" -> Reject(b) [] m = "spot" -> DeleteBids(b, c) [] OTHER -> Accept(b)
MeterDeleteOffer(b, c, m) ==
    CASE m = "none" -> Reject(b) [] m = "spot" -> DeleteOffers(b, c) [] OTHER -> Accept(b)
MeterListBids(b, m) == IF m = "none" THEN Reject(b) ELSE Accept(b)
MeterListOffers(b, m) == IF m = "none" THEN Reject(b) ELSE Accept(b)
-----------------------------------------------------------------------------
(* trigger_aggregator_commands: the callback of the command, where the     *)
(* mixin has one; the defaults of ExternalMixin refuse.                    *)
TriggerAggregatorCommands(kind, b, c, slot, limit) ==
    LET m == Market(c, slot) IN
    CASE c.type = "device_info" -> Accept(b)
      [] kind = "load" /\ c.type = "bid" -> LoadBid(b, c, m, limit)
      [] kind = "load" /\ c.type = "offer" -> LoadOffer(b, c, m)
      [] kind = "load" /\ c.type = "delete_bid" -> LoadDeleteBid(b, c, m)
      [] kind = "load" /\ c.type = "list_bids" -> LoadListBids(b, m)
      [] kind = "pv" /\ c.type = "bid" -> PVBid(b, c, m)
      [] kind = "pv" /\ c.type = "offer" -> PVOffer(b, c, m, limit)
      [] kind = "pv" /\ c.type = "delete_offer" -> PVDeleteOffer(b, c, m)
      [] kind = "pv" /\ c.type = "list_offers" -> PVListOffers(b, m)
      [] kind = "storage" /\ c.type = "bid" -> StorageBid(b, c, m, limit)
      [] kind = "storage" /\ c.type = "offer" -> StorageOffer(b, c, m, limit)
      [] kind = "storage" /\ c.type = "delete_bid" -> StorageDeleteBid(b, c, m)
      [] kind = "storage" /\ c.type = "delete_offer" -> StorageDeleteOffer(b, c, m)
      [] kind = "storage" /\ c.type = "list_bids" -> StorageListBids(b, m)
      [] kind = "storage" /\ c.type = "list_offers" -> StorageListOffers(b, m)
      [] kind = "meter" /\ c.type = "bid" -> MeterBid(b, c, m, limit)
      [] kind = "meter" /\ c.type = "offer" -> MeterOffer(b, c, m, limit)
      [] kind = "meter" /\ c.type = "delete_bid" -> MeterDeleteBid(b, c, m)
      [] kind = "meter" /\ c.type = "delete_offer" -> MeterDeleteOffer(b, c, m)
      [] kind = "meter" /\ c.type = "list_bids" -> MeterListBids(b, m)
      [] kind = "meter" /\ c.type = "list_offers" -> MeterListOffers(b, m)
      [] OTHER -> Reject(b)

(* The requests of a directly connected client, by kind of asset. *)
LoadRequests(c, b, m) ==
    \/ c.type \in {"bid", "list_bids", "device_info"}
    \/ c.type = "delete_bid" /\ m # "none" /\ BidIsPosted(b, c)
PVRequests(c, b, m) ==
    \/ c.type \in {"offer", "list_offers", "device_info"}
    \/ c.type = "delete_offer" /\ m # "none" /\ OfferIsPosted(b, c)
StorageRequests(c, b, m) == PVRequests(c, b, m)
StorageBidRequests(c, b, m) == LoadRequests(c, b, m)
MeterRequests(c, b, m) == PVRequests(c, b, m) \/ LoadRequests(c, b, m)

IncomingRequest(kind, c, b, m) ==
    CASE kind = "load" -> LoadRequests(c, b, m)
      [] kind = "pv" -> PVRequests(c, b, m)
      [] kind = "storage" -> StorageRequests(c, b, m) \/ StorageBidRequests(c, b, m)
      [] kind = "meter" -> MeterRequests(c, b, m)

(* _incoming_commands_callback_selection.  That of the smart meter goes    *)
(* through trigger_aggregator_commands, which finds no type in it.         *)
LoadCallback(b, c, m, limit) ==
    CASE c.type = "bid" -> LoadBidImpl(b, c, m, limit)
      [] c.type = "delete_bid" -> LoadDeleteBid(b, c, m)
      [] c.type = "list_bids" -> LoadListBids(b, m)
      [] OTHER -> Accept(b)
PVCallback(b, c, m) ==
    CASE c.type = "offer" -> PVOfferImpl(b)
      [] c.type = "delete_offer" -> PVDeleteOfferImpl(b, c, m)
      [] c.type = "list_offers" -> PVListOffers(b, m)
      [] OTHER -> Accept(b)
StorageCallback(b, c, m, limit) ==
    CASE c.type = "bid" -> StorageBidImpl(b, m)
      [] c.type = "offer" -> StorageOfferImpl(b, c, m, limit)
      [] c.type = "delete_bid" -> StorageDeleteBidImpl(b, c, m)
      [] c.type = "delete_offer" -> StorageDeleteOfferImpl(b, c, m)
      [] c.type \in {"list_bids", "list_offers"} -> StorageListBids(b, m)
      [] OTHER -> Accept(b)
MeterCallback(b) == Reject(b)

CallbackSelection(kind, b, c, slot, limit) ==
    LET m == Market(c, slot) IN
    CASE kind = "load" -> LoadCallback(b, c, m, limit)
      [] kind = "pv" -> PVCallback(b, c, m)
      [] kind = "storage" -> StorageCallback(b, c, m, limit)
      [] kind = "meter" -> MeterCallback(b)
=============================================================================
