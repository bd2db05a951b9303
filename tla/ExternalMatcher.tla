--------------------------- MODULE ExternalMatcher --------------------------
(***************************************************************************)
(* Matching by an external engine: the two-sided spot market of one area,  *)
(* MatchingEngineExternalMatcher in the main thread of the simulation, the *)
(* Redis thread that fills its two buffers at any moment, and the engine   *)
(* outside, which asks for the open orders and recommends matches among    *)
(* orders it was shown, late or twice if it likes.                         *)
(*                                                                         *)
(* A trader has at most one open order per side.  The id of an order is    *)
(* its account, the post it stems from and the number of splits since:     *)
(* withdrawing and posting again, as strategies do to change a price, and  *)
(* splitting both change the id.  Rates and requirements are abstracted to *)
(* whether they fit the recommendation.                                    *)
(***************************************************************************)
EXTENDS Integers, Sequences, FiniteSets, FiniteSetsExt, SequencesExt

CONSTANTS
    Sellers, Buyers,      \* a storage is both
    MaxEnergy,            \* the energy of a posted order
    LastSlot, TicksPerSlot,
    MaxPosts,             \* bound: orders posted
    MaxRequests, MaxRecommendations  \* bounds: messages of the engine

ASSUME MatcherAssumption ==
    /\ Sellers # {} /\ Buyers # {} /\ MaxEnergy \in Nat \ {0}
    /\ LastSlot \in Nat /\ TicksPerSlot \in Nat \ {0}
    /\ {MaxPosts, MaxRequests, MaxRecommendations} \subseteq Nat

Accounts == ({"offer"} \X Sellers) \cup ({"bid"} \X Buyers)
NoMarket == -1

VARIABLES
    pc, slot, tick,
    book,             \* offers and bids of the open market, by account
    mapping,          \* the market in area_uuid_markets_mapping, if any
    cached,           \* the markets in area_markets_mapping, by slot
    requests,         \* _publish_orders_message_buffer
    publish_orders,   \* the copy of it being answered
    recommendations,  \* _recommendations
    report,           \* response_data["recommendations"]
    matched,          \* how many of report have been matched
    failed,           \* an exception has left the matcher
    seen,             \* the orders the engine was shown
    sent,             \* the recommendations the engine has sent
    asked,
    considered,       \* history: recommendations that were validated or cancelled
    trades,           \* history: executed matches
    replies           \* history: answers to recommendations, in order

market == <<slot, tick, book>>
engine == <<seen, sent, asked>>
orders == <<mapping, cached, requests, publish_orders>>
matching == <<recommendations, report, matched, failed>>
history == <<considered, trades, replies>>
vars == <<pc, market, orders, matching, engine, history>>

NoOrder == [post |-> 0, part |-> 0, energy |-> 0]
Open(a) == book[a].energy > 0
Id(a, order) == <<a, order.post, order.part>>
OpenIds == {Id(a, book[a]) : a \in {b \in Accounts : Open(b)}}

Recommendations ==
    [n : 1 .. MaxRecommendations, slot : 0 .. LastSlot, energy : 1 .. MaxEnergy,
     offer : Accounts \X (1 .. MaxPosts) \X Nat, bid : Accounts \X (1 .. MaxPosts) \X Nat,
     fits : BOOLEAN]

Init ==
    /\ pc = "tick" /\ slot = 0 /\ tick = 0
    /\ book = [a \in Accounts |-> NoOrder]
    /\ mapping = NoMarket /\ cached = {}
    /\ requests = <<>> /\ publish_orders = <<>>
    /\ recommendations = <<>> /\ report = <<>> /\ matched = 0
    /\ failed = FALSE
    /\ seen = {} /\ sent = 0 /\ asked = 0
    /\ considered = {} /\ trades = {} /\ replies = <<>>
-----------------------------------------------------------------------------
(* The engine and the Redis thread, which appends to the buffers. *)

RequestOrders ==
    /\ pc # "finished" /\ asked < MaxRequests
    /\ asked' = asked + 1
    /\ requests' = Append(requests, asked + 1)
    /\ UNCHANGED <<pc, market, mapping, cached, publish_orders, matching, seen, sent, history>>

(* _populate_recommendations. *)
PopulateRecommendations(offer, bid, energy, fits) ==
    /\ pc # "finished" /\ sent < MaxRecommendations
    /\ offer.slot = bid.slot /\ offer.id[1][1] = "offer" /\ bid.id[1][1] = "bid"
    /\ sent' = sent + 1
    /\ recommendations' = Append(recommendations,
           [n |-> sent + 1, slot |-> offer.slot, offer |-> offer.id, bid |-> bid.id,
            energy |-> energy, fits |-> fits])
    /\ UNCHANGED <<pc, market, orders, report, matched, failed, seen, asked, history>>
-----------------------------------------------------------------------------
(* Area.tick: recommendations are matched first, then the mapping of       *)
(* markets is renewed.                                                     *)

StartTick ==
    /\ pc = "tick"
    /\ report' = <<>> /\ matched' = 0
    /\ pc' = IF recommendations = <<>> THEN "mapping" ELSE "validate"
    /\ UNCHANGED <<market, orders, recommendations, failed, engine, history>>

MarketExists(r) == r.slot \in cached

OrdersExist_Always(r) == TRUE
OrdersExist(r) == {r.offer, r.bid} \subseteq OpenIds

(* validate_and_report walks through the list the Redis thread appends to. *)
(* A recommendation for an unknown market cancels all of them.             *)
Validate ==
    /\ pc = "validate"
    /\ LET i == Len(report) + 1 IN
       IF i > Len(recommendations)
       THEN pc' = "match" /\ UNCHANGED <<report, considered>>
       ELSE LET r == recommendations[i] IN
            IF MarketExists(r)
            THEN /\ report' = Append(report, [r |-> r, ok |-> OrdersExist(r)])
                 /\ considered' = considered \cup {r.n}
                 /\ UNCHANGED pc
            ELSE /\ pc' = "cancel"
                 /\ considered' = considered \cup {q.n : q \in ToSet(recommendations)}
                 /\ UNCHANGED report
    /\ UNCHANGED <<market, orders, recommendations, matched, failed, engine, trades, replies>>

(* The answer names the recommendations validated so far. *)
Cancel ==
    /\ pc = "cancel"
    /\ replies' = replies \o [i \in DOMAIN report |-> [n |-> report[i].r.n, ok |-> FALSE]]
    /\ recommendations' = <<>>
    /\ pc' = "mapping"
    /\ UNCHANGED <<market, orders, report, matched, failed, engine, considered, trades>>

(* TwoSidedMarket.match_recommendations of a single pair.  An order that a *)
(* match of the same batch has split is found again by its trader.         *)
CurrentOrder(id) == book[id[1]]
ValidPair(r) == /\ r.fits
                /\ r.energy <= CurrentOrder(r.bid).energy
                /\ r.energy <= CurrentOrder(r.offer).energy
SameTrader(r) == r.offer[1][2] = r.bid[1][2]

WereTradesPerformed(r) ==
    /\ Open(r.offer[1]) /\ Open(r.bid[1])
    /\ ~SameTrader(r) /\ ValidPair(r)

MatchedEnergy(r) == Min({r.energy, CurrentOrder(r.offer).energy, CurrentOrder(r.bid).energy})
Residual(order, energy) == [order EXCEPT !.energy = @ - energy, !.part = @ + 1]

ReportedStatus_Validated(validated, performed) == validated
ReportedStatus(validated, performed) == performed

(* The next recommendation of the report; the ones that failed are skipped.*)
Match ==
    /\ pc = "match" /\ matched < Len(report)
    /\ LET r == report[matched + 1].r
           ok == report[matched + 1].ok
           performed == ok /\ WereTradesPerformed(r)
           energy == MatchedEnergy(r)
       IN  /\ matched' = matched + 1
           /\ failed' = (failed \/ r.slot # slot)
           /\ report' = [report EXCEPT ![matched + 1].ok = ReportedStatus(ok, performed)]
           /\ book' = IF performed THEN [book EXCEPT ![r.offer[1]] = Residual(@, energy),
                                                    ![r.bid[1]] = Residual(@, energy)]
                      ELSE book
           /\ trades' = IF performed
                        THEN trades \cup {[n |-> r.n, offer |-> Id(r.offer[1], CurrentOrder(r.offer)),
                                            bid |-> Id(r.bid[1], CurrentOrder(r.bid))]}
                        ELSE trades
    /\ UNCHANGED <<pc, slot, tick, orders, recommendations, engine, considered, replies>>

(* The buffer is replaced by an empty one, whatever it holds by now. *)
Reply ==
    /\ pc = "match" /\ matched = Len(report)
    /\ replies' = replies \o [i \in DOMAIN report |-> [n |-> report[i].r.n, ok |-> report[i].ok]]
    /\ recommendations' = <<>>
    /\ pc' = "mapping"
    /\ UNCHANGED <<market, orders, report, matched, failed, engine, considered, trades>>

UpdateMapping ==
    /\ pc = "mapping"
    /\ mapping' = slot
    /\ pc' = "dispatch"
    /\ UNCHANGED <<market, cached, requests, publish_orders, matching, engine, history>>
-----------------------------------------------------------------------------
(* The other handlers of the tick: traders post and withdraw orders.  All  *)
(* are posted with the same energy; splits make smaller ones.              *)

Post(a) ==
    /\ pc = "dispatch" /\ ~Open(a)
    /\ MapThenSumSet(LAMBDA b : book[b].post, Accounts) < MaxPosts
    /\ book' = [book EXCEPT ![a] = [post |-> @.post + 1, part |-> 0, energy |-> MaxEnergy]]
    /\ UNCHANGED <<pc, slot, tick, orders, matching, engine, history>>

Withdraw(a) ==
    /\ pc = "dispatch" /\ Open(a)
    /\ book' = [book EXCEPT ![a].energy = 0]
    /\ UNCHANGED <<pc, slot, tick, orders, matching, engine, history>>

(* event_tick: the orders are published only at some ticks. *)
EventTick(is_time) ==
    /\ pc = "dispatch"
    /\ publish_orders' = IF is_time THEN requests ELSE <<>>
    /\ pc' = IF is_time THEN "clear" ELSE "end"
    /\ UNCHANGED <<market, mapping, cached, requests, matching, engine, history>>

ClearRequests ==
    /\ pc = "clear"
    /\ requests' = <<>>
    /\ pc' = "publish"
    /\ UNCHANGED <<market, mapping, cached, publish_orders, matching, engine, history>>

(* _publish_orders: only the first answer of a tick finds a mapping. *)
PublishOrders ==
    /\ pc = "publish" /\ publish_orders # <<>>
    /\ publish_orders' = Tail(publish_orders)
    /\ IF mapping = NoMarket THEN UNCHANGED <<cached, seen>>
       ELSE /\ cached' = cached \cup {mapping}
            /\ seen' = seen \cup {[slot |-> mapping, id |-> id] : id \in OpenIds}
    /\ mapping' = NoMarket
    /\ UNCHANGED <<pc, market, requests, matching, sent, asked, history>>

EndPublish ==
    /\ pc = "publish" /\ publish_orders = <<>>
    /\ pc' = "end"
    /\ UNCHANGED <<market, orders, matching, engine, history>>

MoreTicks == tick + 1 < TicksPerSlot

NextTick ==
    /\ pc = "end" /\ MoreTicks
    /\ tick' = tick + 1 /\ pc' = "tick"
    /\ UNCHANGED <<slot, book, orders, matching, engine, history>>

FinishedMarketsCleared == {}

(* cycle_markets opens a new market, and event_market_cycle forgets the    *)
(* finished ones.                                                          *)
MarketCycle ==
    /\ pc = "end" /\ ~MoreTicks
    /\ IF slot < LastSlot
       THEN /\ slot' = slot + 1 /\ tick' = 0 /\ pc' = "tick"
            /\ book' = [a \in Accounts |-> [book[a] EXCEPT !.energy = 0]]
            /\ cached' = FinishedMarketsCleared
       ELSE pc' = "finished" /\ UNCHANGED <<market, cached>>
    /\ UNCHANGED <<mapping, requests, publish_orders, matching, engine, history>>

Next ==
    \/ RequestOrders
    \/ \E offer, bid \in seen, energy \in 1 .. MaxEnergy, fits \in BOOLEAN :
           PopulateRecommendations(offer, bid, energy, fits)
    \/ StartTick \/ Validate \/ Cancel \/ Match \/ Reply \/ UpdateMapping
    \/ \E a \in Accounts : Withdraw(a) \/ Post(a)
    \/ \E is_time \in BOOLEAN : EventTick(is_time)
    \/ ClearRequests \/ PublishOrders \/ EndPublish \/ NextTick \/ MarketCycle

Spec == Init /\ [][Next]_vars
-----------------------------------------------------------------------------
(* Every variable keeps its type, and the loop over ticks its range. *)
TypeOK ==
    /\ pc \in {"tick", "validate", "match", "cancel", "mapping", "dispatch", "clear",
               "publish", "end", "finished"}
    /\ slot \in 0 .. LastSlot /\ tick \in 0 .. TicksPerSlot - 1
    /\ book \in [Accounts -> [post : 0 .. MaxPosts, part : Nat, energy : 0 .. MaxEnergy]]
    /\ mapping \in {NoMarket} \cup 0 .. LastSlot /\ cached \subseteq 0 .. LastSlot
    /\ ToSet(recommendations) \subseteq Recommendations
    /\ \A i \in DOMAIN report : report[i].r \in Recommendations /\ report[i].ok \in BOOLEAN
    /\ matched \in 0 .. Len(report) /\ failed \in BOOLEAN

(* The matcher only ever matches in the market that is open: a match in a  *)
(* finished one raises MarketReadOnlyException, which nothing catches      *)
(* (match_recommendations, event_market_cycle).                            *)
OnlyOpenMarkets == ~failed

(* What is traded is what was recommended, or a residual left by another   *)
(* match: never an order posted later by the same trader, although orders  *)
(* are looked up by trader when their id is gone (match_recommendations of *)
(* the matcher and of the market, _validate_orders_exist_in_market).       *)
Sent == ToSet(recommendations) \cup {report[i].r : i \in DOMAIN report}
TradesWhatWasRecommended ==
    \A t \in trades, r \in Sent : r.n = t.n =>
        /\ t.offer[1] = r.offer[1] /\ t.offer[2] = r.offer[2]
        /\ t.bid[1] = r.bid[1] /\ t.bid[2] = r.bid[2]

TradesAsRecommended == OnlyOpenMarkets /\ TradesWhatWasRecommended

(* Every recommendation gets at most one answer, and the answer is success *)
(* exactly if it was traded (the status set in match_recommendations).     *)
RepliesAreTrue ==
    /\ \A i \in DOMAIN replies : replies[i].ok <=> \E t \in trades : t.n = replies[i].n
    /\ \A i, j \in DOMAIN replies : replies[i].n = replies[j].n => i = j

(* A recommendation that was received is in the buffer until it has been   *)
(* validated (_populate_recommendations: "store them to be consumed in a   *)
(* later stage").                                                          *)
RecommendationsKept ==
    1 .. sent \subseteq considered \cup {r.n : r \in ToSet(recommendations)}
-----------------------------------------------------------------------------
(* The inductive invariant behind the three safety properties.             *)

OfferIds == ({"offer"} \X Sellers) \X Nat \X Nat
BidIds == ({"bid"} \X Buyers) \X Nat \X Nat
Recommendation ==
    [n : Nat, slot : 0 .. LastSlot, offer : OfferIds, bid : BidIds, energy : Nat, fits : BOOLEAN]
Reported == [r : Recommendation, ok : BOOLEAN]
Answer == [n : Nat, ok : BOOLEAN]
Order == [post : Nat, part : Nat, energy : Nat]
Typed ==
    /\ slot \in 0 .. LastSlot /\ cached \subseteq 0 .. LastSlot
    /\ mapping \in {NoMarket} \cup 0 .. LastSlot
    /\ book \in [Accounts -> Order]
    /\ seen \subseteq [slot : 0 .. LastSlot, id : OfferIds \cup BidIds]
    /\ recommendations \in Seq(Recommendation)
    /\ report \in Seq(Reported)
    /\ replies \in Seq(Answer)
    /\ sent \in Nat /\ matched \in 0 .. Len(report) /\ publish_orders \in Seq(Nat)
    /\ requests \in Seq(Nat) /\ asked \in Nat

Matching == {"validate", "match", "cancel"}

(* The matcher knows no market but the open one, so everything validated   *)
(* in this tick is for it.                                                 *)
InOpenMarket ==
    /\ cached \subseteq {slot}
    /\ pc \in {"dispatch", "clear", "publish"} => mapping \in {NoMarket, slot}
    /\ pc \in Matching => \A i \in DOMAIN report : report[i].r.slot = slot
    /\ OnlyOpenMarkets

(* Recommendations are numbered in the order of their arrival; the report  *)
(* is the validated beginning of the buffer, or left over from it, and     *)
(* replies are about what has left the buffer.                             *)
Numbered ==
    /\ \A i, j \in DOMAIN recommendations : i < j => recommendations[i].n < recommendations[j].n
    /\ \A i \in DOMAIN recommendations : recommendations[i].n <= sent
    /\ \A i, j \in DOMAIN report : report[i].r.n = report[j].r.n => i = j
    /\ \A i \in DOMAIN report : report[i].r.n <= sent
    /\ IF pc \in Matching
       THEN /\ Len(report) <= Len(recommendations)
            /\ \A i \in DOMAIN report : report[i].r = recommendations[i]
       ELSE \A i \in DOMAIN report, j \in DOMAIN recommendations :
                report[i].r.n < recommendations[j].n
    /\ \A i \in DOMAIN replies : replies[i].n <= sent
    /\ \A i \in DOMAIN replies, j \in DOMAIN recommendations : replies[i].n < recommendations[j].n

Follows(t, r) ==
    /\ t.offer[1] = r.offer[1] /\ t.offer[2] = r.offer[2]
    /\ t.bid[1] = r.bid[1] /\ t.bid[2] = r.bid[2]

(* From the validation of a recommendation to its match no trader acts:    *)
(* the orders found then, or what other matches left of them, are the ones *)
(* that are matched.  Until the reply a trade of this tick is marked in    *)
(* the report.                                                             *)
TradedAsMarked ==
    /\ pc \in {"validate", "cancel"} => matched = 0
    /\ pc \in {"validate", "match"} =>
          \A i \in DOMAIN report : report[i].ok =>
              /\ book[report[i].r.offer[1]].post = report[i].r.offer[2]
              /\ book[report[i].r.bid[1]].post = report[i].r.bid[2]
    /\ \A t \in trades : t.n \in Nat /\ t.n <= sent
    /\ \A t \in trades, i \in DOMAIN report : t.n = report[i].r.n => Follows(t, report[i].r)
    /\ \A t \in trades, j \in DOMAIN recommendations :
          t.n = recommendations[j].n => pc = "match" /\ j <= matched
    /\ pc = "match" => \A i \in 1 .. matched :
                          report[i].ok <=> \E t \in trades : t.n = report[i].r.n
    /\ RepliesAreTrue

MatcherInv == Typed /\ InOpenMarket /\ Numbered /\ TradedAsMarked
=============================================================================
