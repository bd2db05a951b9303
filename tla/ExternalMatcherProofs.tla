----------------------- MODULE ExternalMatcherProofs -----------------------
(***************************************************************************)
(* Proofs about ExternalMatcher, for every number of traders, posts,       *)
(* slots, ticks and messages of the matching engine.                       *)
(***************************************************************************)
EXTENDS ExternalMatcher, SequenceTheorems, TLAPS

USE MatcherAssumption
-----------------------------------------------------------------------------
(* What one step uses of the types. *)

LEMMA BookTypes ==
    ASSUME Typed, NEW a \in Accounts
    PROVE  /\ book[a] \in Order
           /\ book[a].post \in Nat /\ book[a].part \in Nat /\ book[a].energy \in Nat
           /\ Id(a, book[a]) \in OfferIds \cup BidIds
<1>1. book[a] \in Order
  BY DEF Typed
<1>2. book[a].post \in Nat /\ book[a].part \in Nat /\ book[a].energy \in Nat
  BY <1>1 DEF Order
<1>. QED BY <1>1, <1>2 DEF Id, Accounts, OfferIds, BidIds

LEMMA RecommendationTypes ==
    ASSUME NEW r \in Recommendation
    PROVE  /\ r.n \in Nat /\ r.slot \in 0 .. LastSlot /\ r.energy \in Nat
           /\ r.offer[1] \in Accounts /\ r.bid[1] \in Accounts /\ r.offer[1] # r.bid[1]
           /\ r.offer = <<r.offer[1], r.offer[2], r.offer[3]>>
           /\ r.bid = <<r.bid[1], r.bid[2], r.bid[3]>>
<1>1. r.offer \in OfferIds /\ r.bid \in BidIds /\ r.n \in Nat /\ r.slot \in 0 .. LastSlot
      /\ r.energy \in Nat
  BY DEF Recommendation
<1>2. r.offer[1] \in {"offer"} \X Sellers /\ r.bid[1] \in {"bid"} \X Buyers
  BY <1>1 DEF OfferIds, BidIds
<1>3. r.offer[1][1] = "offer" /\ r.bid[1][1] = "bid"
  BY <1>2
<1>. QED BY <1>1, <1>2, <1>3 DEF Accounts, OfferIds, BidIds

LEMMA ReportTypes ==
    ASSUME Typed
    PROVE  /\ Len(report) \in Nat /\ DOMAIN report = 1 .. Len(report)
           /\ \A i \in DOMAIN report : report[i].r \in Recommendation /\ report[i].ok \in BOOLEAN
           /\ Len(recommendations) \in Nat /\ DOMAIN recommendations = 1 .. Len(recommendations)
           /\ \A i \in DOMAIN recommendations : recommendations[i] \in Recommendation
           /\ Len(replies) \in Nat /\ DOMAIN replies = 1 .. Len(replies)
           /\ \A i \in DOMAIN replies : replies[i].n \in Nat /\ replies[i].ok \in BOOLEAN
<1>1. /\ report \in Seq(Reported)
      /\ recommendations \in Seq(Recommendation) /\ replies \in Seq(Answer)
  BY DEF Typed
<1>2. \A i \in DOMAIN report : report[i] \in Reported
  BY <1>1
<1>3. \A i \in DOMAIN replies : replies[i] \in Answer
  BY <1>1
<1>4. \A i \in DOMAIN recommendations : recommendations[i] \in Recommendation
  BY <1>1
<1>5. \A x \in Reported : x.r \in Recommendation /\ x.ok \in BOOLEAN
  BY DEF Reported
<1>6. \A x \in Answer : x.n \in Nat /\ x.ok \in BOOLEAN
  BY DEF Answer
<1>. QED BY <1>1, <1>2, <1>3, <1>4, <1>5, <1>6

(* A match takes the recommended energy, which neither order exceeds.      *)
LEMMA MatchedEnergyIs ==
    ASSUME Typed, NEW r \in Recommendation, ValidPair(r)
    PROVE  /\ MatchedEnergy(r) = r.energy
           /\ book[r.offer[1]].energy - MatchedEnergy(r) \in Nat
           /\ book[r.bid[1]].energy - MatchedEnergy(r) \in Nat
<1>. DEFINE S == {r.energy, book[r.offer[1]].energy, book[r.bid[1]].energy}
<1>1. /\ r.energy \in Nat /\ book[r.offer[1]].energy \in Nat /\ book[r.bid[1]].energy \in Nat
      /\ r.energy <= book[r.offer[1]].energy /\ r.energy <= book[r.bid[1]].energy
  BY RecommendationTypes, BookTypes DEF ValidPair, CurrentOrder
<1>2. \A x \in S : (\A y \in S : x <= y) => x = r.energy
  BY <1>1
<1>3. \E x \in S : \A y \in S : x <= y
  BY <1>1
<1>4. Min(S) = r.energy
  BY <1>2, <1>3 DEF Min
<1>. QED BY <1>1, <1>4 DEF MatchedEnergy, CurrentOrder
(* What a match leaves of an order: its post is the one it stems from.     *)
LEMMA ResidualIs ==
    ASSUME NEW o \in Order, NEW e \in Nat, o.energy - e \in Nat
    PROVE  Residual(o, e) \in Order /\ Residual(o, e).post = o.post
<1>1. o.part + 1 \in Nat
  BY DEF Order
<1>. DEFINE left == o.energy - e
           next == o.part + 1
<1>2. Residual(o, e) = [o EXCEPT !.energy = left, !.part = next]
  BY DEF Residual
<1>. HIDE DEF left, next
<1>3. left \in Nat /\ next \in Nat
  BY <1>1 DEF left, next
<1>. QED BY <1>2, <1>3 DEF Order
-----------------------------------------------------------------------------
LEMMA TypedStep == Typed /\ [Next]_vars => Typed'
<1>. SUFFICES ASSUME Typed, [Next]_vars PROVE Typed'
  OBVIOUS
<1>1. CASE RequestOrders
  <2>1. requests' \in Seq(Nat) /\ asked' \in Nat
    BY <1>1 DEF RequestOrders, Typed
  <2>. QED BY <1>1, <2>1 DEF RequestOrders, Typed, market, matching, history
<1>2. ASSUME NEW offer \in seen, NEW bid \in seen, NEW energy \in 1 .. MaxEnergy, NEW fits \in BOOLEAN,
             PopulateRecommendations(offer, bid, energy, fits)
      PROVE  Typed'
  <2>. DEFINE r == [n |-> sent + 1, slot |-> offer.slot, offer |-> offer.id, bid |-> bid.id,
                    energy |-> energy, fits |-> fits]
  <2>1. /\ offer.slot \in 0 .. LastSlot /\ offer.id \in OfferIds \cup BidIds
        /\ bid.id \in OfferIds \cup BidIds
    BY DEF Typed
  <2>2. offer.id[1][1] = "offer" /\ bid.id[1][1] = "bid" /\ energy \in Nat /\ sent \in Nat
    BY <1>2 DEF PopulateRecommendations, Typed
  <2>3. \A x \in BidIds : x[1][1] = "bid"
    <3>1. \A x \in BidIds : x[1] \in {"bid"} \X Buyers
      BY DEF BidIds
    <3>. QED BY <3>1
  <2>4. \A x \in OfferIds : x[1][1] = "offer"
    <3>1. \A x \in OfferIds : x[1] \in {"offer"} \X Sellers
      BY DEF OfferIds
    <3>. QED BY <3>1
  <2>5. offer.id \in OfferIds /\ bid.id \in BidIds
    BY <2>1, <2>2, <2>3, <2>4
  <2>6. r \in Recommendation
    BY <2>1, <2>2, <2>5 DEF Recommendation
  <2>7. recommendations' \in Seq(Recommendation) /\ sent' \in Nat
    BY <1>2, <2>2, <2>6, AppendProperties DEF PopulateRecommendations, Typed
  <2>. QED BY <1>2, <2>7 DEF PopulateRecommendations, Typed, market, orders, history
<1>3. CASE StartTick
  <2>1. report' \in Seq(Reported) /\ matched' \in 0 .. Len(report')
    BY <1>3, EmptySeq DEF StartTick
  <2>. QED BY <1>3, <2>1 DEF StartTick, Typed, market, orders, engine, history
<1>4. CASE Validate
  <2>1. report' = report \/ \E i \in DOMAIN recommendations :
                               report' = Append(report, [r |-> recommendations[i], ok |-> OrdersExist(recommendations[i])])
    <3>1. Len(report) + 1 \in DOMAIN recommendations \/ Len(report) + 1 > Len(recommendations)
      BY ReportTypes
    <3>. QED BY <1>4, <3>1 DEF Validate
  <2>2. report' \in Seq(Reported) /\ Len(report) <= Len(report')
    <3>1. CASE report' = report
      BY <3>1, ReportTypes DEF Typed
    <3>2. ASSUME NEW i \in DOMAIN recommendations,
                 report' = Append(report, [r |-> recommendations[i], ok |-> OrdersExist(recommendations[i])])
          PROVE  report' \in Seq(Reported) /\ Len(report) <= Len(report')
      <4>1. recommendations[i] \in Recommendation
        BY ReportTypes
      <4>2. OrdersExist(recommendations[i]) \in BOOLEAN
        BY DEF OrdersExist
      <4>3. [r |-> recommendations[i], ok |-> OrdersExist(recommendations[i])] \in Reported
        BY <4>1, <4>2 DEF Reported
      <4>. HIDE DEF OrdersExist
      <4>4. report \in Seq(Reported) /\ Len(report) \in Nat
        BY DEF Typed
      <4>. QED BY <3>2, <4>3, <4>4, AppendProperties
    <3>. QED BY <2>1, <3>1, <3>2
  <2>3. matched' \in 0 .. Len(report')
    BY <1>4, <2>2, ReportTypes DEF Validate, Typed
  <2>. QED BY <1>4, <2>2, <2>3 DEF Validate, Typed, market, orders, engine
<1>5. CASE Cancel
  <2>. DEFINE answer == [i \in DOMAIN report |-> [n |-> report[i].r.n, ok |-> FALSE]]
  <2>1. answer \in Seq(Answer)
    <3>1. \A i \in 1 .. Len(report) : [n |-> report[i].r.n, ok |-> FALSE] \in Answer
      BY ReportTypes, RecommendationTypes DEF Answer
    <3>. QED BY <3>1, ReportTypes, IsASeq
  <2>. HIDE DEF answer
  <2>2. replies' = replies \o answer /\ recommendations' = <<>>
    BY <1>5 DEF Cancel, answer
  <2>3. replies' \in Seq(Answer) /\ recommendations' \in Seq(Recommendation)
    BY <2>1, <2>2, ConcatProperties, EmptySeq DEF Typed
  <2>. QED BY <1>5, <2>3 DEF Cancel, Typed, market, orders, engine
<1>6. CASE Match
  <2>. DEFINE k == matched + 1
              r == report[k].r
              performed == report[k].ok /\ WereTradesPerformed(r)
  <2>1. /\ k \in DOMAIN report /\ matched' = k /\ matched' \in 0 .. Len(report)
    <3>1. matched < Len(report) /\ matched' = matched + 1
      BY <1>6 DEF Match
    <3>2. matched \in 0 .. Len(report) /\ Len(report) \in Nat /\ DOMAIN report = 1 .. Len(report)
      BY ReportTypes DEF Typed
    <3>. QED BY <3>1, <3>2
  <2>2. r \in Recommendation /\ report[k].ok \in BOOLEAN
    BY <2>1, ReportTypes
  <2>3. performed \in BOOLEAN
    BY <2>2 DEF WereTradesPerformed
  <2>4. report' = [report EXCEPT ![k].ok = performed]
    BY <1>6 DEF Match, ReportedStatus
  <2>5. report' \in Seq(Reported) /\ Len(report') = Len(report)
    <3>. HIDE DEF performed, k
    <3>1. [report[k] EXCEPT !.ok = performed] \in Reported
      <4>1. report[k] \in Reported
        BY <2>1 DEF Typed
      <4>. QED BY <2>3, <4>1 DEF Reported
    <3>2. report' = [report EXCEPT ![k] = [report[k] EXCEPT !.ok = performed]]
      BY <2>1, <2>4
    <3>. QED BY <2>1, <3>1, <3>2, ExceptSeq DEF Typed
  <2>6. book' \in [Accounts -> Order]
    <3>1. CASE ~ performed
      <4>1. book' = book
        BY <1>6, <3>1 DEF Match
      <4>. QED BY <4>1 DEF Typed
    <3>2. CASE performed
      <4>. DEFINE a == r.offer[1]
                  b == r.bid[1]
                  e == MatchedEnergy(r)
      <4>1. book' = [book EXCEPT ![a] = Residual(@, e), ![b] = Residual(@, e)]
        BY <1>6, <3>2 DEF Match
      <4>2. a \in Accounts /\ b \in Accounts /\ a # b
        BY <2>2, RecommendationTypes
      <4>3. book[a].energy - e \in Nat /\ book[b].energy - e \in Nat
        BY <2>2, <3>2, MatchedEnergyIs DEF WereTradesPerformed
      <4>. HIDE DEF a, b, e, r
      <4>4. /\ Residual(book[a], e) \in Order
            /\ Residual(book[b], e) \in Order
        <5>1. e \in Nat
          BY <2>2, <3>2, MatchedEnergyIs, RecommendationTypes DEF e, WereTradesPerformed
        <5>. QED BY <4>2, <4>3, <5>1, BookTypes, ResidualIs
      <4>5. book' = [x \in Accounts |-> IF x = a THEN Residual(book[a], e)
                                       ELSE IF x = b THEN Residual(book[b], e) ELSE book[x]]
        BY <4>1, <4>2 DEF Typed
      <4>. QED BY <4>4, <4>5, BookTypes
    <3>. QED BY <3>1, <3>2
  <2>. QED BY <1>6, <2>1, <2>5, <2>6 DEF Match, Typed, orders, engine
<1>7. CASE Reply
  <2>. DEFINE answer == [i \in DOMAIN report |-> [n |-> report[i].r.n, ok |-> report[i].ok]]
  <2>1. answer \in Seq(Answer)
    <3>1. \A i \in 1 .. Len(report) :
            [n |-> report[i].r.n, ok |-> report[i].ok] \in Answer
      BY ReportTypes, RecommendationTypes DEF Answer
    <3>. QED BY <3>1, ReportTypes, IsASeq
  <2>. HIDE DEF answer
  <2>2. replies' = replies \o answer /\ recommendations' = <<>>
    BY <1>7 DEF Reply, answer
  <2>3. replies' \in Seq(Answer) /\ recommendations' \in Seq(Recommendation)
    BY <2>1, <2>2, ConcatProperties, EmptySeq DEF Typed
  <2>. QED BY <1>7, <2>3 DEF Reply, Typed, market, orders, engine
<1>8. CASE UpdateMapping
  BY <1>8 DEF UpdateMapping, Typed, market, matching, engine, history
<1>9. ASSUME NEW a \in Accounts, Post(a) PROVE Typed'
  <2>1. book' \in [Accounts -> Order]
    <3>1. [post |-> book[a].post + 1, part |-> 0, energy |-> MaxEnergy] \in Order
      BY BookTypes DEF Order
    <3>. QED BY <1>9, <3>1 DEF Post, Typed
  <2>. QED BY <1>9, <2>1 DEF Post, Typed, orders, matching, engine, history
<1>10. ASSUME NEW a \in Accounts, Withdraw(a) PROVE Typed'
  <2>1. book' \in [Accounts -> Order]
    BY <1>10, BookTypes DEF Withdraw, Typed, Order
  <2>. QED BY <1>10, <2>1 DEF Withdraw, Typed, orders, matching, engine, history
<1>11. ASSUME NEW is_time \in BOOLEAN, EventTick(is_time) PROVE Typed'
  <2>1. publish_orders' \in Seq(Nat)
    BY <1>11, EmptySeq DEF EventTick, Typed
  <2>. QED BY <1>11, <2>1 DEF EventTick, Typed, market, matching, engine, history
<1>12. CASE ClearRequests
  <2>1. requests' \in Seq(Nat)
    BY <1>12, EmptySeq DEF ClearRequests
  <2>. QED BY <1>12, <2>1 DEF ClearRequests, Typed, market, matching, engine, history
<1>13. CASE PublishOrders
  <2>1. publish_orders' \in Seq(Nat)
    BY <1>13, HeadTailProperties DEF PublishOrders, Typed
  <2>2. OpenIds \subseteq OfferIds \cup BidIds
    BY BookTypes DEF OpenIds
  <2>3. cached' \subseteq 0 .. LastSlot
        /\ seen' \subseteq [slot : 0 .. LastSlot, id : OfferIds \cup BidIds]
    <3>1. CASE mapping = NoMarket
      BY <1>13, <3>1 DEF PublishOrders, Typed
    <3>2. CASE mapping # NoMarket
      <4>1. mapping \in 0 .. LastSlot
        BY <3>2 DEF Typed
      <4>2. /\ cached' = cached \cup {mapping}
            /\ seen' = seen \cup {[slot |-> mapping, id |-> id] : id \in OpenIds}
        BY <1>13, <3>2 DEF PublishOrders
      <4>. QED BY <2>2, <4>1, <4>2 DEF Typed
    <3>. QED BY <3>1, <3>2
  <2>. QED BY <1>13, <2>1, <2>3 DEF PublishOrders, Typed, market, matching, history
<1>14. CASE EndPublish \/ NextTick
  BY <1>14 DEF EndPublish, NextTick, Typed, market, orders, matching, engine, history
<1>15. CASE MarketCycle
  <2>1. book' \in [Accounts -> Order]
    <3>1. \A a \in Accounts : [book[a] EXCEPT !.energy = 0] \in Order
      BY BookTypes DEF Order
    <3>2. book' = book \/ book' = [a \in Accounts |-> [book[a] EXCEPT !.energy = 0]]
      BY <1>15 DEF MarketCycle, market
    <3>. QED BY <3>1, <3>2 DEF Typed
  <2>2. slot' \in 0 .. LastSlot
    BY <1>15 DEF MarketCycle, Typed, market
  <2>3. cached' \subseteq 0 .. LastSlot
    BY <1>15 DEF MarketCycle, Typed, FinishedMarketsCleared
  <2>. QED BY <1>15, <2>1, <2>2, <2>3 DEF MarketCycle, Typed, matching, engine, history
<1>16. CASE UNCHANGED vars
  BY <1>16 DEF vars, market, orders, matching, engine, history, Typed
<1>. QED
  BY <1>1, <1>2, <1>3, <1>4, <1>5, <1>6, <1>7, <1>8, <1>9, <1>10, <1>11, <1>12, <1>13, <1>14,
     <1>15, <1>16 DEF Next
-----------------------------------------------------------------------------
(* The actions that leave the matcher alone: they touch neither its        *)
(* buffers nor what was traded and answered, and happen outside matching   *)
(* or leave pc and the book.                                               *)
Quiet ==
    /\ UNCHANGED <<matching, sent, trades, replies>>
    /\ \/ pc' \notin Matching /\ pc \notin Matching
       \/ pc' = pc /\ book' = book

LEMMA QuietSteps ==
    [Next]_vars =>
        \/ Quiet
        \/ StartTick \/ Validate \/ Cancel \/ Match \/ Reply
        \/ \E offer, bid \in seen, energy \in 1 .. MaxEnergy, fits \in BOOLEAN :
               PopulateRecommendations(offer, bid, energy, fits)
<1>. SUFFICES ASSUME [Next]_vars
              PROVE  \/ Quiet
                     \/ StartTick \/ Validate \/ Cancel \/ Match \/ Reply
                     \/ \E offer, bid \in seen, energy \in 1 .. MaxEnergy, fits \in BOOLEAN :
                            PopulateRecommendations(offer, bid, energy, fits)
  OBVIOUS
<1>1. CASE RequestOrders
  BY <1>1 DEF RequestOrders, Quiet, market, matching, history
<1>2. CASE UpdateMapping
  BY <1>2 DEF UpdateMapping, Quiet, market, matching, engine, history, Matching
<1>3. ASSUME NEW a \in Accounts, Post(a) \/ Withdraw(a) PROVE Quiet
  BY <1>3 DEF Post, Withdraw, Quiet, matching, engine, history, Matching
<1>4. ASSUME NEW is_time \in BOOLEAN, EventTick(is_time) PROVE Quiet
  BY <1>4 DEF EventTick, Quiet, market, matching, engine, history, Matching
<1>5. CASE ClearRequests
  BY <1>5 DEF ClearRequests, Quiet, market, matching, engine, history, Matching
<1>6. CASE PublishOrders
  BY <1>6 DEF PublishOrders, Quiet, market, matching, history, Matching
<1>7. CASE EndPublish \/ NextTick
  BY <1>7 DEF EndPublish, NextTick, Quiet, market, matching, engine, history, Matching
<1>8. CASE MarketCycle
  BY <1>8 DEF MarketCycle, Quiet, market, matching, engine, history, Matching
<1>9. CASE UNCHANGED vars
  BY <1>9 DEF vars, Quiet, market, matching, engine, history
<1>. QED
  BY <1>1, <1>2, <1>3, <1>4, <1>5, <1>6, <1>7, <1>8, <1>9 DEF Next
-----------------------------------------------------------------------------
LEMMA OpenMarketStep == Typed /\ Typed' /\ InOpenMarket /\ Numbered /\ [Next]_vars => InOpenMarket'
<1>. SUFFICES ASSUME Typed, Typed', InOpenMarket, Numbered, [Next]_vars PROVE InOpenMarket'
  OBVIOUS
<1>1. ASSUME NEW offer \in seen, NEW bid \in seen, NEW energy \in 1 .. MaxEnergy, NEW fits \in BOOLEAN,
             PopulateRecommendations(offer, bid, energy, fits)
      PROVE  InOpenMarket'
  BY <1>1 DEF PopulateRecommendations, InOpenMarket, OnlyOpenMarkets, market, orders
<1>2. CASE StartTick
  <2>1. report' = <<>> /\ pc' \in {"mapping", "validate"}
    BY <1>2 DEF StartTick
  <2>2. DOMAIN report' = {}
    BY <2>1
  <2>. QED BY <1>2, <2>1, <2>2 DEF StartTick, InOpenMarket, OnlyOpenMarkets, market, orders
<1>3. CASE Validate
  <2>1. pc = "validate" /\ pc' \in Matching
    BY <1>3 DEF Validate, Matching
  <2>2. \A i \in DOMAIN report' : report'[i].r.slot = slot
    <3>1. CASE report' = report
      BY <2>1, <3>1 DEF InOpenMarket, Matching
    <3>2. CASE report' # report
      <4>. DEFINE r == recommendations[Len(report) + 1]
      <4>1. report' = Append(report, [r |-> r, ok |-> OrdersExist(r)]) /\ r.slot \in cached
        BY <1>3, <3>2 DEF Validate, MarketExists
      <4>2. r.slot = slot
        BY <4>1 DEF InOpenMarket
      <4>. HIDE DEF r
      <4>3. report \in Seq(Reported) /\ Len(report) \in Nat
        BY DEF Typed
      <4>4. \A i \in DOMAIN report : report[i].r.slot = slot
        BY <2>1 DEF InOpenMarket, Matching
      <4>. QED BY <4>1, <4>2, <4>3, <4>4
    <3>. QED BY <3>1, <3>2
  <2>. QED BY <1>3, <2>1, <2>2 DEF Validate, InOpenMarket, OnlyOpenMarkets, Matching, market, orders
<1>4. CASE Match
  <2>1. matched + 1 \in DOMAIN report
    <3>1. matched \in Nat /\ matched < Len(report)
      BY <1>4 DEF Match, Typed
    <3>2. Len(report) \in Nat /\ DOMAIN report = 1 .. Len(report)
      BY ReportTypes
    <3>. QED BY <3>1, <3>2
  <2>2. \A i \in DOMAIN report : report[i].r.slot = slot
    BY <1>4 DEF Match, InOpenMarket, Matching
  <2>3. ~ failed'
    BY <1>4, <2>1, <2>2 DEF Match, InOpenMarket, OnlyOpenMarkets
  <2>4. DOMAIN report' = DOMAIN report /\ \A i \in DOMAIN report : report'[i].r = report[i].r
    BY <1>4, <2>1 DEF Match, Typed, Reported
  <2>. QED BY <1>4, <2>2, <2>3, <2>4 DEF Match, InOpenMarket, OnlyOpenMarkets, Matching, orders
<1>5. CASE Cancel \/ Reply
  BY <1>5 DEF Cancel, Reply, InOpenMarket, OnlyOpenMarkets, Matching, market, orders
<1>6. CASE RequestOrders \/ EndPublish \/ NextTick \/ ClearRequests \/ UpdateMapping
  BY <1>6 DEF RequestOrders, EndPublish, NextTick, ClearRequests, UpdateMapping, InOpenMarket,
              OnlyOpenMarkets, Matching, market, orders, matching
<1>7. ASSUME NEW a \in Accounts, Post(a) \/ Withdraw(a) PROVE InOpenMarket'
  BY <1>7 DEF Post, Withdraw, InOpenMarket, OnlyOpenMarkets, Matching, orders, matching
<1>8. ASSUME NEW is_time \in BOOLEAN, EventTick(is_time) PROVE InOpenMarket'
  BY <1>8 DEF EventTick, InOpenMarket, OnlyOpenMarkets, Matching, market, matching
<1>9. CASE PublishOrders
  BY <1>9 DEF PublishOrders, InOpenMarket, OnlyOpenMarkets, Matching, market, matching
<1>10. CASE MarketCycle
  <2>1. pc' \in {"tick", "finished"} /\ cached' \subseteq {slot'} /\ UNCHANGED failed
    BY <1>10 DEF MarketCycle, InOpenMarket, FinishedMarketsCleared, market, matching
  <2>. QED BY <2>1 DEF InOpenMarket, OnlyOpenMarkets, Matching
<1>11. CASE UNCHANGED vars
  BY <1>11 DEF vars, InOpenMarket, OnlyOpenMarkets, market, orders, matching
<1>. QED
  BY <1>1, <1>2, <1>3, <1>4, <1>5, <1>6, <1>7, <1>8, <1>9, <1>10, <1>11 DEF Next
-----------------------------------------------------------------------------
(* What the steps of the matcher do to its lists.                          *)

(* A recommendation arrives at the end of the buffer, with the next number. *)
LEMMA PopulateIs ==
    ASSUME Typed, NEW offer, NEW bid, NEW energy, NEW fits,
           PopulateRecommendations(offer, bid, energy, fits)
    PROVE  /\ sent' = sent + 1
           /\ DOMAIN recommendations' = 1 .. Len(recommendations) + 1
           /\ \A i \in DOMAIN recommendations : recommendations'[i] = recommendations[i]
           /\ recommendations'[Len(recommendations) + 1].n = sent + 1
           /\ UNCHANGED <<pc, book, report, matched, trades, replies>>
<1>. DEFINE r == [n |-> sent + 1, slot |-> offer.slot, offer |-> offer.id, bid |-> bid.id,
                  energy |-> energy, fits |-> fits]
<1>1. /\ recommendations' = Append(recommendations, r) /\ sent' = sent + 1
      /\ UNCHANGED <<pc, book, report, matched, trades, replies>>
  BY DEF PopulateRecommendations, market, history
<1>2. r.n = sent + 1
  OBVIOUS
<1>. HIDE DEF r
<1>3. recommendations \in Seq(Recommendation)
  BY DEF Typed
<1>. QED BY <1>1, <1>2, <1>3

(* Validating walks one recommendation on, stops at the end of the buffer, *)
(* or gives all of them up.                                                *)
LEMMA ValidateIs ==
    ASSUME Typed, Validate
    PROVE  /\ pc = "validate" /\ UNCHANGED <<book, recommendations, matched, sent, trades, replies>>
           /\ \/ pc' \in {"match", "cancel"} /\ report' = report
              \/ /\ pc' = "validate" /\ Len(report) + 1 \in DOMAIN recommendations
                 /\ DOMAIN report' = 1 .. Len(report) + 1 /\ Len(report') = Len(report) + 1
                 /\ \A i \in DOMAIN report : report'[i] = report[i]
                 /\ report'[Len(report) + 1].r = recommendations[Len(report) + 1]
                 /\ report'[Len(report) + 1].ok = OrdersExist(recommendations[Len(report) + 1])
<1>1. pc = "validate" /\ UNCHANGED <<book, recommendations, matched, sent, trades, replies>>
  BY DEF Validate, market, engine
<1>2. CASE Len(report) + 1 > Len(recommendations)
  BY <1>1, <1>2 DEF Validate
<1>3. CASE Len(report) + 1 <= Len(recommendations)
  <2>. DEFINE q == recommendations[Len(report) + 1]
              x == [r |-> q, ok |-> OrdersExist(q)]
  <2>0. ~ (Len(report) + 1 > Len(recommendations)) /\ Len(report) + 1 \in DOMAIN recommendations
    BY <1>3, ReportTypes
  <2>1. CASE MarketExists(q)
    <3>1. report' = Append(report, x) /\ pc' = "validate"
      BY <2>0, <2>1 DEF Validate
    <3>2. x.r = q /\ x.ok = OrdersExist(q)
      OBVIOUS
    <3>. HIDE DEF x, q
    <3>3. report \in Seq(Reported)
      BY DEF Typed
    <3>4. /\ DOMAIN report' = 1 .. Len(report) + 1 /\ Len(report') = Len(report) + 1
          /\ \A i \in DOMAIN report : report'[i] = report[i]
          /\ report'[Len(report) + 1] = x
      BY <3>1, <3>3
    <3>. QED BY <1>1, <2>0, <3>1, <3>2, <3>4 DEF q
  <2>2. CASE ~ MarketExists(q)
    BY <1>1, <2>0, <2>2 DEF Validate
  <2>. QED BY <2>1, <2>2
<1>. QED BY <1>2, <1>3, ReportTypes

(* A match changes the status of the next recommendation of the report.    *)
LEMMA MatchIs ==
    ASSUME Typed, Match
    PROVE  LET k == matched + 1
               r == report[k].r
               performed == report[k].ok /\ WereTradesPerformed(r)
           IN  /\ pc = "match" /\ UNCHANGED <<pc, recommendations, sent, replies>>
               /\ k \in DOMAIN report /\ matched' = k /\ DOMAIN report' = DOMAIN report
               /\ Len(report') = Len(report)
               /\ \A i \in DOMAIN report : report'[i].r = report[i].r
               /\ \A i \in DOMAIN report \ {k} : report'[i].ok = report[i].ok
               /\ report'[k].ok = performed
               /\ trades' = IF performed
                            THEN trades \cup {[n |-> r.n, offer |-> Id(r.offer[1], CurrentOrder(r.offer)),
                                                bid |-> Id(r.bid[1], CurrentOrder(r.bid))]}
                            ELSE trades
               /\ \A a \in Accounts : book'[a].post = book[a].post
<1>. DEFINE k == matched + 1
           r == report[k].r
           performed == report[k].ok /\ WereTradesPerformed(r)
<1>1. /\ pc = "match" /\ UNCHANGED <<pc, recommendations, sent, replies>>
      /\ matched < Len(report) /\ matched' = matched + 1
  BY DEF Match, engine
<1>2. k \in DOMAIN report
  BY <1>1, ReportTypes DEF Typed
<1>3. r \in Recommendation
  BY <1>2, ReportTypes
<1>4. report' = [report EXCEPT ![k].ok = performed]
  BY DEF Match, ReportedStatus
<1>5. trades' = IF performed
                THEN trades \cup {[n |-> r.n, offer |-> Id(r.offer[1], CurrentOrder(r.offer)),
                                    bid |-> Id(r.bid[1], CurrentOrder(r.bid))]}
                ELSE trades
  BY DEF Match
<1>6. \A a \in Accounts : book'[a].post = book[a].post
  <2>1. CASE ~ performed
    BY <2>1 DEF Match
  <2>2. CASE performed
    <3>. DEFINE e == MatchedEnergy(r)
    <3>1. book' = [book EXCEPT ![r.offer[1]] = Residual(@, e), ![r.bid[1]] = Residual(@, e)]
      BY <2>2 DEF Match
    <3>2. r.offer[1] \in Accounts /\ r.bid[1] \in Accounts /\ r.offer[1] # r.bid[1]
      BY <1>3, RecommendationTypes
    <3>3. e \in Nat /\ book[r.offer[1]].energy - e \in Nat /\ book[r.bid[1]].energy - e \in Nat
      BY <1>3, <2>2, MatchedEnergyIs, RecommendationTypes DEF WereTradesPerformed
    <3>. HIDE DEF e, r
    <3>4. /\ Residual(book[r.offer[1]], e).post = book[r.offer[1]].post
          /\ Residual(book[r.bid[1]], e).post = book[r.bid[1]].post
      BY <3>2, <3>3, BookTypes, ResidualIs
    <3>. QED BY <3>1, <3>2, <3>4 DEF Typed
  <2>. QED BY <2>1, <2>2
<1>7. /\ DOMAIN report' = DOMAIN report /\ Len(report') = Len(report)
      /\ \A i \in DOMAIN report : report'[i].r = report[i].r
      /\ \A i \in DOMAIN report \ {k} : report'[i].ok = report[i].ok
      /\ report'[k].ok = performed
  <2>. HIDE DEF performed, k
  <2>1. report \in Seq(Reported)
    BY DEF Typed
  <2>2. \A i \in DOMAIN report : report[i] \in Reported
    BY <2>1
  <2>3. report' = [i \in DOMAIN report |-> IF i = k THEN [report[k] EXCEPT !.ok = performed] ELSE report[i]]
    BY <1>2, <1>4, <2>1
  <2>. QED BY <1>2, <2>1, <2>2, <2>3 DEF Reported
<1>. QED BY <1>1, <1>2, <1>4, <1>5, <1>6, <1>7

(* The replies get the numbers of the report, with a status for each.      *)
LEMMA AnswerIs ==
    ASSUME Typed, Cancel \/ Reply
    PROVE  /\ pc' = "mapping" /\ recommendations' = <<>> /\ DOMAIN recommendations' = {}
           /\ UNCHANGED <<book, report, matched, sent, trades>>
           /\ DOMAIN replies' = 1 .. Len(replies) + Len(report)
           /\ \A i \in DOMAIN replies : replies'[i] = replies[i]
           /\ \A i \in DOMAIN report : replies'[Len(replies) + i].n = report[i].r.n
           /\ Cancel => \A i \in DOMAIN report : ~ replies'[Len(replies) + i].ok
           /\ Reply => \A i \in DOMAIN report : replies'[Len(replies) + i].ok = report[i].ok
<1>1. /\ pc' = "mapping" /\ recommendations' = <<>>
      /\ UNCHANGED <<book, report, matched, sent, trades>>
  BY DEF Cancel, Reply, market, engine
<1>2. PICK status \in [DOMAIN report -> BOOLEAN] :
         /\ replies' = replies \o [i \in DOMAIN report |-> [n |-> report[i].r.n, ok |-> status[i]]]
         /\ Cancel => \A i \in DOMAIN report : ~ status[i]
         /\ Reply => \A i \in DOMAIN report : status[i] = report[i].ok
  <2>1. CASE Cancel
    <3>. DEFINE no == [i \in DOMAIN report |-> FALSE]
    <3>1. replies' = replies \o [i \in DOMAIN report |-> [n |-> report[i].r.n, ok |-> no[i]]]
      BY <2>1 DEF Cancel
    <3>2. ~ Reply
      BY <2>1 DEF Cancel, Reply
    <3>3. no \in [DOMAIN report -> BOOLEAN] /\ \A i \in DOMAIN report : ~ no[i]
      OBVIOUS
    <3>. HIDE DEF no
    <3>. QED BY <3>1, <3>2, <3>3
  <2>2. CASE Reply
    <3>. DEFINE yes == [i \in DOMAIN report |-> report[i].ok]
    <3>1. replies' = replies \o [i \in DOMAIN report |-> [n |-> report[i].r.n, ok |-> yes[i]]]
      BY <2>2 DEF Reply
    <3>2. ~ Cancel
      BY <2>2 DEF Cancel, Reply
    <3>3. yes \in [DOMAIN report -> BOOLEAN] /\ \A i \in DOMAIN report : yes[i] = report[i].ok
      BY ReportTypes
    <3>. HIDE DEF yes
    <3>. QED BY <3>1, <3>2, <3>3
  <2>. QED BY <2>1, <2>2
<1>. DEFINE answer == [i \in DOMAIN report |-> [n |-> report[i].r.n, ok |-> status[i]]]
<1>3. answer \in Seq(Answer) /\ Len(answer) = Len(report)
  <2>1. \A i \in 1 .. Len(report) : [n |-> report[i].r.n, ok |-> status[i]] \in Answer
    BY ReportTypes, RecommendationTypes DEF Answer
  <2>. QED BY <2>1, ReportTypes, IsASeq
<1>4. \A i \in DOMAIN report : answer[i].n = report[i].r.n /\ answer[i].ok = status[i]
  OBVIOUS
<1>5. replies' = replies \o answer
  BY <1>2
<1>. HIDE DEF answer
<1>6. replies \in Seq(Answer)
  BY DEF Typed
<1>7. /\ DOMAIN replies' = 1 .. Len(replies) + Len(report)
      /\ \A i \in DOMAIN replies : replies'[i] = replies[i]
      /\ \A i \in DOMAIN report : replies'[Len(replies) + i] = answer[i]
  <2>1. /\ Len(replies') = Len(replies) + Len(report) /\ replies' \in Seq(Answer)
        /\ \A i \in 1 .. Len(replies) + Len(report) :
              replies'[i] = IF i <= Len(replies) THEN replies[i] ELSE answer[i - Len(replies)]
    BY <1>3, <1>5, <1>6, ConcatProperties
  <2>2. \A i \in DOMAIN report : /\ Len(replies) + i \in 1 .. Len(replies) + Len(report)
                               /\ ~ (Len(replies) + i <= Len(replies))
                               /\ Len(replies) + i - Len(replies) = i
    BY ReportTypes
  <2>. QED BY <2>1, <2>2, ReportTypes
<1>8. \A i \in DOMAIN report : /\ replies'[Len(replies) + i].n = report[i].r.n
                             /\ replies'[Len(replies) + i].ok = status[i]
  BY <1>4, <1>7
<1>9. /\ Cancel => \A i \in DOMAIN report : ~ status[i]
      /\ Reply => \A i \in DOMAIN report : status[i] = report[i].ok
  BY <1>2
<1>10. DOMAIN recommendations' = {}
  BY <1>1
<1>. QED BY <1>1, <1>7, <1>8, <1>9, <1>10
-----------------------------------------------------------------------------
LEMMA NumberedStep == Typed /\ Typed' /\ Numbered /\ [Next]_vars => Numbered'
<1>. SUFFICES ASSUME Typed, Typed', Numbered, [Next]_vars PROVE Numbered'
  OBVIOUS
<1>0. /\ sent \in Nat /\ matched \in Nat
      /\ \A i \in DOMAIN recommendations : recommendations[i].n \in Nat
      /\ \A i \in DOMAIN report : report[i].r.n \in Nat
      /\ \A i \in DOMAIN replies : replies[i].n \in Nat
  <2>1. sent \in Nat /\ matched \in Nat
    BY DEF Typed
  <2>2. /\ \A i \in DOMAIN recommendations : recommendations[i] \in Recommendation
        /\ \A i \in DOMAIN report : report[i].r \in Recommendation
        /\ \A i \in DOMAIN replies : replies[i].n \in Nat
    BY ReportTypes
  <2>3. /\ \A i \in DOMAIN recommendations : recommendations[i].n \in Nat
        /\ \A i \in DOMAIN report : report[i].r.n \in Nat
    BY <2>2, RecommendationTypes
  <2>. QED BY <2>1, <2>2, <2>3
<1>1. ASSUME NEW offer \in seen, NEW bid \in seen, NEW energy \in 1 .. MaxEnergy, NEW fits \in BOOLEAN,
             PopulateRecommendations(offer, bid, energy, fits)
      PROVE  Numbered'
  <2>1. /\ sent' = sent + 1
        /\ DOMAIN recommendations' = 1 .. Len(recommendations) + 1
        /\ \A i \in DOMAIN recommendations : recommendations'[i] = recommendations[i]
        /\ recommendations'[Len(recommendations) + 1].n = sent + 1
        /\ UNCHANGED <<pc, report, replies>>
    BY <1>1, PopulateIs
  <2>2. Len(recommendations') = Len(recommendations) + 1
    BY <2>1, ReportTypes, LenProperties DEF Typed
  <2>3. \A j \in DOMAIN recommendations' :
           j \in DOMAIN recommendations \/ j = Len(recommendations) + 1
    BY <2>1, ReportTypes
  <2>4. \A i, j \in DOMAIN recommendations' : i < j => recommendations'[i].n < recommendations'[j].n
    BY <1>0, <2>1, <2>3, ReportTypes DEF Numbered
  <2>5. \A i \in DOMAIN recommendations' : recommendations'[i].n <= sent'
    BY <1>0, <2>1, <2>3 DEF Numbered
  <2>6. CASE pc \in Matching
    <3>1. Len(report) <= Len(recommendations) /\ \A i \in DOMAIN report : report[i].r = recommendations[i]
      BY <2>6 DEF Numbered
    <3>2. Len(report') <= Len(recommendations') /\ \A i \in DOMAIN report' : report'[i].r = recommendations'[i]
      BY <2>1, <2>2, <3>1, ReportTypes
    <3>3. pc' \in Matching
      BY <2>1, <2>6
    <3>4. \A i \in DOMAIN replies, j \in DOMAIN recommendations' : replies[i].n < recommendations'[j].n
      BY <1>0, <2>1, <2>3 DEF Numbered
    <3>. QED BY <1>0, <2>1, <2>4, <2>5, <3>2, <3>3, <3>4 DEF Numbered
  <2>7. CASE pc \notin Matching
    <3>1. \A i \in DOMAIN report, j \in DOMAIN recommendations' : report[i].r.n < recommendations'[j].n
      BY <1>0, <2>1, <2>3, <2>7 DEF Numbered
    <3>2. \A i \in DOMAIN replies, j \in DOMAIN recommendations' : replies[i].n < recommendations'[j].n
      BY <1>0, <2>1, <2>3 DEF Numbered
    <3>3. pc' \notin Matching
      BY <2>1, <2>7
    <3>. QED BY <1>0, <2>1, <2>4, <2>5, <3>1, <3>2, <3>3 DEF Numbered
  <2>. QED BY <2>6, <2>7
<1>2. CASE StartTick
  <2>1. /\ report' = <<>> /\ pc' \in {"mapping", "validate"} /\ UNCHANGED <<recommendations, sent, replies>>
    BY <1>2 DEF StartTick, engine, history
  <2>2. DOMAIN report' = {} /\ Len(report') = 0
    BY <2>1
  <2>. QED BY <2>1, <2>2, ReportTypes DEF Numbered
<1>3. CASE Validate
  <2>1. pc \in Matching /\ pc' \in Matching /\ UNCHANGED <<recommendations, sent, replies>>
    BY <1>3, ValidateIs DEF Matching
  <2>2. CASE report' = report
    BY <2>1, <2>2 DEF Numbered
  <2>3. CASE report' # report
    <3>1. /\ Len(report) + 1 \in DOMAIN recommendations
          /\ DOMAIN report' = 1 .. Len(report) + 1 /\ Len(report') = Len(report) + 1
          /\ \A i \in DOMAIN report : report'[i] = report[i]
          /\ report'[Len(report) + 1].r = recommendations[Len(report) + 1]
      BY <1>3, <2>3, ValidateIs
    <3>2. \A i \in DOMAIN report' : i \in DOMAIN recommendations /\ report'[i].r = recommendations[i]
      BY <2>1, <3>1, ReportTypes DEF Numbered
    <3>3. \A i, j \in DOMAIN recommendations : recommendations[i].n = recommendations[j].n => i = j
      BY <1>0, ReportTypes DEF Numbered
    <3>4. Len(report') <= Len(recommendations')
      BY <2>1, <3>1, ReportTypes
    <3>. QED BY <2>1, <3>2, <3>3, <3>4 DEF Numbered
  <2>. QED BY <2>2, <2>3
<1>4. CASE Match
  <2>1. /\ pc = "match" /\ UNCHANGED <<pc, recommendations, sent, replies>>
        /\ DOMAIN report' = DOMAIN report /\ Len(report') = Len(report)
        /\ \A i \in DOMAIN report : report'[i].r = report[i].r
    BY <1>4, MatchIs
  <2>. QED BY <2>1 DEF Numbered, Matching
<1>5. CASE Cancel \/ Reply
  <2>1. /\ pc' = "mapping" /\ DOMAIN recommendations' = {} /\ UNCHANGED <<report, sent>>
        /\ DOMAIN replies' = 1 .. Len(replies) + Len(report)
        /\ \A i \in DOMAIN replies : replies'[i] = replies[i]
        /\ \A i \in DOMAIN report : replies'[Len(replies) + i].n = report[i].r.n
    BY <1>5, AnswerIs
  <2>2. \A i \in DOMAIN replies' :
           i \in DOMAIN replies \/ \E j \in DOMAIN report : i = Len(replies) + j
    <3>1. \A i \in DOMAIN replies' :
             \/ i \in 1 .. Len(replies)
             \/ i - Len(replies) \in 1 .. Len(report) /\ i = Len(replies) + (i - Len(replies))
      BY <2>1, ReportTypes
    <3>. QED BY <3>1, ReportTypes
  <2>3. \A i \in DOMAIN replies' : replies'[i].n <= sent
    BY <2>1, <2>2 DEF Numbered
  <2>. QED BY <2>1, <2>3 DEF Numbered, Matching
<1>6. CASE Quiet
  BY <1>6 DEF Quiet, Numbered, matching
<1>. QED
  BY <1>1, <1>2, <1>3, <1>4, <1>5, <1>6, QuietSteps
-----------------------------------------------------------------------------
(* Orders that exist belong to the post of their account.                  *)
LEMMA OrdersExistIs ==
    ASSUME Typed, NEW r \in Recommendation, OrdersExist(r)
    PROVE  book[r.offer[1]].post = r.offer[2] /\ book[r.bid[1]].post = r.bid[2]
<1>1. PICK a \in Accounts : r.offer = Id(a, book[a])
  BY DEF OrdersExist, OpenIds
<1>2. PICK b \in Accounts : r.bid = Id(b, book[b])
  BY DEF OrdersExist, OpenIds
<1>. QED BY <1>1, <1>2 DEF Id

LEMMA TradedStep ==
    Typed /\ Typed' /\ Numbered /\ TradedAsMarked /\ [Next]_vars => TradedAsMarked'
<1>. SUFFICES ASSUME Typed, Typed', Numbered, TradedAsMarked, [Next]_vars
              PROVE  TradedAsMarked'
  OBVIOUS
<1>0. /\ sent \in Nat /\ matched \in Nat
      /\ \A i \in DOMAIN recommendations : recommendations[i].n \in Nat
      /\ \A i \in DOMAIN report : report[i].r.n \in Nat /\ report[i].r \in Recommendation
      /\ \A i \in DOMAIN report : report[i].r.offer[1] \in Accounts /\ report[i].r.bid[1] \in Accounts
      /\ \A i \in DOMAIN replies : replies[i].n \in Nat
  <2>1. sent \in Nat /\ matched \in Nat
    BY DEF Typed
  <2>2. /\ \A i \in DOMAIN recommendations : recommendations[i] \in Recommendation
        /\ \A i \in DOMAIN report : report[i].r \in Recommendation
        /\ \A i \in DOMAIN replies : replies[i].n \in Nat
    BY ReportTypes
  <2>3. /\ \A i \in DOMAIN recommendations : recommendations[i].n \in Nat
        /\ \A i \in DOMAIN report : report[i].r.n \in Nat
        /\ \A i \in DOMAIN report : report[i].r.offer[1] \in Accounts /\ report[i].r.bid[1] \in Accounts
    BY <2>2, RecommendationTypes
  <2>. QED BY <2>1, <2>2, <2>3
<1>1. ASSUME NEW offer \in seen, NEW bid \in seen, NEW energy \in 1 .. MaxEnergy, NEW fits \in BOOLEAN,
             PopulateRecommendations(offer, bid, energy, fits)
      PROVE  TradedAsMarked'
  <2>1. /\ sent' = sent + 1
        /\ DOMAIN recommendations' = 1 .. Len(recommendations) + 1
        /\ \A i \in DOMAIN recommendations : recommendations'[i] = recommendations[i]
        /\ recommendations'[Len(recommendations) + 1].n = sent + 1
        /\ UNCHANGED <<pc, book, report, matched, trades, replies>>
    BY <1>1, PopulateIs
  <2>2. \A j \in DOMAIN recommendations' :
           j \in DOMAIN recommendations \/ j = Len(recommendations) + 1
    BY <2>1, ReportTypes
  <2>3. \A t \in trades : t.n \in Nat /\ t.n <= sent'
    BY <1>0, <2>1 DEF TradedAsMarked
  <2>4. \A t \in trades, j \in DOMAIN recommendations' :
           t.n = recommendations'[j].n => pc = "match" /\ j <= matched
    BY <1>0, <2>1, <2>2 DEF TradedAsMarked
  <2>. QED BY <2>1, <2>3, <2>4 DEF TradedAsMarked, RepliesAreTrue
<1>2. CASE StartTick
  <2>1. /\ report' = <<>> /\ pc' \in {"mapping", "validate"} /\ pc = "tick" /\ matched' = 0
        /\ UNCHANGED <<recommendations, sent, replies, trades>>
    BY <1>2 DEF StartTick, engine, history
  <2>2. DOMAIN report' = {}
    BY <2>1
  <2>. QED BY <2>1, <2>2 DEF TradedAsMarked, RepliesAreTrue
<1>3. CASE Validate
  <2>1. /\ pc = "validate" /\ pc' \in {"validate", "match", "cancel"} /\ matched = 0
        /\ UNCHANGED <<book, recommendations, matched, sent, trades, replies>>
    BY <1>3, ValidateIs DEF TradedAsMarked
  <2>2. \A t \in trades, j \in DOMAIN recommendations : t.n # recommendations[j].n
    BY <2>1 DEF TradedAsMarked
  <2>3. CASE report' = report
    BY <2>1, <2>2, <2>3 DEF TradedAsMarked, RepliesAreTrue
  <2>4. CASE report' # report
    <3>. DEFINE q == recommendations[Len(report) + 1]
    <3>1. /\ Len(report) + 1 \in DOMAIN recommendations /\ pc' = "validate"
          /\ DOMAIN report' = 1 .. Len(report) + 1
          /\ \A i \in DOMAIN report : report'[i] = report[i]
          /\ report'[Len(report) + 1].r = q /\ report'[Len(report) + 1].ok = OrdersExist(q)
      BY <1>3, <2>4, ValidateIs
    <3>2. q \in Recommendation
      BY <3>1, ReportTypes
    <3>3. OrdersExist(q) => book[q.offer[1]].post = q.offer[2] /\ book[q.bid[1]].post = q.bid[2]
      BY <3>2, OrdersExistIs
    <3>4. \A t \in trades : t.n # q.n
      BY <2>2, <3>1
    <3>. HIDE DEF q
    <3>5. \A i \in DOMAIN report' : i \in DOMAIN report \/ i = Len(report) + 1
      BY <3>1, ReportTypes
    <3>6. \A i \in DOMAIN report' : report'[i].ok =>
             /\ book[report'[i].r.offer[1]].post = report'[i].r.offer[2]
             /\ book[report'[i].r.bid[1]].post = report'[i].r.bid[2]
      BY <2>1, <3>1, <3>3, <3>5 DEF TradedAsMarked
    <3>7. \A t \in trades, i \in DOMAIN report' : t.n = report'[i].r.n => Follows(t, report'[i].r)
      BY <3>1, <3>4, <3>5 DEF TradedAsMarked
    <3>. QED BY <2>1, <2>2, <3>1, <3>6, <3>7 DEF TradedAsMarked, RepliesAreTrue
  <2>. QED BY <2>3, <2>4
<1>4. CASE Match
  <2>. DEFINE k == matched + 1
              r == report[k].r
              performed == report[k].ok /\ WereTradesPerformed(r)
              trade == [n |-> r.n, offer |-> Id(r.offer[1], CurrentOrder(r.offer)),
                        bid |-> Id(r.bid[1], CurrentOrder(r.bid))]
  <2>1. /\ pc = "match" /\ UNCHANGED <<pc, recommendations, sent, replies>>
        /\ k \in DOMAIN report /\ matched' = k /\ DOMAIN report' = DOMAIN report
        /\ \A i \in DOMAIN report : report'[i].r = report[i].r
        /\ \A i \in DOMAIN report \ {k} : report'[i].ok = report[i].ok
        /\ report'[k].ok = performed
        /\ trades' = IF performed THEN trades \cup {trade} ELSE trades
        /\ \A a \in Accounts : book'[a].post = book[a].post
    BY <1>4, MatchIs
  <2>2. /\ trade.n = r.n
        /\ report[k].ok => Follows(trade, r)
    BY <2>1 DEF TradedAsMarked, Follows, Id, CurrentOrder
  <2>3. performed \in BOOLEAN /\ performed => report[k].ok
    BY <2>1, ReportTypes DEF WereTradesPerformed
  <2>4. k \in DOMAIN recommendations /\ recommendations[k] = r
    BY <2>1, ReportTypes DEF Numbered, Matching
  <2>5. \A t \in trades : t.n # r.n
    BY <1>0, <2>1, <2>4 DEF TradedAsMarked
  <2>6. \A i \in DOMAIN report : report[i].r.n = r.n => i = k
    BY <2>1 DEF Numbered
  <2>7. \A j \in DOMAIN recommendations : recommendations[j].n = r.n => j = k
    BY <1>0, <2>4, ReportTypes DEF Numbered
  <2>8. r.n \in Nat /\ r.n <= sent /\ \A i \in DOMAIN replies : replies[i].n < r.n
    BY <1>0, <2>1, <2>4 DEF Numbered
  <2>. HIDE DEF trade, performed, r
  <2>9. \A t \in trades' : t \in trades \/ (performed /\ t = trade)
    BY <2>1
  <2>10. \A i \in DOMAIN report' : report'[i].ok =>
             /\ book'[report'[i].r.offer[1]].post = report'[i].r.offer[2]
             /\ book'[report'[i].r.bid[1]].post = report'[i].r.bid[2]
    <3>. SUFFICES ASSUME NEW i \in DOMAIN report, report'[i].ok
                  PROVE  /\ book'[report[i].r.offer[1]].post = report[i].r.offer[2]
                         /\ book'[report[i].r.bid[1]].post = report[i].r.bid[2]
      BY <2>1
    <3>1. report[i].ok
      BY <2>1, <2>3
    <3>. QED BY <1>0, <2>1, <3>1 DEF TradedAsMarked
  <2>11. \A t \in trades' : t.n \in Nat /\ t.n <= sent
    BY <2>2, <2>8, <2>9 DEF TradedAsMarked
  <2>12. \A t \in trades', i \in DOMAIN report : t.n = report[i].r.n => Follows(t, report[i].r)
    BY <2>2, <2>3, <2>6, <2>9 DEF TradedAsMarked, r
  <2>13. \A t \in trades', j \in DOMAIN recommendations :
            t.n = recommendations[j].n => j <= matched'
    BY <1>0, <2>1, <2>2, <2>7, <2>9, ReportTypes DEF TradedAsMarked
  <2>14. \A i \in 1 .. matched' : report'[i].ok <=> \E t \in trades' : t.n = report'[i].r.n
    <3>. SUFFICES ASSUME NEW i \in 1 .. matched'
                  PROVE  report'[i].ok <=> \E t \in trades' : t.n = report'[i].r.n
      OBVIOUS
    <3>1. i \in DOMAIN report /\ (i = k \/ (i \in 1 .. matched /\ i # k))
      BY <1>0, <2>1, ReportTypes
    <3>2. CASE i = k
      BY <2>1, <2>2, <2>3, <2>5, <2>9, <3>1, <3>2 DEF r
    <3>3. CASE i \in 1 .. matched /\ i # k
      <4>1. report'[i].ok = report[i].ok /\ report'[i].r = report[i].r
        BY <2>1, <3>1, <3>3
      <4>2. report[i].ok <=> \E t \in trades : t.n = report[i].r.n
        BY <2>1, <3>3 DEF TradedAsMarked
      <4>3. report[i].r.n # r.n
        BY <2>6, <3>1, <3>3
      <4>4. (\E t \in trades : t.n = report[i].r.n) <=> (\E t \in trades' : t.n = report[i].r.n)
        BY <2>1, <2>2, <4>3
      <4>5. report[i].ok \in BOOLEAN
        BY <3>1, ReportTypes
      <4>. QED BY <4>1, <4>2, <4>4, <4>5
    <3>. QED BY <3>1, <3>2, <3>3
  <2>15. \A i \in DOMAIN replies : (\E t \in trades : t.n = replies[i].n) <=> (\E t \in trades' : t.n = replies[i].n)
    BY <1>0, <2>1, <2>2, <2>8
  <2>16. RepliesAreTrue'
    BY <2>1, <2>15 DEF TradedAsMarked, RepliesAreTrue
  <2>. QED BY <2>1, <2>10, <2>11, <2>12, <2>13, <2>14, <2>16 DEF TradedAsMarked
<1>5. CASE Cancel \/ Reply
  <2>1. /\ pc' = "mapping" /\ DOMAIN recommendations' = {}
        /\ UNCHANGED <<book, report, matched, sent, trades>>
        /\ DOMAIN replies' = 1 .. Len(replies) + Len(report)
        /\ \A i \in DOMAIN replies : replies'[i] = replies[i]
        /\ \A i \in DOMAIN report : replies'[Len(replies) + i].n = report[i].r.n
    BY <1>5, AnswerIs
  <2>2. \A i \in DOMAIN replies' :
           i \in DOMAIN replies \/ \E j \in DOMAIN report : i = Len(replies) + j
    <3>1. \A i \in DOMAIN replies' :
             \/ i \in 1 .. Len(replies)
             \/ i - Len(replies) \in 1 .. Len(report) /\ i = Len(replies) + (i - Len(replies))
      BY <2>1, ReportTypes
    <3>. QED BY <3>1, ReportTypes
  <2>3. \A i \in DOMAIN report : i \in DOMAIN recommendations /\ recommendations[i] = report[i].r
    <3>1. pc \in Matching
      BY <1>5 DEF Cancel, Reply, Matching
    <3>. QED BY <3>1, ReportTypes DEF Numbered
  <2>4. \A i \in DOMAIN report :
           replies'[Len(replies) + i].ok <=> \E t \in trades : t.n = report[i].r.n
    <3>1. CASE Cancel
      <4>1. pc = "cancel"
        BY <3>1 DEF Cancel
      <4>2. \A i \in DOMAIN report : ~ \E t \in trades : t.n = report[i].r.n
        BY <2>3, <4>1 DEF TradedAsMarked
      <4>3. \A i \in DOMAIN report : ~ replies'[Len(replies) + i].ok
        BY <3>1, AnswerIs
      <4>. QED BY <4>2, <4>3
    <3>2. CASE Reply
      <4>1. pc = "match" /\ matched = Len(report)
        BY <3>2 DEF Reply
      <4>2. \A i \in DOMAIN report : replies'[Len(replies) + i].ok = report[i].ok
        BY <3>2, AnswerIs
      <4>3. \A i \in DOMAIN report : report[i].ok <=> \E t \in trades : t.n = report[i].r.n
        BY <4>1, ReportTypes DEF TradedAsMarked
      <4>. QED BY <4>2, <4>3
    <3>. QED BY <1>5, <3>1, <3>2
  <2>5. \A i \in DOMAIN replies' : replies'[i].ok <=> \E t \in trades : t.n = replies'[i].n
    BY <2>1, <2>2, <2>4 DEF TradedAsMarked, RepliesAreTrue
  <2>6. \A i, j \in DOMAIN replies' : replies'[i].n = replies'[j].n => i = j
    <3>1. \A i \in DOMAIN replies, j \in DOMAIN report : replies[i].n # report[j].r.n
      BY <1>0, <2>3 DEF Numbered
    <3>2. \A i, j \in DOMAIN report : report[i].r.n = report[j].r.n => i = j
      BY DEF Numbered
    <3>. QED BY <2>1, <2>2, <3>1, <3>2 DEF TradedAsMarked, RepliesAreTrue
  <2>7. RepliesAreTrue'
    BY <2>1, <2>5, <2>6 DEF RepliesAreTrue
  <2>. QED BY <2>1, <2>7 DEF TradedAsMarked
<1>6. CASE Quiet
  <2>1. UNCHANGED <<recommendations, report, matched, failed, sent, trades, replies>>
    BY <1>6 DEF Quiet, matching
  <2>2. CASE pc' \notin Matching /\ pc \notin Matching
    BY <2>1, <2>2 DEF TradedAsMarked, RepliesAreTrue, Matching
  <2>3. CASE pc' = pc /\ book' = book
    BY <2>1, <2>3 DEF TradedAsMarked, RepliesAreTrue
  <2>. QED BY <1>6, <2>2, <2>3 DEF Quiet
<1>. QED
  BY <1>1, <1>2, <1>3, <1>4, <1>5, <1>6, QuietSteps
-----------------------------------------------------------------------------
LEMMA MatcherInvStarts == Init => MatcherInv
<1>. SUFFICES ASSUME Init PROVE MatcherInv
  OBVIOUS
<1>1. /\ recommendations = <<>> /\ report = <<>> /\ replies = <<>> /\ trades = {}
      /\ pc = "tick" /\ matched = 0 /\ ~ failed /\ cached = {} /\ sent = 0
  BY DEF Init
<1>2. DOMAIN recommendations = {} /\ DOMAIN report = {} /\ DOMAIN replies = {} /\ Len(report) = 0
  BY <1>1
<1>3. NoOrder \in Order
  BY DEF NoOrder, Order
<1>4. recommendations \in Seq(Recommendation) /\ report \in Seq(Reported) /\ replies \in Seq(Answer)
      /\ publish_orders \in Seq(Nat) /\ requests \in Seq(Nat)
  BY EmptySeq DEF Init
<1>5. book \in [Accounts -> Order]
  BY <1>3 DEF Init
<1>6. Typed
  BY <1>2, <1>4, <1>5 DEF Init, Typed
<1>7. InOpenMarket
  BY <1>1, <1>2 DEF InOpenMarket, OnlyOpenMarkets, Matching
<1>8. Numbered
  BY <1>1, <1>2 DEF Numbered, Matching
<1>9. TradedAsMarked
  BY <1>1, <1>2 DEF TradedAsMarked, RepliesAreTrue
<1>. QED BY <1>6, <1>7, <1>8, <1>9 DEF MatcherInv

LEMMA MatcherInvHolds == Spec => []MatcherInv
<1>1. MatcherInv /\ [Next]_vars => MatcherInv'
  BY TypedStep, OpenMarketStep, NumberedStep, TradedStep DEF MatcherInv
<1>. QED BY <1>1, MatcherInvStarts, PTL DEF Spec

(* Every recommendation gets at most one answer, and the answer is success *)
(* exactly if it was traded (match_recommendations).                       *)
THEOREM RepliesAreTrueTheorem == Spec => []RepliesAreTrue
<1>1. MatcherInv => RepliesAreTrue
  BY DEF MatcherInv, TradedAsMarked
<1>. QED BY <1>1, MatcherInvHolds, PTL

(* The matcher only ever matches in the market that is open, whatever the  *)
(* engine recommends and however late (event_market_cycle), and what is    *)
(* traded is what was recommended, or a residual left by another match,    *)
(* never an order that the same trader posted later                        *)
(* (match_recommendations).                                                *)
THEOREM TradesAsRecommendedTheorem == Spec => []TradesAsRecommended
<1>1. MatcherInv => TradesWhatWasRecommended
  <2>. SUFFICES ASSUME MatcherInv, NEW t \in trades, NEW r \in Sent, r.n = t.n
                PROVE  Follows(t, r)
    BY DEF TradesWhatWasRecommended, Follows
  <2>. USE DEF MatcherInv
  <2>1. CASE \E i \in DOMAIN report : r = report[i].r
    BY <2>1 DEF TradedAsMarked
  <2>2. CASE \E j \in DOMAIN recommendations : r = recommendations[j]
    <3>1. PICK j \in DOMAIN recommendations : r = recommendations[j]
      BY <2>2
    <3>2. pc = "match" /\ j <= matched
      BY <3>1 DEF TradedAsMarked
    <3>3. j \in DOMAIN report
      BY <3>2, ReportTypes DEF Typed
    <3>4. r = report[j].r
      BY <3>1, <3>2, <3>3 DEF Numbered, Matching
    <3>. QED BY <3>3, <3>4 DEF TradedAsMarked
  <2>. QED BY <2>1, <2>2 DEF Sent, ToSet
<1>2. MatcherInv => TradesAsRecommended
  BY <1>1 DEF MatcherInv, InOpenMarket, TradesAsRecommended
<1>. QED BY <1>2, MatcherInvHolds, PTL
=============================================================================
