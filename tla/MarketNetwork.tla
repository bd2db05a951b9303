--------------------------- MODULE MarketNetwork ----------------------------
(***************************************************************************)
(* The spot markets of one time slot and the market agents that join them. *)
(*                                                                         *)
(* Every area with children has a market, and a market agent that connects *)
(* it to the market of its parent.  An agent has two engines, one per      *)
(* direction; an engine copies ("forwards") the orders of its source       *)
(* market into its target market and, when a copy is traded there, trades  *)
(* the original in the source market.  The markets call the engines        *)
(* synchronously through events and the engines call the markets back, so  *)
(* one trade is a cascade of nested calls.  The variable calls is the call *)
(* stack of that cascade: a frame is a call still to be made, the listeners*)
(* of an event that still have to hear of it, or the rest of a handler     *)
(* after a nested call.  Listeners are called in random order, as in the   *)
(* code.                                                                   *)
(*                                                                         *)
(* Energy is an integer; prices, fees and the choice of the matching       *)
(* algorithm are abstracted: any offer and bid of a market may be matched. *)
(***************************************************************************)
EXTENDS Integers, Sequences, FiniteSets, FiniteSetsExt

CONSTANTS
    Markets, Agents, Assets,
    Lower, Higher,   \* the two markets of an agent
    Home,            \* the market an asset trades in
    Energies,        \* the energies of posted orders
    Settings         \* the settings to consider, see settings

Sides == {"offer", "bid"}
Traders == Agents \cup Assets
Engines == Agents \X {"up", "down"}
Source(e) == IF e[2] = "up" THEN Lower[e[1]] ELSE Higher[e[1]]
Target(e) == IF e[2] = "up" THEN Higher[e[1]] ELSE Lower[e[1]]

ASSUME NetworkAssumption ==
    /\ Lower \in [Agents -> Markets] /\ Higher \in [Agents -> Markets]
    /\ \A a \in Agents : Lower[a] # Higher[a]
    /\ Home \in [Assets -> Markets]
    /\ Settings \subseteq [type : {"one-sided", "two-sided"}, sides : [Assets -> SUBSET Sides],
                           minAge : Nat, maxPosts : [Assets -> Nat], refused : SUBSET Engines]
    /\ Energies \subseteq Nat \ {0}
    /\ Agents \cap Assets = {}

VARIABLES
    books,      \* MarketBase.offers and bids: side, market -> id -> order
    forwarded,  \* forwarded_offers and forwarded_bids: side, engine -> id -> pair
    age,        \* offer_age and bid_age, in ticks and no higher than minAge
    net,        \* MarketBase.traded_energy: sold minus bought, per trader
    calls,
    settings,   \* type: of all markets of the simulation; sides: of the order book an
                \* asset uses; minAge: min_offer_age = min_bid_age, in ticks; refused:
                \* engines whose copies may be refused for their price; maxPosts: bound
                \* on the orders of an asset
    failed,     \* an exception has left the cascade; the simulation ends
    posts,
    owed,       \* history: energy posted and not withdrawn, per side and asset
    before      \* history: the ledger when the running cascade began

vars == <<books, forwarded, age, net, settings, calls, failed, posts, owed, before>>

(* Assets buy offers themselves instead of bidding. *)
OneSided == settings.type = "one-sided"

Empty == [x \in {} |-> 0]
Put(f, x, v) == [y \in DOMAIN f \cup {x} |-> IF y = x THEN v ELSE f[y]]
Drop(f, S) == [y \in DOMAIN f \ S |-> f[y]]

(* The code draws ids at random; here an id is the way the order came about*)
(* and unique for that reason: posted by an asset, copied by an agent, left*)
(* over from a split.                                                      *)
PostedId(a)   == <<a, posts[a] + 1>>
CopyId(id, a) == Append(id, a)
RestId(id)    == Append(id, "rest")

Order(id, owner, origin, energy) ==
    [id |-> id, owner |-> owner, origin |-> origin, energy |-> energy]

(* The energy an asset has open in a market, through whichever traders. *)
Listed(s, m, a) ==
    LET own == {id \in DOMAIN books[s][m] : books[s][m][id].origin = a}
    IN  MapThenSumSet(LAMBDA id : books[s][m][id].energy, own)

(* What the assets have open in their own market, and what they traded.    *)
Ledger == [open |-> [s \in Sides |-> [a \in Assets |-> Listed(s, Home[a], a)]],
           traded |-> [a \in Assets |-> net[Home[a]][a]]]

Init ==
    /\ books = [s \in Sides |-> [m \in Markets |-> Empty]]
    /\ forwarded = [s \in Sides |-> [e \in Engines |-> Empty]]
    /\ age = [s \in Sides |-> [e \in Engines |-> Empty]]
    /\ net = [m \in Markets |-> [t \in Traders |-> 0]]
    /\ calls = <<>>
    /\ settings \in Settings
    /\ failed = FALSE
    /\ posts = [a \in Assets |-> 0]
    /\ owed = [s \in Sides |-> [a \in Assets |-> 0]]
    /\ before = Ledger
-----------------------------------------------------------------------------
(* Frames of the call stack. *)

Accept(s, m, id, energy, with, pair) ==
    [call |-> "accept", s |-> s, m |-> m, id |-> id, energy |-> energy,
     with |-> with, pair |-> pair]

Complete(c, order, residual) ==
    [call |-> "complete", s |-> c.s, m |-> c.m, order |-> order,
     with |-> c.with, pair |-> c.pair, residual |-> residual]

(* An event and the engines that have not heard of it: those of the agent  *)
(* of the market's area and of the agents of its child areas.              *)
Event(name, s, m, order, residual) ==
    [call |-> name, s |-> s, m |-> m, order |-> order, residual |-> residual,
     todo |-> {e \in Engines : m \in {Source(e), Target(e)}}]

Delete(s, m, id)   == [call |-> "delete", s |-> s, m |-> m, id |-> id]
Forget(s, e, id)   == [call |-> "forget", s |-> s, e |-> e, id |-> id]
Forward(s, e, order) == [call |-> "forward", s |-> s, e |-> e, order |-> order]
Link(s, e, local, localResidual, order, residual) ==
    [call |-> "link", s |-> s, e |-> e, local |-> local,
     localResidual |-> localResidual, order |-> order, residual |-> residual]
TickOf(e)          == [call |-> "tick", e |-> e]
Propagate(s, e, ids) == [call |-> "propagate", s |-> s, e |-> e, todo |-> ids]

Running(name) == ~failed /\ calls # <<>> /\ Head(calls).call = name
Return(frames) == calls' = frames \o Tail(calls)

(* An exception that no caller handles: the books keep what was done. *)
Raise ==
    /\ failed' = TRUE
    /\ UNCHANGED <<books, forwarded, age, net, settings, calls, posts, owed, before>>

Quiet == ~failed /\ calls = <<>>

(* The asset or the matching engine starts a cascade. *)
Begin(frames) == calls' = frames /\ before' = Ledger
-----------------------------------------------------------------------------
(* Assets and matching. *)

Post(s, a, energy) ==
    LET order == Order(PostedId(a), a, a, energy) IN
    /\ Quiet
    /\ s \in settings.sides[a] /\ posts[a] < settings.maxPosts[a]
    /\ s = "bid" => ~OneSided
    /\ books' = [books EXCEPT ![s][Home[a]] = Put(@, order.id, order)]
    /\ posts' = [posts EXCEPT ![a] = @ + 1]
    /\ owed' = [owed EXCEPT ![s][a] = @ + energy]
    /\ Begin(<<Event("POSTED", s, Home[a], order, {})>>)
    /\ UNCHANGED <<forwarded, age, net, settings, failed>>

Withdraw(s, a, id) ==
    /\ Quiet
    /\ LET order == books[s][Home[a]][id] IN
       /\ order.owner = a
       /\ books' = [books EXCEPT ![s][Home[a]] = Drop(@, {id})]
       /\ owed' = [owed EXCEPT ![s][a] = @ - order.energy]
       /\ Begin(<<Event("DELETED", s, Home[a], order, {})>>)
    /\ UNCHANGED <<forwarded, age, net, settings, failed, posts>>

SameTrader_Never(offer, bid) == FALSE

(* Orders of the same trader are never matched. *)
SameTrader(offer, bid) == offer.owner = bid.owner

(* One recommendation of the matching engine. *)
Match(m, o, b, energy) ==
    /\ Quiet
    /\ LET offer == books["offer"][m][o]
           bid == books["bid"][m][b]
       IN  /\ ~SameTrader(offer, bid)
           /\ energy <= bid.energy
           /\ Begin(<<Accept("offer", m, o, energy, bid.owner, TRUE),
                      Accept("bid", m, b, energy, offer.owner, TRUE)>>)
    /\ UNCHANGED <<books, forwarded, age, net, settings, failed, posts, owed>>

(* In a one-sided market an asset accepts an offer, at its own tick or     *)
(* while it is told of a new offer in the middle of a cascade.             *)
Buy(a, o, energy) ==
    LET m == Home[a] IN
    /\ OneSided /\ "bid" \in settings.sides[a] /\ posts[a] < settings.maxPosts[a]
    /\ Quiet \/ (Running("POSTED") /\ Head(calls).m = m /\ Head(calls).order.id = o)
    /\ books["offer"][m][o].owner # a
    /\ posts' = [posts EXCEPT ![a] = @ + 1]
    /\ owed' = [owed EXCEPT !["bid"][a] = @ + energy]
    /\ calls' = <<Accept("offer", m, o, energy, a, FALSE)>> \o calls
    /\ before' = IF calls = <<>> THEN Ledger ELSE before
    /\ UNCHANGED <<books, forwarded, age, net, settings, failed>>

(* event_tick of an agent, for one of its engines. *)
Tick(e) ==
    /\ Quiet
    /\ Begin(<<TickOf(e)>>)
    /\ UNCHANGED <<books, forwarded, age, net, settings, failed, posts, owed>>
-----------------------------------------------------------------------------
(* The market. *)

(* split_offer and split_bid: the accepted part keeps the id.  They replace*)
(* whatever the book holds by the parts of the order they are given.       *)
ResidualPart_Whole(order, energy) == [order EXCEPT !.id = RestId(@)]

AcceptedPart(order, energy) == [order EXCEPT !.energy = energy]
ResidualPart(order, energy) == [order EXCEPT !.id = RestId(@), !.energy = @ - energy]
SplitBook(book, order, energy) ==
    Put(Put(book, order.id, AcceptedPart(order, energy)),
        RestId(order.id), ResidualPart(order, energy))

IsPartial(order, energy) == energy < order.energy

AcceptOrder ==
    /\ Running("accept")
    /\ LET c == Head(calls)
           book == books[c.s][c.m]
           order == book[c.id]
           accepted == AcceptedPart(order, c.energy)
           residual == ResidualPart(order, c.energy)
       IN  IF c.id \notin DOMAIN book THEN Raise
           ELSE IF c.energy > order.energy THEN Raise
           ELSE IF ~IsPartial(order, c.energy)
           THEN /\ books' = [books EXCEPT ![c.s][c.m] = Drop(@, {c.id})]
                /\ Return(<<Complete(c, order, {})>>)
                /\ UNCHANGED <<forwarded, age, net, settings, failed, posts, owed, before>>
           ELSE /\ books' = [books EXCEPT ![c.s][c.m] = SplitBook(@, order, c.energy)]
                /\ Return(<<Event("SPLIT", c.s, c.m, accepted, {residual}),
                            Complete(c, accepted, {residual})>>)
                /\ UNCHANGED <<forwarded, age, net, settings, failed, posts, owed, before>>

(* The energy of a match is counted once, with its offer. *)
IsCounted(c) == c.s = "offer" \/ ~c.pair

(* The second half of accept_offer and accept_bid. *)
CompleteTrade ==
    /\ Running("complete")
    /\ LET c == Head(calls)
           seller == IF c.s = "offer" THEN c.order.owner ELSE c.with
           buyer == IF c.s = "offer" THEN c.with ELSE c.order.owner
       IN  IF c.s = "bid" /\ c.residual # {} /\ c.order.id \notin DOMAIN books["bid"][c.m]
           THEN Raise
           ELSE /\ books' = [books EXCEPT ![c.s][c.m] = Drop(@, {c.order.id})]
                /\ net' = IF IsCounted(c)
                          THEN [net EXCEPT ![c.m] = [t \in Traders |->
                                  @[t] + (IF t = seller THEN c.order.energy ELSE 0)
                                       - (IF t = buyer THEN c.order.energy ELSE 0)]]
                          ELSE net
                /\ Return(<<Event("TRADED", c.s, c.m, c.order, c.residual)>>
                          \o (IF c.s = "bid" /\ c.residual # {}
                              THEN <<Event("POSTED", "bid", c.m,
                                           CHOOSE r \in c.residual : TRUE, {})>>
                              ELSE <<>>))
                /\ UNCHANGED <<forwarded, age, settings, failed, posts, owed, before>>

(* delete_offer and delete_bid called by an engine, which ignores an order *)
(* that is not there.                                                      *)
DeleteOrder ==
    /\ Running("delete")
    /\ LET c == Head(calls)
           book == books[c.s][c.m]
       IN  IF c.id \in DOMAIN book
           THEN /\ books' = [books EXCEPT ![c.s][c.m] = Drop(@, {c.id})]
                /\ Return(<<Event("DELETED", c.s, c.m, book[c.id], {})>>)
           ELSE Return(<<>>) /\ UNCHANGED books
    /\ UNCHANGED <<forwarded, age, net, settings, failed, posts, owed, before>>
-----------------------------------------------------------------------------
(* The engines. *)

Usable_OneEngine(s, a, id) == id \notin DOMAIN forwarded[s][<<a, "up">>]

Usable(s, a, id) == \A d \in {"up", "down"} : id \notin DOMAIN forwarded[s][<<a, d>>]

(* An engine forwards an order of its source market that its agent neither *)
(* posted nor forwarded.  The loop over the bids works on a copy of them   *)
(* and does not look whether the bid is still there.                       *)
Forwardable(s, e, id) ==
    /\ Usable(s, e[1], id)
    /\ id \in DOMAIN books[s][Source(e)]
    /\ books[s][Source(e)][id].owner # e[1]

(* Which engines react to the event on top of the stack.                   *)
Concerns(c, e) ==
    LET known == c.order.id \in DOMAIN forwarded[c.s][e] IN
    CASE c.call = "TRADED"  -> known
      [] c.call = "DELETED" -> known \/ (c.s = "offer" /\ c.order.id \in DOMAIN age[c.s][e])
      [] c.call = "SPLIT"   -> known /\ c.m = Target(e)
      [] c.call = "POSTED"  -> /\ ~OneSided /\ settings.minAge = 0
                               /\ c.m = Source(e) /\ Forwardable(c.s, e, c.order.id)

Handling(name, e) ==
    /\ Running(name)
    /\ e \in Head(calls).todo
    /\ Concerns(Head(calls), e)

(* The rest of the event once engine e has handled it. *)
AfterHandling(e) == <<[Head(calls) EXCEPT !.todo = @ \ {e}]>>

EventHandled ==
    /\ ~failed /\ calls # <<>>
    /\ Head(calls).call \in {"TRADED", "DELETED", "SPLIT", "POSTED"}
    /\ \A e \in Head(calls).todo : ~Concerns(Head(calls), e)
    /\ Return(<<>>)
    /\ UNCHANGED <<books, forwarded, age, net, settings, failed, posts, owed, before>>

(* event_offer_traded, event_bid_traded: the copy was traded in the target *)
(* market, so the engine trades the original in the source market.         *)
TradeInSource(e) ==
    /\ Handling("TRADED", e)
    /\ LET c == Head(calls)
           pair == forwarded[c.s][e][c.order.id]
       IN  /\ c.order.id = pair.target.id
           /\ IF c.s = "bid" /\ pair.source.id \notin DOMAIN books["bid"][Source(e)]
              THEN Return(AfterHandling(e))
              ELSE Return(<<Accept(c.s, Source(e), pair.source.id, c.order.energy, e[1], FALSE)>>
                          \o (IF c.s = "bid"
                              THEN <<Delete(c.s, Target(e), pair.target.id)>> ELSE <<>>)
                          \o <<Forget(c.s, e, pair.source.id)>>
                          \o AfterHandling(e))
    /\ UNCHANGED <<books, forwarded, age, net, settings, failed, posts, owed, before>>

CopyWithdrawal_KeepsCopy(s, e, pair) == <<Forget(s, e, pair.source.id)>>

CopyWithdrawal(s, e, pair) ==
    <<Delete(s, Target(e), pair.target.id), Forget(s, e, pair.source.id)>>

(* The original was traded in the source market by someone else: the copy  *)
(* is withdrawn and what is left of the original is forwarded at once.     *)
WithdrawCopy(e) ==
    /\ Handling("TRADED", e)
    /\ LET c == Head(calls)
           pair == forwarded[c.s][e][c.order.id]
           residuals == IF c.residual = {} THEN <<>>
                        ELSE <<Forward(c.s, e, CHOOSE r \in c.residual : TRUE)>>
       IN  /\ c.order.id = pair.source.id
           /\ Return(CopyWithdrawal(c.s, e, pair) \o residuals \o AfterHandling(e))
    /\ UNCHANGED <<books, forwarded, age, net, settings, failed, posts, owed, before>>

HandleDeleted_KeepsCopy(e) ==
    /\ Handling("DELETED", e)
    /\ Return(AfterHandling(e))
    /\ UNCHANGED <<books, forwarded, age, net, settings, failed, posts, owed, before>>

(* event_offer_deleted, event_bid_deleted. *)
HandleDeleted(e) ==
    /\ Handling("DELETED", e)
    /\ LET c == Head(calls)
           id == c.order.id
           pair == forwarded[c.s][e][id]
       IN  /\ age' = IF c.s = "offer" THEN [age EXCEPT ![c.s][e] = Drop(@, {id})] ELSE age
           /\ Return((IF id \notin DOMAIN forwarded[c.s][e] THEN <<>>
                      ELSE IF id = pair.source.id
                      THEN CopyWithdrawal(c.s, e, pair)
                      ELSE <<Forget(c.s, e, pair.source.id)>>)
                     \o AfterHandling(e))
    /\ UNCHANGED <<books, forwarded, net, settings, failed, posts, owed, before>>

(* event_offer_split, event_bid_split: a copy was split in the target      *)
(* market, so the engine splits the original, as it remembers it.  The     *)
(* handlers also have a branch for a split in the source market, which     *)
(* never gets past its test of usable_offer: the id is a forwarded one.    *)
SplitInSource(e) ==
    /\ Handling("SPLIT", e)
    /\ LET c == Head(calls)
           local == forwarded[c.s][e][c.order.id].source
           accepted == AcceptedPart(local, c.order.energy)
           residual == ResidualPart(local, c.order.energy)
       IN  IF local.energy <= c.order.energy THEN Raise
           ELSE /\ books' = [books EXCEPT ![c.s][Source(e)] =
                                 SplitBook(@, local, c.order.energy)]
                /\ Return(<<Event("SPLIT", c.s, Source(e), accepted, {residual}),
                            Link(c.s, e, accepted, residual, c.order,
                                 CHOOSE r \in c.residual : TRUE)>>
                          \o AfterHandling(e))
                /\ UNCHANGED <<forwarded, age, net, settings, failed, posts, owed, before>>

Paired(f, source, target) ==
    LET pair == [source |-> source, target |-> target]
    IN  Put(Put(f, source.id, pair), target.id, pair)

LinkedPairs_AcceptedOnly(f, c) == Paired(f, c.local, c.order)

LinkedPairs(f, c) ==
    Paired(Paired(f, c.localResidual, c.residual), c.local, c.order)

(* The end of the split handler: both parts are paired, and the age moves  *)
(* to the residual.                                                        *)
LinkSplit ==
    /\ Running("link")
    /\ LET c == Head(calls)
           old == IF c.s = "offer" THEN c.order.id ELSE c.local.id
           new == IF c.s = "offer" THEN c.residual.id ELSE c.localResidual.id
           ages == age[c.s][c.e]
       IN  /\ forwarded' = [forwarded EXCEPT ![c.s][c.e] = LinkedPairs(@, c)]
           /\ age' = IF old \in DOMAIN ages \/ c.s = "bid"
                     THEN [age EXCEPT ![c.s][c.e] =
                              Put(Drop(@, {old}), new,
                                  IF old \in DOMAIN ages THEN ages[old] ELSE 0)]
                     ELSE age
    /\ Return(<<>>)
    /\ UNCHANGED <<books, net, settings, failed, posts, owed, before>>

(* _delete_forwarded_offer_entries, _delete_forwarded_bid_entries. *)
ForgetPair ==
    /\ Running("forget")
    /\ LET c == Head(calls)
           f == forwarded[c.s][c.e]
           ids == IF c.id \in DOMAIN f
                  THEN {c.id, f[c.id].source.id, f[c.id].target.id} ELSE {c.id}
       IN  /\ forwarded' = [forwarded EXCEPT ![c.s][c.e] = Drop(@, ids)]
           /\ age' = [age EXCEPT ![c.s][c.e] = Drop(@, ids)]
    /\ Return(<<>>)
    /\ UNCHANGED <<books, net, settings, failed, posts, owed, before>>

(* event_offer, event_bid: with a minimum age of zero an order is forwarded*)
(* as soon as it is posted.                                                *)
HandlePosted(e) ==
    /\ Handling("POSTED", e)
    /\ LET c == Head(calls) IN
       /\ age' = [age EXCEPT ![c.s][e] = Put(@, c.order.id, 0)]
       /\ Return(<<Forward(c.s, e, books[c.s][Source(e)][c.order.id])>> \o AfterHandling(e))
    /\ UNCHANGED <<books, forwarded, net, settings, failed, posts, owed, before>>

(* _forward_offer, _forward_bid: the agent posts a copy in the target      *)
(* market in its own name.                                                 *)
ForwardOrder ==
    /\ Running("forward")
    /\ LET c == Head(calls)
           copy == Order(CopyId(c.order.id, c.e[1]), c.e[1], c.order.origin, c.order.energy)
       IN  /\ books' = [books EXCEPT ![c.s][Target(c.e)] = Put(@, copy.id, copy)]
           /\ forwarded' = [forwarded EXCEPT ![c.s][c.e] = Paired(@, c.order, copy)]
           /\ Return(<<Event("POSTED", c.s, Target(c.e), copy, {})>>)
    /\ UNCHANGED <<age, net, settings, failed, posts, owed, before>>

(* A negative price, or a market that refuses the copy. *)
ForwardRefused ==
    /\ Running("forward") /\ Head(calls).e \in settings.refused
    /\ Return(<<>>)
    /\ UNCHANGED <<books, forwarded, age, net, settings, failed, posts, owed, before>>

(* tick: known orders get older and new ones are recorded. *)
TickEngine ==
    /\ Running("tick")
    /\ LET e == Head(calls).e
           ids(s) == DOMAIN books[s][Source(e)]
           Aged(s) == [id \in DOMAIN age[s][e] \cup ids(s) |->
                          IF id \notin DOMAIN age[s][e] THEN 0
                          ELSE IF age[s][e][id] < settings.minAge THEN age[s][e][id] + 1
                          ELSE settings.minAge]
       IN  /\ age' = [s \in Sides |-> [age[s] EXCEPT ![e] = Aged(s)]]
           /\ Return(<<Propagate("offer", e, DOMAIN Aged("offer"))>>
                     \o (IF OneSided THEN <<>> ELSE <<Propagate("bid", e, ids("bid"))>>))
    /\ UNCHANGED <<books, forwarded, net, settings, failed, posts, owed, before>>

(* The forwarding loops of tick, one order at a time. *)
Ripe(c, id) == id \in DOMAIN age[c.s][c.e] /\ age[c.s][c.e][id] >= settings.minAge

PropagateOrder(id) ==
    /\ Running("propagate")
    /\ LET c == Head(calls) IN
       /\ id \in c.todo
       /\ Ripe(c, id) /\ Forwardable(c.s, c.e, id)
       /\ Return(<<Forward(c.s, c.e, books[c.s][Source(c.e)][id]),
                   [c EXCEPT !.todo = @ \ {id}]>>)
    /\ UNCHANGED <<books, forwarded, age, net, settings, failed, posts, owed, before>>

(* The loops stop watching orders that are gone or not to be forwarded;    *)
(* the one over the bids whatever their age.                               *)
EndPropagate ==
    /\ Running("propagate")
    /\ LET c == Head(calls)
           watched == {id \in c.todo : id \notin DOMAIN forwarded[c.s][c.e]}
       IN  /\ \A id \in c.todo : ~(Ripe(c, id) /\ Forwardable(c.s, c.e, id))
           /\ age' = [age EXCEPT ![c.s][c.e] =
                  Drop(@, {id \in watched : /\ c.s = "offer" => Ripe(c, id)
                                            /\ ~Forwardable(c.s, c.e, id)})]
    /\ Return(<<>>)
    /\ UNCHANGED <<books, forwarded, net, settings, failed, posts, owed, before>>
-----------------------------------------------------------------------------
Step ==
    \/ AcceptOrder \/ CompleteTrade \/ DeleteOrder
    \/ \E e \in Engines : TradeInSource(e)
    \/ \E e \in Engines : WithdrawCopy(e)
    \/ \E e \in Engines : HandleDeleted(e)
    \/ \E e \in Engines : SplitInSource(e)
    \/ \E e \in Engines : HandlePosted(e)
    \/ EventHandled
    \/ LinkSplit \/ ForgetPair \/ ForwardOrder \/ ForwardRefused
    \/ TickEngine \/ EndPropagate
    \/ \E m \in Markets, s \in Sides : \E id \in DOMAIN books[s][m] : PropagateOrder(id)

Next ==
    \/ \E s \in Sides, a \in Assets, k \in Energies : Post(s, a, k)
    \/ \E s \in Sides, a \in Assets :
          \E id \in DOMAIN books[s][Home[a]] : Withdraw(s, a, id)
    \/ \E m \in Markets :
          \E o \in DOMAIN books["offer"][m], b \in DOMAIN books["bid"][m] :
             \E k \in 1..books["offer"][m][o].energy : Match(m, o, b, k)
    \/ \E a \in Assets :
          \E o \in DOMAIN books["offer"][Home[a]] :
             \E k \in 1..books["offer"][Home[a]][o].energy : Buy(a, o, k)
    \/ \E e \in Engines : Tick(e)
    \/ Step

Spec == Init /\ [][Next]_vars

(* A cascade runs to its end, and the simulation ticks every agent again   *)
(* and again.                                                              *)
FairSpec == /\ Spec
            /\ WF_vars(Step)
            /\ \A e \in Engines : SF_vars(Tick(e))
-----------------------------------------------------------------------------
(* Properties. *)

IsOrder(o) == /\ o.owner \in Traders /\ o.origin \in Assets
              /\ o.energy \in Nat \ {0}

(* The books hold orders under their own id, in positive amounts; the      *)
(* engines remember pairs of orders and ages.                              *)
TypeOK ==
    /\ \A s \in Sides, m \in Markets : \A id \in DOMAIN books[s][m] :
          books[s][m][id].id = id /\ IsOrder(books[s][m][id])
    /\ \A s \in Sides, e \in Engines :
          /\ \A id \in DOMAIN forwarded[s][e] :
                LET pair == forwarded[s][e][id] IN
                /\ id \in {pair.source.id, pair.target.id}
                /\ IsOrder(pair.source) /\ IsOrder(pair.target)
          /\ \A id \in DOMAIN age[s][e] : age[s][e][id] \in 0..settings.minAge
    /\ net \in [Markets -> [Traders -> Int]]
    /\ settings \in Settings /\ failed \in BOOLEAN
    /\ \A a \in Assets : posts[a] \in 0..settings.maxPosts[a]
    /\ owed \in [Sides -> [Assets -> Nat]]

(* No exception leaves a cascade: an engine that must trade or split the   *)
(* original of a copy always finds it, with enough energy                  *)
(* (OfferNotFoundException, BidNotFoundException, InvalidTrade), and books *)
(* and engines keep their types.                                           *)
NoExceptionEscapes == TypeOK /\ ~failed

(* Between cascades every copy an agent has open stands for an original    *)
(* that is open in the source market with the same energy, and no two      *)
(* copies in one market stand for the same original.                       *)
CopiesAreBacked ==
    Quiet => \A s \in Sides, m \in Markets, a \in Agents :
        LET copies == {id \in DOMAIN books[s][m] : books[s][m][id].owner = a}
            e == IF Lower[a] = m THEN <<a, "down">> ELSE <<a, "up">>
            Original(id) == forwarded[s][e][id].source.id
        IN  /\ \A id \in copies :
                 /\ id \in DOMAIN forwarded[s][e]
                 /\ forwarded[s][e][id].target.id = id
                 /\ Original(id) \in DOMAIN books[s][Source(e)]
                 /\ books[s][Source(e)][Original(id)].energy = books[s][m][id].energy
            /\ \A i, j \in copies : Original(i) = Original(j) => i = j

(* Between cascades no market lists more energy of an asset than the asset *)
(* has open in its own market: forwarding through several agents never     *)
(* brings an order back or doubles it.                                     *)
NotListedTwice ==
    Quiet => \A s \in Sides, m \in Markets, a \in Assets :
                Listed(s, m, a) <= Listed(s, Home[a], a)

(* Between cascades an agent has sold in one of its markets what it bought *)
(* in the other (traded_energy of the two markets).                        *)
AgentsBalanced ==
    Quiet => \A a \in Agents : net[Lower[a]][a] + net[Higher[a]][a] = 0

(* Between cascades the energy an asset has posted and not withdrawn is    *)
(* open in its market or traded there: splits and residuals lose nothing.  *)
OrdersConserved ==
    Quiet => \A a \in Assets :
        net[Home[a]][a] = (owed["offer"][a] - Listed("offer", Home[a], a))
                        - (owed["bid"][a] - Listed("bid", Home[a], a))

(* No energy is lost or created, neither at the assets nor in the agents   *)
(* between them, through any splits, residuals and refused copies.         *)
EnergyConserved == OrdersConserved /\ AgentsBalanced

(* The two-sided network implements one exchange.  While a cascade runs    *)
(* the exchange shows the ledger from before it, so a whole cascade,       *)
(* through all the markets it crosses, must be one step: a post, a         *)
(* withdrawal, one trade between two different assets, or nothing.  (In a  *)
(* one-sided network the call that posts an offer may sell it.)            *)
Closed == [open |-> [s \in Sides |-> [a \in Assets |-> 0]], traded |-> [a \in Assets |-> 0]]
Shown == IF OneSided THEN Closed ELSE IF calls = <<>> THEN Ledger ELSE before
Exchange == INSTANCE EnergyExchange WITH open <- Shown.open, traded <- Shown.traded
ExchangeContract == Exchange!Spec

(* Again and again all the energy an asset has open is listed in every     *)
(* market: residuals of splits that happened in other markets are not      *)
(* forgotten by the agents.                                                *)
ListedEverywhere ==
    \A s \in Sides, a \in Assets :
        []<>(\A m \in Markets : Listed(s, m, a) = Listed(s, Home[a], a))
=============================================================================
