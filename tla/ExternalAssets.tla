--------------------------- MODULE ExternalAssets ---------------------------
(***************************************************************************)
(* External control of the grid: aggregators select the areas they act     *)
(* for and send batches of commands, clients register with an asset and    *)
(* send requests.  Both arrive on the Redis thread and are buffered; the   *)
(* main thread empties the buffers at fixed places of its loop.            *)
(*                                                                         *)
(* There are two areas: a market area "grid", and in it an "asset" whose   *)
(* strategy is the external version of a load, a PV, a storage or a smart  *)
(* meter (kind), or one of the forecast versions of a load or PV.  What a  *)
(* command does to the orders of the asset is in ExternalCommands.         *)
(***************************************************************************)
EXTENDS ExternalCommands, FiniteSets

CONSTANTS
    Aggregators,
    Kinds,            \* kinds of asset, a subset of {"load", "pv", "storage", "meter"}
    Contents(_),      \* what a batch may hold for an asset of a kind
    Requests(_),      \* what a client may ask an asset of a kind for
    Limits(_),        \* energies an asset of a kind may have in a slot
    DispatchTickFrequency, UpdateTicks,
    LastSlot, LastTick, MaxAdmin, MaxBatches, MaxRequests, MaxMessages

Areas == {"asset", "grid"}
Forecasts == {"set_energy_forecast", "set_energy_measurement"}

VARIABLES
    kind, forecasting,
    pc, slot, tick, failed,
    devices,      \* aggregator_device_mapping, with how often it lists an area
    device_of,    \* device_aggregator_mapping
    pending, processing, responses,
    events,       \* the buffers of events, as <<aggregator, type>>
    todo, checked,
    registered, connected,
    requests, seen,
    forecast,     \* energy_forecast_buffer
    known,        \* forecasts in the state of the asset
    limit, book, priced, fee,
    executed, replies, answered, admin, batches, asked

redis == <<devices, device_of, pending, registered, admin, batches, asked>>
clock == <<kind, forecasting, slot, tick>>
asset == <<connected, limit, book, priced>>
buffers == <<processing, responses, fee, executed, replies>>
vars == <<redis, clock, asset, buffers, pc, failed, events, todo, checked,
          requests, seen, forecast, known, answered>>

Slots == 0 .. LastSlot + 1

Init ==
    /\ kind \in Kinds /\ forecasting \in BOOLEAN /\ (forecasting => kind \in {"load", "pv"})
    /\ pc = "cycle" /\ slot = 0 /\ tick = 0 /\ failed = "no"
    /\ devices = <<>> /\ device_of = <<>>
    /\ pending = <<>> /\ processing = <<>> /\ responses = {}
    /\ events = {} /\ todo = <<>> /\ checked = FALSE
    /\ registered = [a \in Areas |-> FALSE] /\ connected = FALSE
    /\ requests = <<>> /\ seen = 0 /\ forecast = <<>> /\ known = <<>>
    /\ limit = [bid |-> 0, offer |-> 0] /\ book = NewAccount /\ priced = FALSE /\ fee = 0
    /\ executed = <<>> /\ replies = <<>> /\ answered = <<>>
    /\ admin = 0 /\ batches = 0 /\ asked = 0

(* A mapping with one more entry, and the elements of a queue in a set. *)
Put(mapping, key, value) ==
    [x \in DOMAIN mapping \cup {key} |-> IF x = key THEN value ELSE mapping[x]]
Those(queue, chosen) ==
    LET f[i \in 0 .. Len(queue)] ==
            IF i = 0 THEN <<>>
            ELSE IF queue[i] \in chosen THEN Append(f[i - 1], queue[i]) ELSE f[i - 1]
    IN  f[Len(queue)]

IsControlled(area) == area \in DOMAIN device_of
ShouldUseDefaultStrategy == ~ connected /\ ~ IsControlled("asset")
-----------------------------------------------------------------------------
(* The Redis thread: AggregatorHandler.aggregator_callback. *)

Lists(a, area) == [x \in Areas |-> IF x = area THEN 1 ELSE 0]

CreateAggregator(a) ==
    /\ devices' = IF a \in DOMAIN devices THEN devices ELSE Put(devices, a, [x \in Areas |-> 0])
    /\ UNCHANGED device_of

(* The devices of a deleted aggregator stay in the other mapping. *)
DeleteAggregator(a) ==
    devices' = [b \in DOMAIN devices \ {a} |-> devices[b]] /\ UNCHANGED device_of

(* Only an aggregator that is known already finds the device taken. *)
SelectAggregator(a, area) ==
    IF a \notin DOMAIN devices
    THEN devices' = Put(devices, a, Lists(a, area)) /\ device_of' = Put(device_of, area, a)
    ELSE IF area \in DOMAIN device_of THEN UNCHANGED <<devices, device_of>>
    ELSE devices' = [devices EXCEPT ![a][area] = @ + 1] /\ device_of' = Put(device_of, area, a)

(* The device is gone from one mapping before it is looked for in the list *)
(* of the other, where it need not be.                                     *)
UnselectAggregator(a, area) ==
    IF area \in DOMAIN device_of /\ a \in DOMAIN devices
    THEN /\ device_of' = [x \in DOMAIN device_of \ {area} |-> device_of[x]]
         /\ devices' = IF devices[a][area] > 0 THEN [devices EXCEPT ![a][area] = @ - 1] ELSE devices
    ELSE UNCHANGED <<devices, device_of>>

AggregatorCallback ==
    /\ admin < MaxAdmin /\ admin' = admin + 1
    /\ \E a \in Aggregators :
           \/ CreateAggregator(a) \/ DeleteAggregator(a)
           \/ \E area \in Areas : SelectAggregator(a, area) \/ UnselectAggregator(a, area)
    /\ UNCHANGED <<pending, registered, batches, asked, requests>>

(* A transaction is a number; a batch has commands for some areas. *)
ReceiveBatchCommands ==
    /\ batches < MaxBatches /\ batches' = batches + 1
    /\ \E a \in Aggregators, commands \in Contents(kind) :
           pending' = Append(pending, [t |-> batches + 1, from |-> a, commands |-> commands])
    /\ UNCHANGED <<devices, device_of, registered, admin, asked, requests>>

(* The answer to the client is published first: with Redis out of reach a  *)
(* registration is refused and an unregistration has no effect.            *)
Register(area, isConnected, reached) == isConnected \/ reached
Unregister(area, isConnected, reached) == isConnected /\ ~ reached
ChangeRegistration ==
    /\ admin < MaxAdmin /\ admin' = admin + 1
    /\ \E area \in Areas, reached \in BOOLEAN :
           LET isConnected == IF area = "asset" THEN connected ELSE registered[area]
           IN  \/ registered' = [registered EXCEPT ![area] = Register(area, isConnected, reached)]
               \/ registered' = [registered EXCEPT ![area] = Unregister(area, isConnected, reached)]
    /\ UNCHANGED <<devices, device_of, pending, batches, asked, requests>>

(* A request is queued if the client is connected and the asset takes it;  *)
(* forecasts and measurements need no connection.                          *)
SetDeviceEnergyData(c) == forecasting /\ c.type \in Forecasts
IncomingClientRequest ==
    /\ asked < MaxRequests /\ asked' = asked + 1
    /\ \E c \in Requests(kind) :
           requests' = IF \/ SetDeviceEnergyData(c)
                          \/ /\ c.type \notin Forecasts /\ connected
                             /\ IncomingRequest(kind, c, book, Market(c, slot))
                       THEN Append(requests, [id |-> asked + 1, c |-> c]) ELSE requests
    /\ UNCHANGED <<devices, device_of, pending, registered, admin, batches>>

RedisThread ==
    /\ pc \notin {"done", "failed"} /\ admin + batches + asked < MaxMessages
    /\ AggregatorCallback \/ ReceiveBatchCommands \/ ChangeRegistration \/ IncomingClientRequest
    /\ UNCHANGED <<clock, asset, buffers, pc, failed, events, todo, checked, seen, forecast,
                   known, answered>>
-----------------------------------------------------------------------------
(* The main thread.  Between the steps the Redis thread may run.  An       *)
(* exception that nobody catches ends the simulation.                      *)

Fail(cause) == pc' = "failed" /\ failed' = cause
Goto(next) == pc' = next /\ UNCHANGED failed
Answers(queue) == [i \in 1 .. Len(queue) |-> <<queue[i].id, queue[i].c.type \in Forecasts>>]

(* Events for aggregators: the handler finds the device controlled and     *)
(* then looks up by whom.                                                  *)
Event(area, type) == <<[area |-> area, type |-> type]>>

CheckControlled_Never ==
    /\ todo # <<>> /\ ~ checked /\ checked' = TRUE
    /\ UNCHANGED <<redis, clock, asset, buffers, pc, failed, events, todo, requests, seen,
                   forecast, known, answered>>
CheckControlled ==
    /\ todo # <<>> /\ ~ checked
    /\ IF IsControlled(Head(todo).area)
       THEN checked' = TRUE /\ UNCHANGED todo
       ELSE todo' = Tail(todo) /\ UNCHANGED checked
    /\ UNCHANGED <<redis, clock, asset, buffers, pc, failed, events, requests, seen, forecast,
                   known, answered>>

(* The statistics that go with an event are empty in the first slot. *)
DeleteNotOwnedDevices(a) == slot > 0 /\ IsControlled("asset") => a \in DOMAIN devices
AddBatchEvent ==
    /\ todo # <<>> /\ checked /\ checked' = FALSE
    /\ LET e == Head(todo) IN
       IF IsControlled(e.area) /\ (e.type = "finish" \/ DeleteNotOwnedDevices(device_of[e.area]))
       THEN /\ events' = events \cup {<<device_of[e.area], e.type>>}
            /\ todo' = Tail(todo) /\ UNCHANGED <<pc, failed>>
       ELSE Fail("lookup") /\ todo' = <<>> /\ UNCHANGED events
    /\ UNCHANGED <<redis, clock, asset, buffers, requests, seen, forecast, known, answered>>

(* ForecastExternalMixin.event_market_cycle stores what was buffered for   *)
(* the slots to come, and then the queue is rejected: a loop over it and   *)
(* an empty queue in its place.                                            *)
UpdateEnergyForecast ==
    [s \in {x \in DOMAIN forecast : x >= slot} |-> forecast[s]] @@ known
StartCycle ==
    /\ pc = "cycle" /\ todo = <<>>
    /\ seen' = Len(requests) /\ Goto("rejecting")
    /\ known' = UpdateEnergyForecast /\ forecast' = <<>>
    /\ UNCHANGED <<redis, clock, asset, buffers, events, todo, checked, requests, answered>>

(* A request that arrives during the loop stops it. *)
RejectFails ==
    /\ pc = "rejecting" /\ Len(requests) > seen /\ Fail("queue")
    /\ UNCHANGED <<redis, clock, asset, buffers, events, todo, checked, requests, seen, forecast,
                   known, answered>>

UpdateConnectionStatus ==
    /\ device_of' = IF connected /\ ~ registered["asset"]
                    THEN [x \in DOMAIN device_of \ {"asset"} |-> device_of[x]] ELSE device_of
    /\ connected' = registered["asset"]

(* The energy of the new slot is known, and the template, if it is in      *)
(* charge, sets its prices and posts all of it.                            *)
SlotEnergy ==
    IF ~ forecasting THEN Limits(kind)
    ELSE LET energy == IF slot \in DOMAIN known THEN known[slot] ELSE 0
         IN  {[bid |-> IF kind = "load" THEN energy ELSE 0,
               offer |-> IF kind = "pv" THEN energy ELSE 0]}
TemplateOrders(l) ==
    LET b == IF l.bid > 0 THEN PostBid(NewAccount, l.bid, FALSE) ELSE NewAccount
    IN  IF l.offer > 0 THEN PostOffer(b, l.offer, FALSE, <<>>) ELSE b

EventMarketCycle ==
    /\ pc = "rejecting" /\ Goto("approve")
    /\ answered' = answered \o Answers(SubSeq(requests, 1, seen))
    /\ requests' = <<>> /\ seen' = 0
    /\ UpdateConnectionStatus
    /\ LET default == ~ connected' /\ "asset" \notin DOMAIN device_of' IN
       /\ priced' = default
       /\ \E l \in SlotEnergy :
              /\ limit' = l
              /\ book' = IF default THEN TemplateOrders(l) ELSE NewAccount
    /\ todo' = (IF slot > 0 THEN Event("grid", "market") ELSE <<>>) \o Event("asset", "market")
    /\ UNCHANGED <<devices, pending, registered, admin, batches, asked, clock, buffers,
                   events, checked, forecast, known>>

Approve == processing' = pending /\ pending' = <<>>
ApproveBatchCommands ==
    /\ pc = "approve" /\ todo = <<>>
    /\ Goto(IF forecasting THEN "forecast" ELSE "requests")
    /\ Approve
    /\ seen' = Len(requests)
    /\ UNCHANGED <<devices, device_of, registered, admin, batches, asked, clock, asset, responses, fee,
                   executed, replies, events, todo, checked, requests, forecast, known, answered>>

(* ForecastExternalMixin.event_tick goes through the queue for forecasts   *)
(* and measurements, then keeps the other requests, those that arrived in  *)
(* between included.                                                       *)
IsForecast(r) == r.c.type \in Forecasts
ForecastsIn(queue) == {r \in ToSet(queue) : IsForecast(r)}
SetEnergyForecast(buffer, c) ==
    IF c.type = "set_energy_forecast" /\ c.energy >= 0 THEN (c.slot :> c.energy) @@ buffer ELSE buffer
StoreForecasts(queue) ==
    FoldLeft(LAMBDA buffer, r : SetEnergyForecast(buffer, r.c), forecast, queue)
ForecastTickFails ==
    /\ pc = "forecast" /\ Len(requests) > seen /\ Fail("queue")
    /\ UNCHANGED <<redis, clock, asset, buffers, events, todo, checked, requests, seen, forecast,
                   known, answered>>
ForecastTick ==
    /\ pc = "forecast" /\ Goto("requests")
    /\ LET queue == SubSeq(requests, 1, seen)
           handled == Those(queue, ForecastsIn(queue)) IN
       /\ forecast' = StoreForecasts(handled)
       /\ answered' = answered \o Answers(handled)
    /\ requests' = Those(requests, ToSet(requests) \ ForecastsIn(requests))
    /\ UNCHANGED <<redis, clock, asset, buffers, events, todo, checked, seen, known>>

(* event_tick of the template changes the rates of its orders; it has none *)
(* for a slot that began under external control.                           *)
TemplateTick ==
    /\ pc = "requests" /\ ShouldUseDefaultStrategy
    /\ IF priced
       THEN /\ Goto("match")
            /\ book' = IF tick % UpdateTicks = 0
                       THEN UpdateOfferRates(UpdateBidRates(book), LAMBDA o : <<>>) ELSE book
       ELSE Fail("price") /\ UNCHANGED book
    /\ UNCHANGED <<redis, clock, connected, limit, priced, buffers, events, todo, checked,
                   requests, seen, forecast, known, answered>>

(* Forecasts that came in since are handled here as well.  A request is    *)
(* taken from the queue, and what remains is the queue.                    *)
NextRequest_Newest == <<Last(requests), Front(requests)>>
NextRequest == <<Head(requests), Tail(requests)>>
HandleRequest ==
    /\ pc = "requests" /\ ~ ShouldUseDefaultStrategy /\ requests # <<>>
    /\ LET r == NextRequest[1]
           outcome == IF IsForecast(r) THEN Accept(book)
                      ELSE CallbackSelection(kind, book, r.c, slot, limit)
       IN  /\ requests' = NextRequest[2]
           /\ book' = outcome.book
           /\ forecast' = IF IsForecast(r) THEN SetEnergyForecast(forecast, r.c) ELSE forecast
           /\ IF outcome.status = "raises" THEN Fail("command") /\ UNCHANGED answered
              ELSE Goto("requests") /\ answered' = answered \o Answers(<<r>>)
    /\ UNCHANGED <<redis, clock, connected, limit, priced, buffers, events, todo, checked,
                   seen, known>>

IsItTimeForExternalTick == (slot * (LastTick + 1) + tick) % DispatchTickFrequency = 0
RequestsHandled ==
    /\ pc = "requests" /\ ~ ShouldUseDefaultStrategy /\ requests = <<>> /\ Goto("match")
    /\ todo' = IF IsItTimeForExternalTick THEN Event("asset", "tick") ELSE <<>>
    /\ UNCHANGED <<redis, clock, asset, buffers, events, checked, requests, seen, forecast,
                   known, answered>>

(* The market matches an order of the asset, or does not. *)
TradeBid ==
    \E o \in book.listedBids : \E energy \in 1 .. o.energy :
        /\ book' = AcceptBid(book, o, energy)
        /\ limit' = [limit EXCEPT !.bid = @ - energy]
TradeOffer ==
    \E o \in book.listed : \E energy \in 1 .. o.energy :
        /\ book' = AcceptOffer(book, o, energy)
        /\ limit' = [limit EXCEPT !.offer = @ - energy]
MatchOrders ==
    /\ pc = "match" /\ todo = <<>> /\ Goto("consume")
    /\ \/ UNCHANGED <<book, limit, todo>>
       \/ /\ TradeBid \/ TradeOffer
          /\ todo' = Event("asset", "trade")
    /\ UNCHANGED <<redis, clock, connected, priced, buffers, events, checked, requests, seen,
                   forecast, known, answered>>

(* set_grid_fees_callback, dso_market_stats_callback; fits says whether    *)
(* the fee is of the kind the simulation is configured for.                *)
GridFees(c) == IF c.fits THEN c.energy ELSE fee
GridCommands(cs) == FoldLeft(LAMBDA f, c : IF c.type = "grid_fees" THEN GridFees(c) ELSE f, fee, cs)

(* consume_all_area_commands of one area: the commands of the area are     *)
(* popped from every batch and executed in order.                          *)
Pop(batch, area) ==
    [t |-> batch.t, from |-> batch.from,
     commands |-> [a \in DOMAIN batch.commands \ {area} |-> batch.commands[a]]]
Consumed(area) == Those(processing, {b \in ToSet(processing) : area \in DOMAIN b.commands})
Responses(area) ==
    {[t |-> r.t, to |-> r.to, areas |-> r.areas \cup {area}] :
         r \in {x \in responses : \E b \in ToSet(Consumed(area)) : b.t = x.t}}
    \cup {[t |-> b.t, to |-> b.from, areas |-> {area}] :
         b \in {x \in ToSet(Consumed(area)) : \A r \in responses : r.t # x.t}}
    \cup {r \in responses : \A b \in ToSet(Consumed(area)) : b.t # r.t}

ExecuteCommand(outcome, c) ==
    IF outcome.status = "raises" THEN outcome
    ELSE IF forecasting /\ c.type \in Forecasts THEN Accept(outcome.book)
    ELSE TriggerAggregatorCommands(kind, outcome.book, c, slot, limit)
AssetCommands ==
    LET queue == Consumed("asset")
        outcome[i \in 0 .. Len(queue)] ==
            IF i = 0 THEN Accept(book)
            ELSE FoldLeft(ExecuteCommand, outcome[i - 1], queue[i].commands["asset"])
    IN  outcome[Len(queue)]
AssetForecasts ==
    FoldLeft(LAMBDA buffer, b : FoldLeft(SetEnergyForecast, buffer, b.commands["asset"]),
             forecast, Consumed("asset"))

ConsumeArea(area, next) ==
    /\ processing' = [i \in DOMAIN processing |-> Pop(processing[i], area)]
    /\ responses' = Responses(area)
    /\ executed' = executed \o [i \in 1 .. Len(Consumed(area)) |->
                               [t |-> Consumed(area)[i].t, from |-> Consumed(area)[i].from, area |-> area]]
    /\ Goto(next)

ConsumeGrid ==
    /\ pc = "consume" /\ todo = <<>>
    /\ IF IsControlled("grid")
       THEN /\ ConsumeArea("grid", "consume_asset")
            /\ fee' = FoldLeft(LAMBDA f, b : GridCommands(b.commands["grid"]), fee, Consumed("grid"))
       ELSE Goto("consume_asset") /\ UNCHANGED <<processing, responses, executed, fee>>
    /\ UNCHANGED <<redis, clock, asset, replies, events, todo, checked, requests, seen,
                   forecast, known, answered>>
ConsumeAsset ==
    /\ pc = "consume_asset"
    /\ IF ~ IsControlled("asset")
       THEN Goto("publish") /\ UNCHANGED <<processing, responses, executed, book, forecast>>
       ELSE IF AssetCommands.status = "raises"
       THEN Fail("command") /\ UNCHANGED <<processing, responses, executed, book, forecast>>
       ELSE /\ ConsumeArea("asset", "publish")
            /\ book' = AssetCommands.book
            /\ forecast' = IF forecasting THEN AssetForecasts ELSE forecast
    /\ UNCHANGED <<redis, clock, connected, limit, priced, fee, replies, events, todo, checked,
                   requests, seen, known, answered>>

(* publish_all_commands_responses and publish_all_events. *)
ClearResponses_Never == UNCHANGED responses
ClearResponses == responses' = {}
Publish(next) ==
    /\ replies' = replies \o SetToSeq(responses)
    /\ ClearResponses /\ processing' = <<>> /\ events' = {}
    /\ Goto(next)

NextTick ==
    /\ pc = "publish"
    /\ Publish(IF tick < LastTick THEN "approve" ELSE IF slot < LastSlot THEN "cycle" ELSE "deactivate")
    /\ tick' = IF tick < LastTick THEN tick + 1 ELSE 0
    /\ slot' = IF tick = LastTick /\ slot < LastSlot THEN slot + 1 ELSE slot
    /\ UNCHANGED <<redis, kind, forecasting, asset, fee, executed, todo, checked, requests, seen,
                   forecast, known, answered>>
Deactivate ==
    /\ pc = "deactivate" /\ Goto("finish")
    /\ todo' = Event("grid", "finish") \o Event("asset", "finish")
    /\ UNCHANGED <<redis, clock, asset, buffers, events, checked, requests, seen, forecast,
                   known, answered>>
Finish ==
    /\ pc = "finish" /\ todo = <<>> /\ Publish("done")
    /\ UNCHANGED <<redis, clock, asset, fee, executed, todo, checked, requests, seen, forecast,
                   known, answered>>

Main ==
    \/ CheckControlled \/ AddBatchEvent \/ StartCycle \/ RejectFails \/ EventMarketCycle
    \/ ApproveBatchCommands \/ ForecastTickFails \/ ForecastTick \/ TemplateTick \/ HandleRequest
    \/ RequestsHandled \/ MatchOrders \/ ConsumeGrid \/ ConsumeAsset \/ NextTick \/ Deactivate
    \/ Finish
Next == RedisThread \/ Main
Spec == Init /\ [][Next]_vars /\ WF_vars(Main)
-----------------------------------------------------------------------------
(* Properties. *)

TypeOK ==
    /\ kind \in Kinds /\ forecasting \in BOOLEAN
    /\ pc \in {"cycle", "rejecting", "approve", "forecast", "requests", "match", "consume",
               "consume_asset", "publish", "deactivate", "finish", "done", "failed"}
    /\ slot \in 0 .. LastSlot /\ tick \in 0 .. LastTick
    /\ failed \in {"no", "lookup", "queue", "price", "command"}
    /\ DOMAIN devices \subseteq Aggregators
    /\ \A a \in DOMAIN devices : devices[a] \in [Areas -> 0 .. MaxMessages]
    /\ DOMAIN device_of \subseteq Areas /\ Range(device_of) \subseteq Aggregators
    /\ registered \in [Areas -> BOOLEAN] /\ connected \in BOOLEAN /\ priced \in BOOLEAN
    /\ limit.bid >= 0 /\ limit.offer >= 0
    /\ checked => todo # <<>>

(* However commands of aggregators, requests of clients, orders of the     *)
(* template and trades follow each other within a slot, the open orders of *)
(* an asset never exceed the energy it still has or needs.  (The smart     *)
(* meter is left out: its check of offers does not count the open ones.)   *)
OrdersWithinEnergy ==
    /\ Energy(book.listedBids) <= limit.bid
    /\ kind # "meter" => Energy(book.listed) <= limit.offer

(* The strategy and the market agree on the open orders of the asset, also *)
(* after a replacement that failed half-way.                               *)
OrdersAgree == Agrees(book)

(* No command is executed twice, and an answer goes once to the aggregator *)
(* that sent the batch and covers exactly the areas that executed it, no   *)
(* matter what was selected, unselected or deleted in the meantime.        *)
RepliesMatchExecution ==
    /\ \A i, j \in DOMAIN executed : executed[i] = executed[j] => i = j
    /\ \A i, j \in DOMAIN replies : replies[i].t = replies[j].t => i = j
    /\ \A r \in ToSet(replies) \cup responses :
           {[t |-> r.t, from |-> r.to, area |-> a] : a \in r.areas}
               = {e \in ToSet(executed) : e.t = r.t}
    /\ \A e \in ToSet(executed) : \E r \in ToSet(replies) \cup responses : r.t = e.t

(* Requests of a client are answered in the order they came, where         *)
(* forecasts may overtake the others; those that a new slot rejects too.   *)
AnsweredInOrder ==
    \A i, j \in DOMAIN answered :
        i < j /\ answered[i][2] = answered[j][2] => answered[i][1] < answered[j][1]

(* What stops the main thread comes from outside: without a message that   *)
(* takes a selected area away or deletes its aggregator it always finds    *)
(* whom to tell and a template that is ready, and without requests its     *)
(* loops over the queue end.                                               *)
FailsOnlyWhenDisturbed ==
    /\ failed \in {"lookup", "price"} => admin >= 2
    /\ failed = "queue" => asked >= 1
    /\ failed = "command" => batches + asked >= 1
=============================================================================
