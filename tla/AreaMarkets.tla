---------------------------- MODULE AreaMarkets ----------------------------
(***************************************************************************)
(* The tree of areas, the markets each area keeps and how they rotate, the *)
(* agents that link the market of an area to that of its parent, the area  *)
(* events that disable or disconnect an area, and the live events that     *)
(* change the tree while the simulation runs.                              *)
(*                                                                         *)
(* Time is counted in market slots.  A market is named by its area, its    *)
(* type and its slot; what is traded in it is the subject of MarketNetwork *)
(* and AssetTrading.  The main thread runs slots and ticks; the Redis      *)
(* thread adds live events to the buffer under the lock of LiveEvents.     *)
(***************************************************************************)
EXTENDS Integers, Sequences, FiniteSets, SequencesExt, FiniteSetsExt

CONSTANTS
    TopDown,        \* all areas that may exist, parents before their children
    Parent,         \* area -> area, for every area but the root
    Assets,         \* the areas with a strategy
    Initially,      \* the areas the simulation starts with
    EventLists,     \* the configurations of area events to choose from
    SlotsPerHour, MaxAge, FutureSlots, LastSlot, LastTick,
    Requests, MaxMessages

(* Parents come before their children, and whatever is there at the start  *)
(* is below the root.  A settlement market stays open for an hour or more, *)
(* which is at least one slot.                                             *)
ASSUME TreeAssumption ==
    /\ TopDown \in Seq(ToSet(TopDown)) /\ TopDown # <<>>
    /\ \A i, j \in DOMAIN TopDown : TopDown[i] = TopDown[j] => i = j
    /\ Parent \in [ToSet(TopDown) \ {TopDown[1]} -> ToSet(TopDown)]
    /\ \A i, j \in DOMAIN TopDown : i # 1 /\ Parent[TopDown[i]] = TopDown[j] => j < i
    /\ Assets \subseteq ToSet(TopDown)
    /\ Initially \subseteq ToSet(TopDown) /\ TopDown[1] \in Initially
    /\ \A a \in Initially \ {TopDown[1]} : Parent[a] \in Initially
    /\ {FutureSlots, LastSlot, LastTick} \subseteq Nat /\ MaxAge \in Nat \ {0}

ASSUME RequestAssumption ==
    \A message \in Requests : message \in Seq([kind : {"create", "delete", "forward", "malformed"},
                                              area : ToSet(TopDown), bulk : BOOLEAN])

Areas == ToSet(TopDown)
Root == TopDown[1]
MarketAreas == Areas \ Assets
Types == {"spot", "balancing", "settlement"}
Slots == 0 .. LastSlot

VARIABLES
    settings,    \* which markets the run has, and the area events of each area
    pc, failed, slot, tick,
    tree,        \* the areas, their markets and their agents
    ticked, notified,   \* who heard the last tick: areas, and agents
    buffer, tickBuffer, held, old,   \* the live events, and the list the main thread holds
    bulk,        \* what is left of the message the Redis thread works on
    sent, taken, dropped, handled, emptied  \* history

control == <<settings, pc, failed, slot, tick>>
live == <<buffer, tickBuffer, held, old, bulk, sent, taken, dropped, handled>>
vars == <<control, tree, ticked, notified, live, emptied>>

Children(present, a) == {c \in present \ {Root} : Parent[c] = a}
(* a and what is below it, at any depth: what no set that is closed under  *)
(* children and has a can do without.                                      *)
Closed(areas) == \A c \in Areas \ {Root} : Parent[c] \in areas => c \in areas
Subtree(a) == {c \in Areas : \A areas \in SUBSET Areas : a \in areas /\ Closed(areas) => c \in areas}
Newest(s) == Max(s \cup {-1})
Get(f, key) == IF key \in DOMAIN f THEN f[key] ELSE {}
-----------------------------------------------------------------------------
(* Area events.  The last enable or disable event that is due decides, and *)
(* no interval may hold; the same for connect and disconnect.              *)

Hour(s) == s \div SlotsPerHour
IndividualEventsActive(events, on, off, hour) ==
    LET due == {e \in events : e.kind \in {on, off} /\ e.at <= hour}
    IN  due = {} \/ \E e \in due : e.kind = on /\ \A x \in due : x.at <= e.at
IntervalActive(events, kind, hour) ==
    \A e \in events : e.kind = kind => ~ (e.from <= hour /\ hour < e.to)
IsEnabled(a, s) ==
    LET events == Get(settings.events, a) IN
    /\ IndividualEventsActive(events, "enable", "disable", Hour(s))
    /\ IntervalActive(events, "disable_interval", Hour(s))
IsConnected(a, s) ==
    LET events == Get(settings.events, a) IN
    /\ IndividualEventsActive(events, "connect", "disconnect", Hour(s))
    /\ IntervalActive(events, "disconnect_interval", Hour(s))
-----------------------------------------------------------------------------
(* The rotators.  A market that is over moves to the past and is read-only *)
(* there; past markets are deleted when nothing needs them any more.       *)

ItIsTimeToRotate(type, s) == IF type = "settlement" THEN s < slot - MaxAge ELSE s < slot
ItIsTimeToDelete(type, s) ==
    IF type = "settlement" THEN s < slot - MaxAge - 1
    ELSE IF settings.settlement THEN s < slot - MaxAge ELSE s < slot - 1
RotateMarkets(t, a) ==
    LET over(type) == {s \in t.markets[a][type] : ItIsTimeToRotate(type, s)} IN
    [t EXCEPT !.markets[a] = [type \in Types |-> @[type] \ over(type)],
              !.past[a] = [type \in Types |-> {s \in @[type] \cup over(type) : ~ ItIsTimeToDelete(type, s)}]]

(* The future market drops the slots that are over and opens new ones up   *)
(* to its horizon, within the simulation.                                  *)
RotateFuture(t, a) == [t EXCEPT !.future[a] = {s \in @ : s > slot}]
CreateFutureMarketSlots(t, a) ==
    [t EXCEPT !.future[a] = @ \cup {s \in slot + 1 .. slot + FutureSlots : s <= LastSlot}]

(* event_market_cycle of the dispatcher: agents of slots before the last   *)
(* past spot market are deleted, whatever the type of their market.        *)
DeletePastAgents_Never(t, a) == t
DeletePastAgents(t, a) ==
    LET last == Newest(t.past[a]["spot"]) IN
    [t EXCEPT !.agents[a] = [type \in Types |-> {s \in @[type] : s >= last}]]

ShouldAgentBeCreated(t, a) ==
    /\ a # Root /\ a \notin Assets
    /\ t.connected[Parent[a]] /\ Children(t.present, a) # {}
CreateMarketAgents(t, a, type, s) ==
    IF ShouldAgentBeCreated(t, a) /\ s \in t.markets[Parent[a]][type]
    THEN [t EXCEPT !.agents[a][type] = @ \cup {s}] ELSE t
CreateMarket(t, a, type, s) ==
    CreateMarketAgents([t EXCEPT !.markets[a][type] = @ \cup {s}], a, type, s)

CreateNewSpotMarket(t, a, type) ==
    IF slot \in t.markets[a][type] THEN t ELSE CreateMarket(t, a, type, slot)
CreateSettlementMarket(t, a) ==
    LET last == Newest(t.past[a]["spot"]) IN
    IF settings.settlement /\ last >= 0 THEN CreateMarket(t, a, "settlement", last) ELSE t
UpdateMarketIds_Never(t, a) == t
UpdateMarketIds(t, a) == [t EXCEPT !.ids[a] = t.markets[a]]

UpdateEvents(t, a) ==
    [t EXCEPT !.enabled[a] = IsEnabled(a, slot), !.connected[a] = IsConnected(a, slot)]

(* cycle_markets of one area, up to the event it sends to its children; an *)
(* area without children keeps the markets it has.                         *)
CycleOwnMarkets(t, a) ==
    LET u == UpdateEvents(t, a)
        v == DeletePastAgents(CreateFutureMarketSlots(RotateFuture(RotateMarkets(u, a), a), a), a)
        w == CreateSettlementMarket(CreateNewSpotMarket(v, a, "spot"), a)
        x == IF settings.balancing THEN CreateNewSpotMarket(w, a, "balancing") ELSE w
    IN  IF Children(t.present, a) = {} THEN u
        ELSE [UpdateMarketIds(x, a) EXCEPT !.emptied = @ \ {a}]

(* The market cycle goes to the children when a spot market was created or *)
(* the area has no past market yet.                                        *)
Broadcasts(before, t, a) ==
    /\ Children(t.present, a) # {}
    /\ slot \notin before.markets[a]["spot"] \/ t.past[a]["spot"] = {}
CycleArea(t, a) ==
    LET u == CycleOwnMarkets(t, a) IN
    IF a \notin t.present \/ (a # Root /\ Parent[a] \notin t.reached) THEN t
    ELSE IF Broadcasts(t, u, a) THEN [u EXCEPT !.reached = @ \cup {a}] ELSE u
CycleBelow(t) ==
    LET walk[i \in 0 .. Len(TopDown)] ==
            IF i = 0 THEN [t EXCEPT !.reached = {}] ELSE CycleArea(walk[i - 1], TopDown[i])
    IN  walk[Len(TopDown)]

(* calculate_energy_deviances, from the leaves up: an asset reports for    *)
(* the last slot of its parent, an area for its own last slot, and looks   *)
(* that slot up at each of its children, where it may be missing.          *)
CurrentMarket(t, a) ==
    IF t.past[a]["spot"] # {} THEN Newest(t.past[a]["spot"])
    ELSE IF a # Root THEN Newest(t.past[Parent[a]]["spot"]) ELSE -1
CalculateEnergyDeviances(t, a) ==
    LET s == CurrentMarket(t, a) IN
    IF ~ settings.settlement \/ s < 0 THEN t
    ELSE IF \E c \in Children(t.present, a) : s \notin t.deviances[c] THEN [t EXCEPT !.error = TRUE]
    ELSE [t EXCEPT !.deviances[a] = (@ \cup {s}) \ (0 .. slot - 3)]
CalculateAllDeviances(t) ==
    LET walk[i \in 0 .. Len(TopDown)] ==
            LET a == TopDown[Len(TopDown) + 1 - i] IN
            IF i = 0 THEN t
            ELSE IF a \in t.present THEN CalculateEnergyDeviances(walk[i - 1], a) ELSE walk[i - 1]
    IN  walk[Len(TopDown)]

CycleMarkets(t) == CalculateAllDeviances(CycleBelow(t))
-----------------------------------------------------------------------------
(* Activation, from the top: the first markets of an area are created      *)
(* before its children are activated.                                      *)

NoMarkets == [type \in Types |-> {}]
ActivateArea(t, a) ==
    CalculateEnergyDeviances(CycleOwnMarkets(t, a), a)

Unactivated ==
    [present |-> Initially, reached |-> {}, emptied |-> {}, error |-> FALSE,
     markets |-> [a \in Areas |-> NoMarkets], past |-> [a \in Areas |-> NoMarkets],
     ids |-> [a \in Areas |-> NoMarkets], agents |-> [a \in Areas |-> NoMarkets],
     future |-> [a \in Areas |-> {}], deviances |-> [a \in Areas |-> {}],
     enabled |-> [a \in Areas |-> TRUE], connected |-> [a \in Areas |-> TRUE]]
ActivateOneOf(t, areas, a) == IF a \in areas /\ ~ t.error THEN ActivateArea(t, a) ELSE t
Activate(t, areas) ==
    LET walk[i \in 0 .. Len(TopDown)] ==
            IF i = 0 THEN t ELSE ActivateOneOf(walk[i - 1], areas, TopDown[i])
    IN  walk[Len(TopDown)]

Init ==
    /\ settings \in [settlement : BOOLEAN, balancing : BOOLEAN, events : EventLists]
    /\ pc = "activate" /\ failed = "no" /\ slot = 0 /\ tick = 0
    /\ tree = Unactivated /\ ticked = {} /\ notified = {}
    /\ buffer = <<>> /\ tickBuffer = <<>> /\ held = "none" /\ old = <<>>
    /\ bulk = <<>> /\ sent = 0 /\ taken = {} /\ dropped = {} /\ handled = <<>> /\ emptied = FALSE

ActivateAreas ==
    /\ pc = "activate" /\ pc' = "cycle"
    /\ tree' = Activate(tree, tree.present)
    /\ UNCHANGED <<settings, failed, slot, tick, ticked, notified, live, emptied>>

CycleAllMarkets ==
    /\ pc = "cycle"
    /\ tree' = CycleMarkets(tree)
    /\ IF tree'.error THEN pc' = "failed" /\ failed' = "deviance" ELSE pc' = "events" /\ UNCHANGED failed
    /\ ticked' = {} /\ notified' = {} /\ UNCHANGED <<settings, slot, tick, live, emptied>>
-----------------------------------------------------------------------------
(* One tick.  The root always ticks; the event goes on to the children of  *)
(* an enabled area, and a child ticks if it is connected and enabled.      *)
ReachedByTick(t, a) == t.connected[a] /\ t.enabled[a]
TickedAreas(t) ==
    FoldLeft(LAMBDA u, a : IF a = Root \/ (a \in t.present /\ Parent[a] \in u /\ t.enabled[Parent[a]]
                                           /\ ReachedByTick(t, a))
                           THEN u \cup {a} ELSE u, {}, TopDown)

(* Agents hear the event from the dispatcher of their own area and from    *)
(* that of the parent, each of which must be enabled and connected.        *)
Notifies(t, ticks, a) == a \in ticks /\ t.enabled[a] /\ t.connected[a]
NotifiedAgents(t, ticks) ==
    {a \in t.present : /\ a \notin Assets /\ Children(t.present, a) # {}
                       /\ t.agents[a]["spot"] \cap t.markets[a]["spot"] # {}
                       /\ (Notifies(t, ticks, a) \/ Notifies(t, ticks, Parent[a]))}

TickAndDispatch ==
    /\ pc = "tick" /\ pc' = "tick_events"
    /\ ticked' = TickedAreas(tree) /\ notified' = NotifiedAgents(tree, TickedAreas(tree))
    /\ UNCHANGED <<settings, failed, slot, tick, tree, live, emptied>>
-----------------------------------------------------------------------------
(* The Redis thread.  Every event of a message is added under the lock; a  *)
(* malformed event of a bulk replaces the buffer, with the events of other *)
(* messages in it.                                                         *)

Event(request, id) == [request |-> request, id |-> id]
Malformed(e) == e.request.kind = "malformed"

SendMessage ==
    /\ bulk = <<>> /\ sent < MaxMessages /\ pc \notin {"done", "failed"}
    /\ \E requests \in Requests :
           /\ bulk' = [i \in DOMAIN requests |-> Event(requests[i], sent + i)]
           /\ sent' = sent + Len(requests)
    /\ UNCHANGED <<control, tree, ticked, notified, buffer, tickBuffer, held, old, taken, dropped, handled,
                   emptied>>

ResetBuffer_Clears ==
    buffer' = <<>> /\ dropped' = dropped \cup {e.id : e \in ToSet(buffer)} /\ UNCHANGED <<held, old>>
ResetBuffer ==
    /\ buffer' = <<>>
    /\ IF held = "current" THEN held' = "old" /\ old' = buffer /\ UNCHANGED dropped
       ELSE UNCHANGED <<held, old>> /\ dropped' = dropped \cup {e.id : e \in ToSet(buffer)}

AddEvent ==
    /\ bulk # <<>>
    /\ LET e == Head(bulk) IN
       IF Malformed(e)
       THEN /\ bulk' = <<>> /\ UNCHANGED tickBuffer
            /\ IF e.request.bulk THEN ResetBuffer ELSE UNCHANGED <<buffer, held, old, dropped>>
       ELSE /\ bulk' = Tail(bulk) /\ UNCHANGED <<held, old, dropped>>
            /\ IF e.request.kind = "forward"
               THEN tickBuffer' = Append(tickBuffer, e) /\ UNCHANGED buffer
               ELSE buffer' = Append(buffer, e) /\ UNCHANGED tickBuffer
    /\ UNCHANGED <<control, tree, ticked, notified, sent, taken, handled, emptied>>
-----------------------------------------------------------------------------
(* What an event does to the tree.  CreateAreaEvent adds an area with all  *)
(* that is below it; when its activation raises it is taken out again.     *)
CreateArea(t, a) ==
    LET p == Parent[a]
        fresh == [t EXCEPT !.present = @ \cup Subtree(a), !.emptied = @ \ Subtree(a),
                           !.markets = [c \in Areas |-> IF c \in Subtree(a) THEN NoMarkets ELSE @[c]],
                           !.past = [c \in Areas |-> IF c \in Subtree(a) THEN NoMarkets ELSE @[c]],
                           !.ids = [c \in Areas |-> IF c \in Subtree(a) THEN NoMarkets ELSE @[c]],
                           !.agents = [c \in Areas |-> IF c \in Subtree(a) THEN NoMarkets ELSE @[c]],
                           !.future = [c \in Areas |-> IF c \in Subtree(a) THEN {} ELSE @[c]],
                           !.deviances = [c \in Areas |-> IF c \in Subtree(a) THEN {} ELSE @[c]]]
        ready == IF t.markets[p]["spot"] = {} THEN CycleOwnMarkets(fresh, p) ELSE fresh
        active == Activate(ready, Subtree(a))
    IN  IF p \notin t.present \/ a \in t.present THEN t
        ELSE IF active.error THEN [ready EXCEPT !.present = t.present] ELSE active

(* DeleteAreaEvent: the area is no longer a child.  A parent without       *)
(* children gets a new dispatcher, and with it loses its agents.           *)
DeleteArea(t, a) ==
    IF a \notin t.present \ {Root} THEN t
    ELSE LET rest == t.present \ Subtree(a) IN
         IF Children(rest, Parent[a]) # {} THEN [t EXCEPT !.present = rest]
         ELSE [t EXCEPT !.present = rest, !.agents[Parent[a]] = NoMarkets, !.emptied = @ \cup {Parent[a]}]

ApplyEvent(t, e) ==
    CASE e.request.kind = "create" -> CreateArea(t, e.request.area)
      [] e.request.kind = "delete" -> DeleteArea(t, e.request.area)
      [] OTHER -> t

ApplyEvents(t, events) ==
    LET walk[i \in 0 .. Len(events)] == IF i = 0 THEN t ELSE ApplyEvent(walk[i - 1], events[i])
    IN  walk[Len(events)]

(* ForwardMarketsEvent looks for the parent of the area it names and       *)
(* addresses the strategy of that parent, which has none.                  *)
RaisesOnApply(t, e) == e.request.kind = "forward" /\ e.request.area \in t.present \ {Root}

(* handle_all_events passes the buffer to _handle_events, which takes the  *)
(* lock, applies every event and clears the list it was given.             *)
TakeBuffer ==
    /\ pc = "events" /\ pc' = "apply" /\ held' = "current" /\ taken' = {e.id : e \in ToSet(buffer)}
    /\ UNCHANGED <<settings, failed, slot, tick, tree, ticked, notified, buffer, tickBuffer, old, bulk,
                   sent, dropped, handled, emptied>>
HandleAllEvents ==
    /\ pc = "apply" /\ pc' = "tick" /\ held' = "none" /\ old' = <<>>
    /\ LET events == IF held = "old" THEN old ELSE buffer IN
       /\ tree' = ApplyEvents(tree, events)
       /\ handled' = handled \o events
       /\ buffer' = IF held = "old" THEN buffer ELSE <<>>
    /\ emptied' = (emptied \/ tree'.emptied # {})
    /\ UNCHANGED <<settings, failed, slot, tick, ticked, notified, tickBuffer, bulk, sent, taken, dropped>>

NextTick ==
    IF tick < LastTick THEN pc' = "tick" /\ tick' = tick + 1 /\ UNCHANGED slot
    ELSE IF slot < LastSlot THEN pc' = "cycle" /\ tick' = 0 /\ slot' = slot + 1
    ELSE pc' = "done" /\ UNCHANGED <<tick, slot>>
HandleTickEvents ==
    /\ pc = "tick_events"
    /\ IF \E e \in ToSet(tickBuffer) : RaisesOnApply(tree, e)
       THEN pc' = "failed" /\ failed' = "forward event" /\ UNCHANGED <<tick, slot, tickBuffer, handled>>
       ELSE /\ NextTick /\ UNCHANGED failed /\ tickBuffer' = <<>>
            /\ handled' = handled \o tickBuffer
    /\ UNCHANGED <<settings, tree, ticked, notified, buffer, held, old, bulk, sent, taken, dropped, emptied>>

Next ==
    \/ ActivateAreas \/ CycleAllMarkets \/ TakeBuffer \/ HandleAllEvents
    \/ TickAndDispatch \/ HandleTickEvents
    \/ SendMessage \/ AddEvent
Spec == Init /\ [][Next]_vars
-----------------------------------------------------------------------------
(* Properties. *)

Trading == {"tick", "tick_events"}
Trades(a) == a \in tree.present \ Assets /\ Children(tree.present, a) # {}

TypeOK ==
    /\ pc \in {"activate", "cycle", "events", "apply", "tick", "tick_events", "done", "failed"}
    /\ failed \in {"no", "deviance", "forward event"} /\ slot \in 0 .. LastSlot /\ tick \in 0 .. LastTick
    /\ tree.present \subseteq Areas /\ Root \in tree.present
    /\ \A a \in tree.present \ {Root} : Parent[a] \in tree.present
    /\ \A a \in Areas, type \in Types :
           /\ tree.markets[a][type] \cup tree.past[a][type] \cup tree.agents[a][type] \subseteq 0 .. slot
           /\ tree.ids[a][type] \subseteq 0 .. slot
    /\ held \in {"none", "current", "old"} /\ (held # "old" => old = <<>>)

(* While a slot is traded every area with children, unless it lost all of  *)
(* them since the last market cycle, has exactly the spot and balancing market of that slot,    *)
(* exactly the settlement markets its past markets call for and the future *)
(* slots up to the horizon; its id lists, which route every market event,  *)
(* name exactly these; and no market is open and past at once.             *)
MarketsInStep ==
    pc \in Trading => \A a \in tree.present : Trades(a) /\ a \notin tree.emptied =>
        /\ tree.markets[a]["spot"] = {slot}
        /\ tree.markets[a]["balancing"] = IF settings.balancing THEN {slot} ELSE {}
        /\ tree.markets[a]["settlement"] =
               IF settings.settlement THEN {s \in tree.past[a]["spot"] : s >= slot - MaxAge} ELSE {}
        /\ tree.future[a] = {s \in slot + 1 .. slot + FutureSlots : s <= LastSlot}
        /\ tree.ids[a] = tree.markets[a]
        /\ \A type \in Types : tree.markets[a][type] \cap tree.past[a][type] = {}

(* An agent never outlives the markets it links: the market of its own     *)
(* area and that of the parent are still kept, open or past, with their    *)
(* orders and listeners, which the rotators delete one by one.             *)
AgentsHaveMarkets ==
    pc \in Trading \cup {"events", "apply"} =>
        \A a \in tree.present \ {Root}, type \in Types : \A s \in tree.agents[a][type] :
            /\ s \in tree.markets[a][type] \cup tree.past[a][type]
            /\ s \in tree.markets[Parent[a]][type] \cup tree.past[Parent[a]][type]

(* While a slot is traded every area below a connected parent is linked to *)
(* it for that slot, also an area that was created in the middle of it;    *)
(* an area or a parent that lost all its children since the last market    *)
(* cycle excepted.                                                         *)
AreasAreLinked ==
    pc \in Trading => \A a \in tree.present \ {Root} :
        Trades(a) /\ a \notin tree.emptied /\ Parent[a] \notin tree.emptied /\ tree.connected[Parent[a]] =>
            slot \in tree.agents[a]["spot"]

(* The main thread dies of an exception only in the two situations known:  *)
(* with settlement markets, after an area lost its last child; and when a  *)
(* forward event names an area of the tree.                                *)
FailsOnlyWhenKnown ==
    /\ failed = "deviance" => settings.settlement /\ emptied
    /\ failed = "forward event" => \E e \in ToSet(tickBuffer) : e.request.area \in tree.present

(* Whatever is created, deleted or disabled in between, the markets of all *)
(* areas stay in step with the slot, and only the known situations end the *)
(* simulation.                                                             *)
MarketsFollowTheTree == TypeOK /\ MarketsInStep /\ FailsOnlyWhenKnown

(* Agents link exactly the markets that exist.                             *)
AgentsLinkMarkets == AgentsHaveMarkets /\ AreasAreLinked

(* Live events are handled once, those of a market cycle and those of a    *)
(* tick each in the order in which they came, and none that was thrown     *)
(* away is handled.  What is in the buffer when the main thread takes it   *)
(* is handled in that slot, even if a bulk fails before the lock is taken. *)
EventsHandledInOrder ==
    LET forward(e) == e.request.kind = "forward"
        ids == {e.id : e \in ToSet(handled)}
    IN  /\ \A i, j \in DOMAIN handled :
               i < j /\ forward(handled[i]) = forward(handled[j]) => handled[i].id < handled[j].id
        /\ ids \cap (dropped \cup {e.id : e \in ToSet(buffer \o old \o tickBuffer)}) = {}
        /\ pc \in Trading => taken \subseteq ids

(* backend_events.md of a disconnected market: it goes on trading inside,  *)
(* and not with the rest of the grid.  So the areas below it still get     *)
(* their ticks, and its agent does not.                                    *)
DisconnectedTradesInside ==
    pc = "tick_events" => \A a \in tree.present \ {Root} :
        ~ tree.connected[a] /\ (\A c \in tree.present : tree.enabled[c] /\ (c # a => tree.connected[c])) =>
            /\ Children(tree.present, a) \subseteq ticked
            /\ a \notin notified
-----------------------------------------------------------------------------
(* The inductive invariant behind EventsHandledInOrder.  An event is at    *)
(* any moment in one place: in the message, in one of the buffers, in the  *)
(* list the main thread holds, among the handled or among the dropped.     *)

LiveEvent == [request : UNION {ToSet(message) : message \in Requests}, id : Nat]
Forward(e) == e.request.kind = "forward"
Ids(events) == {e.id : e \in ToSet(events)}
Before(events, later) == \A d \in ToSet(events), e \in ToSet(later) : d.id < e.id
Apart(events, others) == \A d \in ToSet(events), e \in ToSet(others) : d.id # e.id
Increasing(events) == \A i, j \in DOMAIN events : i < j => events[i].id < events[j].id
InOrderByKind(events) ==
    \A i, j \in DOMAIN events :
        i < j /\ Forward(events[i]) = Forward(events[j]) => events[i].id < events[j].id

LiveTyped ==
    /\ {handled, old, buffer, tickBuffer, bulk} \subseteq Seq(LiveEvent)
    /\ sent \in Nat /\ dropped \subseteq Nat
    /\ held \in {"none", "current", "old"} /\ (held # "old" => old = <<>>)
    /\ pc = "apply" <=> held # "none"
    /\ \A e \in ToSet(old) \cup ToSet(buffer) : ~ Forward(e)
    /\ \A e \in ToSet(tickBuffer) : Forward(e)

(* What is taken later has the higher number.                              *)
LiveOrdered ==
    /\ InOrderByKind(handled)
    /\ Increasing(old) /\ Increasing(buffer) /\ Increasing(tickBuffer) /\ Increasing(bulk)
    /\ Before(old, buffer)
    /\ \A d \in ToSet(handled) :
          IF Forward(d) THEN \A e \in ToSet(tickBuffer) : d.id < e.id
          ELSE \A e \in ToSet(old) \cup ToSet(buffer) : d.id < e.id
    /\ \A events \in {handled, old, buffer, tickBuffer} : Before(events, bulk)
    /\ \A events \in {handled, old, buffer, tickBuffer, bulk} : \A i \in Ids(events) : i <= sent

(* No event is in two places, and the events taken by the main thread stay *)
(* in the list it holds until they are handled.                            *)
LiveApart ==
    /\ \A events \in {old, buffer, tickBuffer} : Apart(handled, events)
    /\ Apart(old, tickBuffer) /\ Apart(buffer, tickBuffer)
    /\ \A events \in {handled, old, buffer, tickBuffer} : dropped \cap Ids(events) = {}
    /\ \A i \in dropped : i <= sent /\ \A e \in ToSet(bulk) : i < e.id
    /\ pc = "apply" => taken \subseteq Ids(IF held = "old" THEN old ELSE buffer)
    /\ pc \in Trading => taken \subseteq Ids(handled)

LiveInv == LiveTyped /\ LiveOrdered /\ LiveApart
-----------------------------------------------------------------------------
(* The inductive invariant behind MarketsFollowTheTree and AgentsLinkMarkets. *)

MarketSlots == [Types -> SUBSET Slots]
Trees ==
    [present : SUBSET Areas, reached : SUBSET Areas, emptied : SUBSET Areas, error : BOOLEAN,
     markets : [Areas -> MarketSlots], past : [Areas -> MarketSlots],
     ids : [Areas -> MarketSlots], agents : [Areas -> MarketSlots],
     future : [Areas -> SUBSET Slots], deviances : [Areas -> SUBSET Slots],
     enabled : [Areas -> BOOLEAN], connected : [Areas -> BOOLEAN]]

(* An area without children has no markets; the last market cycle of one   *)
(* with children left the markets of its slot.                             *)
Idle(t, a) ==
    /\ t.markets[a] = NoMarkets /\ t.past[a] = NoMarkets /\ t.agents[a] = NoMarkets
    /\ t.future[a] = {}
InStep(t, a, k) ==
    /\ t.markets[a]["spot"] = {k}
    /\ t.markets[a]["balancing"] = IF settings.balancing THEN {k} ELSE {}
    /\ t.markets[a]["settlement"] =
           IF settings.settlement THEN {s \in t.past[a]["spot"] : s >= k - MaxAge} ELSE {}
    /\ t.future[a] = {s \in k + 1 .. k + FutureSlots : s <= LastSlot}
    /\ t.ids[a] = t.markets[a]
    /\ \A s \in t.past[a]["spot"] \cup t.past[a]["balancing"] : s < k
    /\ \A s \in t.past[a]["settlement"] : s < k - MaxAge

(* An area that lost its children keeps the markets of an earlier slot.    *)
Stale(t, a, k) == t.agents[a] = NoMarkets /\ \E j \in 0 .. k : InStep(t, a, j)

KeepsMarket(t, a, type, s) == s \in t.markets[a][type] \cup t.past[a][type]
IsLinked(t, a, k) ==
    a \notin Assets /\ Children(t.present, a) # {} /\ IsConnected(Parent[a], k) => k \in t.agents[a]["spot"]

(* What holds of an area once it had the market cycle of slot n, ...       *)
Settled(t, a, n) ==
    /\ IF a \in t.emptied THEN Stale(t, a, n)
       ELSE IF Children(t.present, a) = {} THEN Idle(t, a) ELSE InStep(t, a, n)
    /\ t.connected[a] = IsConnected(a, n)
    /\ a # Root =>
          /\ a \notin t.emptied /\ Parent[a] \notin t.emptied => IsLinked(t, a, n)
          /\ \A type \in Types : \A s \in t.agents[a][type] :
                KeepsMarket(t, a, type, s) /\ KeepsMarket(t, Parent[a], type, s)

(* ... and before it, when the last cycle was that of slot k and the parent *)
(* may be ahead.                                                           *)
Waiting(t, a, k, n) ==
    /\ IF a \in t.emptied THEN Stale(t, a, k) /\ n = k + 1
       ELSE Idle(t, a) \/ (Children(t.present, a) # {} /\ InStep(t, a, k) /\ (n = k + 1 \/ (n = 0 /\ k = 0)))
    /\ a # Root =>
          /\ n = k /\ InStep(t, a, n) => IsLinked(t, a, n)
          /\ \A type \in Types : \A s \in t.agents[a][type] :
                KeepsMarket(t, a, type, s) /\ (s >= n - 1 => KeepsMarket(t, Parent[a], type, s))

IsTree(t, n) ==
    /\ t \in Trees
    /\ Root \in t.present /\ \A a \in t.present \ {Root} : Parent[a] \in t.present
    /\ \A a \in Areas, type \in Types :
          t.markets[a][type] \cup t.past[a][type] \cup t.agents[a][type] \cup t.ids[a][type] \subseteq 0 .. n

(* The walk of the cycle of slot n has come to the areas done.             *)
Walk(t, done, k, n) ==
    /\ IsTree(t, n)
    /\ \A a \in t.present \cap done : Settled(t, a, n)
    /\ \A a \in t.present \ done : Waiting(t, a, k, n)
AllSettled(t, n) == Walk(t, Areas, n, n)

LastCycle == IF pc = "cycle" /\ slot > 0 THEN slot - 1 ELSE slot
TreeInv ==
    /\ settings \in [settlement : BOOLEAN, balancing : BOOLEAN, events : EventLists]
    /\ pc \in {"activate", "cycle", "events", "apply", "tick", "tick_events", "done", "failed"}
    /\ slot \in 0 .. LastSlot /\ tick \in 0 .. LastTick /\ emptied \in BOOLEAN
    /\ pc = "activate" => tree = Unactivated /\ slot = 0
    /\ pc # "activate" => AllSettled(tree, LastCycle)
    /\ pc # "failed" => ~ tree.error
    /\ tree.emptied # {} => emptied
    /\ pc \in {"activate", "cycle"} /\ slot = 0 => ~ emptied
    /\ failed \in {"no", "deviance", "forward event"} /\ (failed # "no" => pc = "failed")
    /\ FailsOnlyWhenKnown
=============================================================================
