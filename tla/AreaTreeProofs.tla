--------------------------- MODULE AreaTreeProofs ---------------------------
(***************************************************************************)
(* Proofs about the markets and agents of AreaMarkets, for every tree of   *)
(* areas, every set of messages and area events, and any number of slots   *)
(* and ticks.                                                              *)
(*                                                                         *)
(* The market cycle, the activation and the live events are walks over the *)
(* tree that change one area at a time, and in the middle of a walk the    *)
(* areas are not in step.  Walk says what holds then: the areas the walk   *)
(* came to are settled for the slot, the others wait with what the last    *)
(* cycle left.  The lemmas go from one area (what its market cycle does to *)
(* its own markets and agents, and that it touches no others), over one    *)
(* step of a walk, to the whole walk, and from there to the actions.       *)
(***************************************************************************)
EXTENDS AreaMarketsProofs, EnergySumsProofs
-----------------------------------------------------------------------------
(* Walks over a sequence of steps. *)

LEMMA CountUp ==
    ASSUME NEW n \in Nat, NEW T, 0 \in T, \A i \in 1 .. n : i - 1 \in T => i \in T
    PROVE  \A i \in 0 .. n : i \in T
<1>. DEFINE Bad == {i \in 0 .. n : i \notin T}
<1>. SUFFICES ASSUME Bad # {} PROVE FALSE
  OBVIOUS
<1>1. Bad \subseteq Nat
  OBVIOUS
<1>2. PICK m \in Bad : \A k \in Bad : m <= k
  BY <1>1, LeastElement
<1>3. m # 0 /\ m \in 1 .. n
  BY <1>2
<1>4. m - 1 \in 0 .. n /\ m - 1 \notin Bad
  BY <1>2, <1>3
<1>. QED BY <1>2, <1>3, <1>4

Steps(g, s, step, n) == \A i \in 0 .. n : g[i] = IF i = 0 THEN s ELSE step[<<i, g[i - 1]>>]
LEMMA WalkExists ==
    ASSUME NEW n \in Nat, NEW S, NEW s \in S, NEW step \in [(1 .. n) \X S -> S]
    PROVE  \E g \in [0 .. n -> S] : Steps(g, s, step, n)
<1>. DEFINE IsWalk(g, m) == \A i \in 0 .. m : g[i] = IF i = 0 THEN s ELSE step[<<i, g[i - 1]>>]
            T == {m \in 0 .. n : \E g \in [0 .. m -> S] : IsWalk(g, m)}
<1>1. 0 \in T
  <2>1. [i \in 0 .. 0 |-> s] \in [0 .. 0 -> S] /\ IsWalk([i \in 0 .. 0 |-> s], 0)
    OBVIOUS
  <2>. HIDE DEF IsWalk
  <2>. QED BY <2>1
<1>2. ASSUME NEW m \in 1 .. n, m - 1 \in T PROVE m \in T
  <2>1. PICK g \in [0 .. m - 1 -> S] : IsWalk(g, m - 1)
    BY <1>2
  <2>. DEFINE next == step[<<m, g[m - 1]>>]
              h == [i \in 0 .. m |-> IF i = m THEN next ELSE g[i]]
  <2>2. next \in S
    <3>1. g[m - 1] \in S
      BY <2>1
    <3>. QED BY <3>1
  <2>3. h \in [0 .. m -> S]
    BY <2>1, <2>2
  <2>4. ASSUME NEW i \in 0 .. m PROVE h[i] = IF i = 0 THEN s ELSE step[<<i, h[i - 1]>>]
    <3>1. CASE i = m
      <4>1. i # 0 /\ i - 1 \in 0 .. m /\ i - 1 # m /\ h[i] = next
        BY <3>1
      <4>2. h[i - 1] = g[m - 1]
        BY <3>1, <4>1
      <4>. QED BY <3>1, <4>1, <4>2, Zenon
    <3>2. CASE i # m
      <4>1. i \in 0 .. m - 1 /\ h[i] = g[i]
        BY <3>2
      <4>2. g[i] = IF i = 0 THEN s ELSE step[<<i, g[i - 1]>>]
        BY <4>1, <2>1
      <4>3. i # 0 => h[i - 1] = g[i - 1]
        BY <4>1
      <4>. QED BY <4>1, <4>2, <4>3, Zenon
    <3>. QED BY <3>1, <3>2
  <2>. HIDE DEF h
  <2>5. IsWalk(h, m)
    BY <2>4
  <2>. QED BY <1>2, <2>3, <2>5
<1>3. n \in T
  <2>. HIDE DEF T
  <2>. QED BY <1>1, <1>2, CountUp
<1>. QED BY <1>3 DEF Steps
-----------------------------------------------------------------------------
(* The tree of areas. *)

LEMMA NewestOf ==
    ASSUME NEW S \in SUBSET Slots
    PROVE  /\ Newest(S) \in S \cup {-1} /\ Newest(S) \in Int
           /\ \A s \in S : s <= Newest(S) /\ Newest(S) \in S
<1>. DEFINE T == S \cup {-1}
<1>0. LastSlot \in Nat
  BY TreeAssumption
<1>1. \E x \in T : \A y \in T : x >= y
  <2>1. CASE S = {}
    BY <2>1
  <2>2. CASE S # {}
    <3>. DEFINE R == {i \in 0 .. LastSlot : LastSlot - i \in S}
    <3>1. R \subseteq Nat /\ R # {}
      <4>1. PICK x \in S : x \in 0 .. LastSlot
        BY <2>2 DEF Slots
      <4>2. LastSlot - x \in R
        BY <1>0, <4>1
      <4>. QED BY <4>2
    <3>2. PICK m \in R : \A k \in R : m <= k
      BY <3>1, LeastElement
    <3>3. LastSlot - m \in T
      OBVIOUS
    <3>4. ASSUME NEW y \in T PROVE LastSlot - m >= y
      <4>1. CASE y \in S
        <5>1. LastSlot - y \in R
          BY <1>0, <4>1 DEF Slots
        <5>. QED BY <1>0, <3>2, <5>1, <4>1 DEF Slots
      <4>. QED BY <1>0, <4>1, <3>2
    <3>. QED BY <3>3, <3>4
  <2>. QED BY <2>1, <2>2
<1>2. Newest(S) \in T /\ \A y \in T : Newest(S) >= y
  BY <1>1 DEF Newest, Max
<1>3. \A y \in S : y \in Int /\ y # -1 /\ y >= 0
  BY <1>0 DEF Slots
<1>. HIDE DEF Newest
<1>4. \A y \in T : Newest(S) \in Int /\ y \in Int /\ y <= Newest(S)
  BY <1>2, <1>3
<1>5. ASSUME NEW y \in S PROVE Newest(S) \in S
  BY <1>2, <1>3, <1>4
<1>. QED BY <1>2, <1>4, <1>5

LEMMA AreaFacts ==
    /\ Len(TopDown) \in Nat /\ DOMAIN TopDown = 1 .. Len(TopDown) /\ Len(TopDown) >= 1
    /\ Areas = {TopDown[i] : i \in 1 .. Len(TopDown)}
    /\ Root \in Areas /\ \A a \in Areas \ {Root} : Parent[a] \in Areas /\ Parent[a] # a
<1>1. TopDown \in Seq(Areas) /\ TopDown # <<>>
  BY TreeAssumption DEF Areas
<1>2. Len(TopDown) \in Nat /\ DOMAIN TopDown = 1 .. Len(TopDown) /\ Len(TopDown) >= 1
  BY <1>1
<1>3. Areas = {TopDown[i] : i \in 1 .. Len(TopDown)}
  BY <1>2 DEF Areas, ToSet
<1>4. Root \in Areas
  BY <1>2, <1>3 DEF Root
<1>5. ASSUME NEW a \in Areas \ {Root} PROVE Parent[a] \in Areas /\ Parent[a] # a
  <2>1. PICK i \in DOMAIN TopDown : a = TopDown[i]
    BY <1>2, <1>3
  <2>2. i # 1
    BY <2>1 DEF Root
  <2>3. Parent[a] \in Areas
    BY TreeAssumption DEF Areas, Root
  <2>4. Parent[TopDown[i]] = TopDown[i] => i < i
    BY <2>2, TreeAssumption
  <2>. QED BY <2>1, <2>3, <2>4, <1>2
<1>. QED BY <1>2, <1>3, <1>4, <1>5
-----------------------------------------------------------------------------
(* The market cycle of an area touches its own markets and agents only.    *)

SameRow(t, u, b) ==
    /\ u.markets[b] = t.markets[b] /\ u.past[b] = t.past[b] /\ u.ids[b] = t.ids[b]
    /\ u.agents[b] = t.agents[b] /\ u.future[b] = t.future[b] /\ u.connected[b] = t.connected[b]
    /\ b \in u.emptied <=> b \in t.emptied
SameTree(t, u) ==
    u.present = t.present /\ u.reached = t.reached /\ u.error = t.error /\ u.deviances = t.deviances
OnlyRow(t, u, a) ==
    u \in Trees /\ SameTree(t, u) /\ \A b \in Areas \ {a} : SameRow(t, u, b)

LEMMA OnlyRowTransitive ==
    ASSUME NEW t, NEW u, NEW v, NEW a, OnlyRow(t, u, a), OnlyRow(u, v, a)
    PROVE  OnlyRow(t, v, a)
BY DEF OnlyRow, SameTree, SameRow

Rotated(t, a, type) == {s \in t.markets[a][type] : ItIsTimeToRotate(type, s)}
LEMMA RotateMarketsRow ==
    ASSUME NEW t \in Trees, NEW a \in Areas, NEW u, u = RotateMarkets(t, a)
    PROVE  /\ OnlyRow(t, u, a)
           /\ u.ids[a] = t.ids[a] /\ u.agents[a] = t.agents[a] /\ u.future[a] = t.future[a]
           /\ u.connected[a] = t.connected[a]
           /\ \A type \in Types :
                 /\ u.markets[a][type] = t.markets[a][type] \ Rotated(t, a, type)
                 /\ u.past[a][type] = {s \in t.past[a][type] \cup Rotated(t, a, type) :
                                          ~ ItIsTimeToDelete(type, s)}
<1>. DEFINE m == [type \in Types |-> t.markets[a][type] \ Rotated(t, a, type)]
            p == [type \in Types |-> {s \in t.past[a][type] \cup Rotated(t, a, type) :
                                          ~ ItIsTimeToDelete(type, s)}]
<1>1. u = [t EXCEPT !.markets[a] = m, !.past[a] = p]
  BY DEF RotateMarkets, Rotated
<1>2. m \in MarketSlots /\ p \in MarketSlots
  BY DEF Trees, Rotated, MarketSlots
<1>3. \A type \in Types :
         /\ m[type] = t.markets[a][type] \ Rotated(t, a, type)
         /\ p[type] = {s \in t.past[a][type] \cup Rotated(t, a, type) : ~ ItIsTimeToDelete(type, s)}
  OBVIOUS
<1>. HIDE DEF m, p
<1>4. u \in Trees
  <2>1. [t.markets EXCEPT ![a] = m] \in [Areas -> MarketSlots]
        /\ [t.past EXCEPT ![a] = p] \in [Areas -> MarketSlots]
    BY <1>2 DEF Trees
  <2>2. [t EXCEPT !.markets = [t.markets EXCEPT ![a] = m], !.past = [t.past EXCEPT ![a] = p]] \in Trees
    BY <2>1 DEF Trees
  <2>. QED BY <1>1, <2>2
<1>5. u.markets[a] = m /\ u.past[a] = p /\ u.ids[a] = t.ids[a] /\ u.agents[a] = t.agents[a]
      /\ u.future[a] = t.future[a] /\ u.connected[a] = t.connected[a] /\ SameTree(t, u)
  BY <1>1 DEF Trees, SameTree
<1>6. \A b \in Areas \ {a} : SameRow(t, u, b)
  BY <1>1 DEF Trees, SameRow
<1>. QED BY <1>3, <1>4, <1>5, <1>6 DEF OnlyRow

LEMMA FutureRow ==
    ASSUME NEW t \in Trees, NEW a \in Areas, slot \in Slots,
           NEW u, u = CreateFutureMarketSlots(RotateFuture(t, a), a)
    PROVE  /\ OnlyRow(t, u, a)
           /\ u.markets[a] = t.markets[a] /\ u.past[a] = t.past[a] /\ u.ids[a] = t.ids[a]
           /\ u.agents[a] = t.agents[a] /\ u.connected[a] = t.connected[a]
           /\ u.future[a] = {s \in t.future[a] : s > slot}
                              \cup {s \in slot + 1 .. slot + FutureSlots : s <= LastSlot}
<1>. DEFINE f == {s \in t.future[a] : s > slot} \cup {s \in slot + 1 .. slot + FutureSlots : s <= LastSlot}
            v == [t EXCEPT !.future[a] = {s \in t.future[a] : s > slot}]
<1>1. v \in Trees /\ v.future[a] = {s \in t.future[a] : s > slot}
  <2>1. [t.future EXCEPT ![a] = {s \in t.future[a] : s > slot}] \in [Areas -> SUBSET Slots]
    BY DEF Trees
  <2>2. [t EXCEPT !.future = [t.future EXCEPT ![a] = {s \in t.future[a] : s > slot}]] \in Trees
    BY <2>1 DEF Trees
  <2>. QED BY <2>2 DEF Trees
<1>2. u = [v EXCEPT !.future[a] = f]
  BY <1>1 DEF CreateFutureMarketSlots, RotateFuture
<1>3. f \in SUBSET Slots
  <2>1. {s \in slot + 1 .. slot + FutureSlots : s <= LastSlot} \subseteq Slots
    BY TreeAssumption DEF Slots
  <2>2. t.future[a] \subseteq Slots
    BY DEF Trees
  <2>. QED BY <2>1, <2>2
<1>. HIDE DEF f
<1>4. u \in Trees
  <2>1. [v.future EXCEPT ![a] = f] \in [Areas -> SUBSET Slots]
    BY <1>1, <1>3 DEF Trees
  <2>. HIDE DEF v
  <2>2. [v EXCEPT !.future = [v.future EXCEPT ![a] = f]] \in Trees
    BY <1>1, <2>1 DEF Trees
  <2>. QED BY <1>2, <2>2
<1>5. u.markets[a] = t.markets[a] /\ u.past[a] = t.past[a] /\ u.ids[a] = t.ids[a]
      /\ u.agents[a] = t.agents[a] /\ u.connected[a] = t.connected[a] /\ SameTree(t, u) /\ u.future[a] = f
  BY <1>2 DEF Trees, SameTree
<1>6. \A b \in Areas \ {a} : SameRow(t, u, b)
  BY <1>2 DEF Trees, SameRow
<1>. QED BY <1>4, <1>5, <1>6 DEF OnlyRow, f

LEMMA AgentsRow ==
    ASSUME NEW t \in Trees, NEW a \in Areas, NEW u, u = DeletePastAgents(t, a)
    PROVE  /\ OnlyRow(t, u, a)
           /\ u.markets[a] = t.markets[a] /\ u.past[a] = t.past[a] /\ u.ids[a] = t.ids[a]
           /\ u.future[a] = t.future[a] /\ u.connected[a] = t.connected[a]
           /\ \A type \in Types :
                 u.agents[a][type] = {s \in t.agents[a][type] : s >= Newest(t.past[a]["spot"])}
<1>. DEFINE m == [type \in Types |-> {s \in t.agents[a][type] : s >= Newest(t.past[a]["spot"])}]
<1>1. u = [t EXCEPT !.agents[a] = m]
  BY DEF DeletePastAgents
<1>2. m \in MarketSlots
  BY DEF Trees, MarketSlots
<1>3. \A type \in Types : m[type] = {s \in t.agents[a][type] : s >= Newest(t.past[a]["spot"])}
  OBVIOUS
<1>. HIDE DEF m
<1>4. u \in Trees
  <2>1. [t.agents EXCEPT ![a] = m] \in [Areas -> MarketSlots]
    BY <1>2 DEF Trees
  <2>2. [t EXCEPT !.agents = [t.agents EXCEPT ![a] = m]] \in Trees
    BY <2>1 DEF Trees
  <2>. QED BY <1>1, <2>2
<1>5. u.markets[a] = t.markets[a] /\ u.past[a] = t.past[a] /\ u.ids[a] = t.ids[a] /\ u.agents[a] = m
      /\ u.future[a] = t.future[a] /\ u.connected[a] = t.connected[a] /\ SameTree(t, u)
  BY <1>1 DEF Trees, SameTree
<1>6. \A b \in Areas \ {a} : SameRow(t, u, b)
  BY <1>1 DEF Trees, SameRow
<1>. QED BY <1>3, <1>4, <1>5, <1>6 DEF OnlyRow

(* A market of slot s is created, and its agent with it where the parent   *)
(* has the market it links to.                                             *)
Links(t, a, type, s) == ShouldAgentBeCreated(t, a) /\ s \in t.markets[Parent[a]][type]
Created(t, u, a, type, new) ==
    /\ OnlyRow(t, u, a)
    /\ u.past[a] = t.past[a] /\ u.ids[a] = t.ids[a] /\ u.future[a] = t.future[a]
    /\ u.connected[a] = t.connected[a]
    /\ \A x \in Types :
          /\ u.markets[a][x] = t.markets[a][x] \cup (IF x = type THEN new ELSE {})
          /\ t.agents[a][x] \subseteq u.agents[a][x]
          /\ \A s \in u.agents[a][x] : s \in t.agents[a][x] \/ (x = type /\ s \in new /\ Links(t, a, x, s))
    /\ \A s \in new : s \notin t.markets[a][type] /\ Links(t, a, type, s) => s \in u.agents[a][type]

LEMMA NothingCreated ==
    ASSUME NEW t \in Trees, NEW a \in Areas, NEW type \in Types
    PROVE  Created(t, t, a, type, {})
BY DEF Created, OnlyRow, SameTree, SameRow

LEMMA CreateMarketRow ==
    ASSUME NEW t \in Trees, NEW a \in Areas, NEW type \in Types, NEW s \in Slots,
           NEW u, u = CreateMarket(t, a, type, s)
    PROVE  Created(t, u, a, type, {s})
<1>. DEFINE m == [x \in Types |-> t.markets[a][x] \cup (IF x = type THEN {s} ELSE {})]
            g == [x \in Types |-> t.agents[a][x] \cup (IF x = type THEN {s} ELSE {})]
            v == [t EXCEPT !.markets[a] = m]
<1>1. m \in MarketSlots /\ g \in MarketSlots
  BY DEF Trees, MarketSlots
<1>2. /\ m = [t.markets[a] EXCEPT ![type] = t.markets[a][type] \cup {s}]
      /\ g = [t.agents[a] EXCEPT ![type] = t.agents[a][type] \cup {s}]
  BY DEF Trees, MarketSlots
<1>3. \A x \in Types : /\ m[x] = t.markets[a][x] \cup (IF x = type THEN {s} ELSE {})
                       /\ g[x] = t.agents[a][x] \cup (IF x = type THEN {s} ELSE {})
  OBVIOUS
<1>. HIDE DEF m, g
<1>4. v \in Trees
  <2>1. [t.markets EXCEPT ![a] = m] \in [Areas -> MarketSlots]
    BY <1>1 DEF Trees
  <2>2. [t EXCEPT !.markets = [t.markets EXCEPT ![a] = m]] \in Trees
    BY <2>1 DEF Trees
  <2>. QED BY <2>2
<1>5. /\ v.markets[a] = m /\ v.past[a] = t.past[a] /\ v.ids[a] = t.ids[a] /\ v.agents = t.agents
      /\ v.future[a] = t.future[a] /\ v.connected = t.connected /\ SameTree(t, v)
      /\ \A b \in Areas \ {a} : SameRow(t, v, b)
  BY DEF Trees, SameTree, SameRow
<1>6. v = [t EXCEPT !.markets[a][type] = t.markets[a][type] \cup {s}]
  BY <1>2
<1>7. OnlyRow(t, v, a)
  BY <1>4, <1>5 DEF OnlyRow
<1>8. ShouldAgentBeCreated(v, a) /\ s \in v.markets[Parent[a]][type] <=> Links(t, a, type, s)
  BY <1>5, AreaFacts DEF ShouldAgentBeCreated, Links, SameTree, SameRow
<1>9. u = IF Links(t, a, type, s) THEN [v EXCEPT !.agents[a][type] = v.agents[a][type] \cup {s}] ELSE v
  BY <1>6, <1>8 DEF CreateMarket, CreateMarketAgents
<1>. HIDE DEF v
<1>10. CASE ~ Links(t, a, type, s)
  <2>1. u = v
    BY <1>9, <1>10
  <2>. QED BY <1>3, <1>5, <1>7, <1>10, <2>1 DEF Created
<1>11. CASE Links(t, a, type, s)
  <2>1. u = [v EXCEPT !.agents[a] = g]
    BY <1>2, <1>5, <1>9, <1>11
  <2>2. u \in Trees
    <3>1. [v.agents EXCEPT ![a] = g] \in [Areas -> MarketSlots]
      BY <1>1, <1>4 DEF Trees
    <3>2. [v EXCEPT !.agents = [v.agents EXCEPT ![a] = g]] \in Trees
      BY <1>4, <3>1 DEF Trees
    <3>. QED BY <2>1, <3>2
  <2>3. /\ u.markets[a] = v.markets[a] /\ u.past[a] = v.past[a] /\ u.ids[a] = v.ids[a] /\ u.agents[a] = g
        /\ u.future[a] = v.future[a] /\ u.connected[a] = v.connected[a] /\ SameTree(v, u)
        /\ \A b \in Areas \ {a} : SameRow(v, u, b)
    BY <1>4, <2>1 DEF Trees, SameTree, SameRow
  <2>4. OnlyRow(t, u, a)
    BY <1>7, <2>2, <2>3, OnlyRowTransitive DEF OnlyRow
  <2>. QED BY <1>3, <1>5, <1>11, <2>3, <2>4 DEF Created
<1>. QED BY <1>10, <1>11

LEMMA CreateNewSpotMarketRow ==
    ASSUME NEW t \in Trees, NEW a \in Areas, NEW type \in Types, slot \in Slots,
           NEW u, u = CreateNewSpotMarket(t, a, type)
    PROVE  Created(t, u, a, type, {slot})
<1>1. CASE slot \in t.markets[a][type]
  BY <1>1 DEF CreateNewSpotMarket, Created, OnlyRow, SameTree, SameRow
<1>2. CASE slot \notin t.markets[a][type]
  BY <1>2, CreateMarketRow DEF CreateNewSpotMarket
<1>. QED BY <1>1, <1>2

LastPast(t, a) ==
    IF settings.settlement /\ Newest(t.past[a]["spot"]) >= 0 THEN {Newest(t.past[a]["spot"])} ELSE {}
LEMMA CreateSettlementMarketRow ==
    ASSUME NEW t \in Trees, NEW a \in Areas, NEW u, u = CreateSettlementMarket(t, a)
    PROVE  Created(t, u, a, "settlement", LastPast(t, a))
<1>1. t.past[a]["spot"] \in SUBSET Slots /\ "settlement" \in Types
  BY DEF Trees, MarketSlots, Types
<1>2. CASE settings.settlement /\ Newest(t.past[a]["spot"]) >= 0
  <2>1. Newest(t.past[a]["spot"]) \in Slots
    BY <1>1, <1>2, NewestOf
  <2>. QED BY <1>1, <1>2, <2>1, CreateMarketRow DEF CreateSettlementMarket, LastPast
<1>3. CASE ~ (settings.settlement /\ Newest(t.past[a]["spot"]) >= 0)
  BY <1>1, <1>3, NothingCreated DEF CreateSettlementMarket, LastPast
<1>. QED BY <1>2, <1>3

LEMMA LinksKept ==
    ASSUME NEW t, NEW u, NEW a \in Areas, OnlyRow(t, u, a), NEW type, NEW s
    PROVE  Links(u, a, type, s) <=> Links(t, a, type, s)
BY AreaFacts DEF OnlyRow, SameTree, SameRow, Links, ShouldAgentBeCreated

LEMMA UpdateEventsRow ==
    ASSUME NEW t \in Trees, NEW a \in Areas, NEW u, u = UpdateEvents(t, a)
    PROVE  /\ OnlyRow(t, u, a)
           /\ u.markets[a] = t.markets[a] /\ u.past[a] = t.past[a] /\ u.ids[a] = t.ids[a]
           /\ u.agents[a] = t.agents[a] /\ u.future[a] = t.future[a] /\ u.emptied = t.emptied
           /\ u.connected[a] = IsConnected(a, slot)
<1>. DEFINE e == IsEnabled(a, slot)
            c == IsConnected(a, slot)
<1>1. e \in BOOLEAN /\ c \in BOOLEAN
  BY DEF IsEnabled, IsConnected
<1>2. u = [t EXCEPT !.enabled[a] = e, !.connected[a] = c]
  BY DEF UpdateEvents
<1>. HIDE DEF e, c
<1>3. u \in Trees
  <2>1. [t.enabled EXCEPT ![a] = e] \in [Areas -> BOOLEAN] /\ [t.connected EXCEPT ![a] = c] \in [Areas -> BOOLEAN]
    BY <1>1 DEF Trees
  <2>2. [t EXCEPT !.enabled = [t.enabled EXCEPT ![a] = e], !.connected = [t.connected EXCEPT ![a] = c]] \in Trees
    BY <2>1 DEF Trees
  <2>. QED BY <1>2, <2>2
<1>4. /\ u.markets[a] = t.markets[a] /\ u.past[a] = t.past[a] /\ u.ids[a] = t.ids[a]
      /\ u.agents[a] = t.agents[a] /\ u.future[a] = t.future[a] /\ u.emptied = t.emptied
      /\ u.connected[a] = c /\ SameTree(t, u)
  BY <1>2 DEF Trees, SameTree
<1>5. \A b \in Areas \ {a} : SameRow(t, u, b)
  BY <1>2 DEF Trees, SameRow
<1>. QED BY <1>3, <1>4, <1>5 DEF OnlyRow, c

(* What a market cycle leaves of an area with children.                    *)
KeptPast(t, a, type) == {s \in t.past[a][type] \cup Rotated(t, a, type) : ~ ItIsTimeToDelete(type, s)}
LastKept(t, a) == Newest(KeptPast(t, a, "spot"))
Opened(t, a, type) ==
    IF type = "spot" THEN {slot}
    ELSE IF type = "balancing" THEN (IF settings.balancing THEN {slot} ELSE {})
    ELSE IF settings.settlement /\ LastKept(t, a) >= 0 THEN {LastKept(t, a)} ELSE {}
Cycled(t, u, a) ==
    /\ OnlyRow(t, u, a)
    /\ a \notin u.emptied /\ u.ids[a] = u.markets[a] /\ u.connected[a] = IsConnected(a, slot)
    /\ u.future[a] = {s \in t.future[a] : s > slot} \cup {s \in slot + 1 .. slot + FutureSlots : s <= LastSlot}
    /\ \A x \in Types :
          /\ u.past[a][x] = KeptPast(t, a, x)
          /\ u.markets[a][x] = (t.markets[a][x] \ Rotated(t, a, x)) \cup Opened(t, a, x)
          /\ \A s \in u.agents[a][x] : \/ s \in t.agents[a][x] /\ s >= LastKept(t, a)
                                       \/ s \in Opened(t, a, x) /\ Links(t, a, x, s)
    /\ \A s \in t.agents[a]["spot"] : s >= LastKept(t, a) => s \in u.agents[a]["spot"]
    /\ slot \notin t.markets[a]["spot"] \ Rotated(t, a, "spot") /\ Links(t, a, "spot", slot)
          => slot \in u.agents[a]["spot"]
UpdatedOnly(t, u, a) ==
    /\ OnlyRow(t, u, a)
    /\ u.markets[a] = t.markets[a] /\ u.past[a] = t.past[a] /\ u.ids[a] = t.ids[a]
    /\ u.agents[a] = t.agents[a] /\ u.future[a] = t.future[a] /\ u.emptied = t.emptied
    /\ u.connected[a] = IsConnected(a, slot)

LEMMA UpdateMarketIdsRow ==
    ASSUME NEW t \in Trees, NEW a \in Areas,
           NEW u, u = [UpdateMarketIds(t, a) EXCEPT !.emptied = @ \ {a}]
    PROVE  /\ OnlyRow(t, u, a)
           /\ u.markets[a] = t.markets[a] /\ u.past[a] = t.past[a] /\ u.ids[a] = t.markets[a]
           /\ u.agents[a] = t.agents[a] /\ u.future[a] = t.future[a] /\ u.connected[a] = t.connected[a]
           /\ a \notin u.emptied
<1>1. u = [t EXCEPT !.ids[a] = t.markets[a], !.emptied = t.emptied \ {a}]
  BY DEF UpdateMarketIds, Trees
<1>2. u \in Trees
  <2>1. [t.ids EXCEPT ![a] = t.markets[a]] \in [Areas -> MarketSlots] /\ t.emptied \ {a} \in SUBSET Areas
    BY DEF Trees
  <2>2. [t EXCEPT !.ids = [t.ids EXCEPT ![a] = t.markets[a]], !.emptied = t.emptied \ {a}] \in Trees
    BY <2>1 DEF Trees
  <2>. QED BY <1>1, <2>2
<1>3. /\ u.markets[a] = t.markets[a] /\ u.past[a] = t.past[a] /\ u.ids[a] = t.markets[a]
      /\ u.agents[a] = t.agents[a] /\ u.future[a] = t.future[a] /\ u.connected[a] = t.connected[a]
      /\ a \notin u.emptied /\ SameTree(t, u)
  BY <1>1 DEF Trees, SameTree
<1>4. \A b \in Areas \ {a} : SameRow(t, u, b)
  BY <1>1 DEF Trees, SameRow
<1>. QED BY <1>2, <1>3, <1>4 DEF OnlyRow

LEMMA CycleOwnMarketsRow ==
    ASSUME NEW t \in Trees, NEW a \in Areas, slot \in Slots, NEW u, u = CycleOwnMarkets(t, a)
    PROVE  /\ Children(t.present, a) = {} => UpdatedOnly(t, u, a)
           /\ Children(t.present, a) # {} => Cycled(t, u, a)
<1>. DEFINE b == UpdateEvents(t, a)
            c == RotateMarkets(b, a)
            d == CreateFutureMarketSlots(RotateFuture(c, a), a)
            v == DeletePastAgents(d, a)
            e == CreateNewSpotMarket(v, a, "spot")
            w == CreateSettlementMarket(e, a)
            x == IF settings.balancing THEN CreateNewSpotMarket(w, a, "balancing") ELSE w
            y == [UpdateMarketIds(x, a) EXCEPT !.emptied = @ \ {a}]
<1>1. u = IF Children(t.present, a) = {} THEN b ELSE y
  BY DEF CycleOwnMarkets
<1>2. UpdatedOnly(t, b, a)
  BY UpdateEventsRow DEF UpdatedOnly
<1>3. CASE Children(t.present, a) = {}
  BY <1>1, <1>2, <1>3
<1>4. CASE Children(t.present, a) # {}
  <2>0. u = y
    BY <1>1, <1>4
  <2>1. b \in Trees
    BY <1>2 DEF UpdatedOnly, OnlyRow
  <2>. HIDE DEF b
  <2>2. /\ OnlyRow(b, c, a)
        /\ c.agents[a] = b.agents[a] /\ c.future[a] = b.future[a] /\ c.connected[a] = b.connected[a]
        /\ \A z \in Types : /\ c.markets[a][z] = b.markets[a][z] \ Rotated(b, a, z)
                            /\ c.past[a][z] = KeptPast(b, a, z)
    BY <2>1, RotateMarketsRow DEF KeptPast
  <2>3. c \in Trees
    BY <2>2 DEF OnlyRow
  <2>. HIDE DEF c
  <2>4. /\ OnlyRow(c, d, a)
        /\ d.markets[a] = c.markets[a] /\ d.past[a] = c.past[a] /\ d.agents[a] = c.agents[a]
        /\ d.connected[a] = c.connected[a]
        /\ d.future[a] = {s \in c.future[a] : s > slot} \cup {s \in slot + 1 .. slot + FutureSlots : s <= LastSlot}
    BY <2>3, FutureRow
  <2>5. d \in Trees
    BY <2>4 DEF OnlyRow
  <2>. HIDE DEF d
  <2>6. /\ OnlyRow(d, v, a)
        /\ v.markets[a] = d.markets[a] /\ v.past[a] = d.past[a]
        /\ v.connected[a] = d.connected[a] /\ v.future[a] = d.future[a]
        /\ \A z \in Types : v.agents[a][z] = {s \in d.agents[a][z] : s >= Newest(d.past[a]["spot"])}
    BY <2>5, AgentsRow
  <2>7. v \in Trees
    BY <2>6 DEF OnlyRow
  <2>. HIDE DEF v
  <2>8. Created(v, e, a, "spot", {slot})
    BY <2>7, CreateNewSpotMarketRow DEF Types
  <2>9. e \in Trees
    BY <2>8 DEF Created, OnlyRow
  <2>. HIDE DEF e
  <2>10. Created(e, w, a, "settlement", LastPast(e, a))
    BY <2>9, CreateSettlementMarketRow
  <2>11. w \in Trees
    BY <2>10 DEF Created, OnlyRow
  <2>. HIDE DEF w
  <2>12. Created(w, x, a, "balancing", IF settings.balancing THEN {slot} ELSE {})
    <3>1. CASE settings.balancing
      BY <2>11, <3>1, CreateNewSpotMarketRow DEF Types
    <3>2. CASE ~ settings.balancing
      BY <2>11, <3>2, NothingCreated DEF Types
    <3>. QED BY <3>1, <3>2
  <2>13. x \in Trees
    BY <2>12 DEF Created, OnlyRow
  <2>. HIDE DEF x
  <2>14. /\ OnlyRow(x, y, a)
         /\ y.markets[a] = x.markets[a] /\ y.past[a] = x.past[a] /\ y.ids[a] = x.markets[a]
         /\ y.agents[a] = x.agents[a] /\ y.future[a] = x.future[a] /\ y.connected[a] = x.connected[a]
         /\ a \notin y.emptied
    BY <2>13, UpdateMarketIdsRow
  <2>. HIDE DEF y
  <2>15. OnlyRow(t, v, a)
    <3>1. OnlyRow(t, c, a)
      BY <1>2, <2>2, OnlyRowTransitive DEF UpdatedOnly
    <3>2. OnlyRow(t, d, a)
      BY <2>4, <3>1, OnlyRowTransitive
    <3>. QED BY <2>6, <3>2, OnlyRowTransitive
  <2>16. OnlyRow(t, e, a) /\ OnlyRow(t, w, a)
    <3>1. OnlyRow(t, e, a)
      BY <2>8, <2>15, OnlyRowTransitive DEF Created
    <3>. QED BY <2>10, <3>1, OnlyRowTransitive DEF Created
  <2>17. OnlyRow(t, y, a)
    <3>1. OnlyRow(t, x, a)
      BY <2>12, <2>16, OnlyRowTransitive DEF Created
    <3>. QED BY <2>14, <3>1, OnlyRowTransitive
  <2>18. \A z \in Types : Rotated(b, a, z) = Rotated(t, a, z) /\ KeptPast(b, a, z) = KeptPast(t, a, z)
    BY <1>2 DEF UpdatedOnly, Rotated, KeptPast
  <2>19. /\ v.connected[a] = IsConnected(a, slot)
         /\ v.future[a] = {s \in t.future[a] : s > slot} \cup {s \in slot + 1 .. slot + FutureSlots : s <= LastSlot}
         /\ \A z \in Types : /\ v.markets[a][z] = t.markets[a][z] \ Rotated(t, a, z)
                             /\ v.past[a][z] = KeptPast(t, a, z)
                             /\ v.agents[a][z] = {s \in t.agents[a][z] : s >= LastKept(t, a)}
    <3>1. /\ v.connected[a] = IsConnected(a, slot)
          /\ v.future[a] = {s \in t.future[a] : s > slot} \cup {s \in slot + 1 .. slot + FutureSlots : s <= LastSlot}
      BY <1>2, <2>2, <2>4, <2>6 DEF UpdatedOnly
    <3>2. d.past[a]["spot"] = KeptPast(t, a, "spot")
      BY <2>2, <2>4, <2>18 DEF Types
    <3>3. ASSUME NEW z \in Types
          PROVE  /\ v.markets[a][z] = t.markets[a][z] \ Rotated(t, a, z)
                 /\ v.past[a][z] = KeptPast(t, a, z)
                 /\ v.agents[a][z] = {s \in t.agents[a][z] : s >= LastKept(t, a)}
      BY <1>2, <2>2, <2>4, <2>6, <2>18, <3>2, <3>3 DEF UpdatedOnly, LastKept
    <3>. QED BY <3>1, <3>3
  <2>20. /\ y.past[a] = v.past[a] /\ y.future[a] = v.future[a] /\ y.connected[a] = v.connected[a]
         /\ e.past[a] = v.past[a]
    BY <2>8, <2>10, <2>12, <2>14 DEF Created
  <2>21. LastPast(e, a) = Opened(t, a, "settlement")
    BY <2>19, <2>20 DEF LastPast, Opened, LastKept, Types
  <2>22. /\ \A z \in Types : y.markets[a][z] = v.markets[a][z] \cup Opened(t, a, z)
    <3>1. \A z \in Types : e.markets[a][z] = v.markets[a][z] \cup (IF z = "spot" THEN {slot} ELSE {})
      BY <2>8 DEF Created
    <3>2. \A z \in Types : w.markets[a][z] = e.markets[a][z] \cup (IF z = "settlement" THEN Opened(t, a, "settlement") ELSE {})
      BY <2>10, <2>21 DEF Created
    <3>3. \A z \in Types : y.markets[a][z] = w.markets[a][z]
                     \cup (IF z = "balancing" THEN (IF settings.balancing THEN {slot} ELSE {}) ELSE {})
      BY <2>12, <2>14 DEF Created
    <3>. QED BY <3>1, <3>2, <3>3 DEF Opened, Types
  <2>23. ASSUME NEW z \in Types, NEW s \in y.agents[a][z]
         PROVE  s \in v.agents[a][z] \/ (s \in Opened(t, a, z) /\ Links(t, a, z, s))
    <3>1. s \in w.agents[a][z] \/ (z = "balancing" /\ s \in Opened(t, a, z) /\ Links(w, a, z, s))
      BY <2>12, <2>14, <2>23 DEF Created, Opened
    <3>2. CASE z = "balancing" /\ s \in Opened(t, a, z) /\ Links(w, a, z, s)
      BY <2>16, <3>2, LinksKept
    <3>3. CASE s \in w.agents[a][z]
      <4>1. s \in e.agents[a][z] \/ (z = "settlement" /\ s \in Opened(t, a, z) /\ Links(e, a, z, s))
        BY <2>10, <2>21, <3>3 DEF Created
      <4>2. CASE z = "settlement" /\ s \in Opened(t, a, z) /\ Links(e, a, z, s)
        BY <2>16, <4>2, LinksKept
      <4>3. CASE s \in e.agents[a][z]
        <5>1. s \in v.agents[a][z] \/ (s \in Opened(t, a, z) /\ Links(v, a, z, s))
          BY <2>8, <4>3 DEF Created, Opened
        <5>. QED BY <2>15, <5>1, LinksKept
      <4>. QED BY <4>1, <4>2, <4>3
    <3>. QED BY <3>1, <3>2, <3>3
  <2>24. e.agents[a]["spot"] \subseteq y.agents[a]["spot"] /\ v.agents[a]["spot"] \subseteq y.agents[a]["spot"]
    BY <2>8, <2>10, <2>12, <2>14 DEF Created, Types
  <2>25. slot \notin v.markets[a]["spot"] /\ Links(t, a, "spot", slot) => slot \in e.agents[a]["spot"]
    BY <2>8, <2>15, LinksKept DEF Created
  <2>26. a \notin y.emptied /\ y.ids[a] = y.markets[a]
    BY <2>14
  <2>27. Cycled(t, y, a)
    <3>1. \A z \in Types :
            /\ y.past[a][z] = KeptPast(t, a, z)
            /\ y.markets[a][z] = (t.markets[a][z] \ Rotated(t, a, z)) \cup Opened(t, a, z)
            /\ \A s \in y.agents[a][z] : \/ s \in t.agents[a][z] /\ s >= LastKept(t, a)
                                         \/ s \in Opened(t, a, z) /\ Links(t, a, z, s)
      BY <2>19, <2>20, <2>22, <2>23
    <3>2. \A s \in t.agents[a]["spot"] : s >= LastKept(t, a) => s \in y.agents[a]["spot"]
      BY <2>19, <2>24 DEF Types
    <3>3. slot \notin t.markets[a]["spot"] \ Rotated(t, a, "spot") /\ Links(t, a, "spot", slot)
             => slot \in y.agents[a]["spot"]
      BY <2>19, <2>24, <2>25 DEF Types
    <3>4. /\ y.connected[a] = IsConnected(a, slot)
          /\ y.future[a] = {s \in t.future[a] : s > slot} \cup {s \in slot + 1 .. slot + FutureSlots : s <= LastSlot}
      BY <2>19, <2>20
    <3>. QED BY <2>17, <2>26, <3>1, <3>2, <3>3, <3>4 DEF Cycled
  <2>. QED BY <1>4, <2>0, <2>27
<1>. QED BY <1>3, <1>4
-----------------------------------------------------------------------------
(* The market cycle brings the markets of an area in step with the slot,   *)
(* whichever slot the last one was for.                                    *)

LEMMA SlotFacts ==
    /\ LastSlot \in Nat /\ FutureSlots \in Nat /\ MaxAge \in Nat /\ MaxAge >= 1
    /\ \A s \in Slots : s \in Nat /\ s <= LastSlot
BY TreeAssumption DEF Slots

LEMMA RowTypes ==
    ASSUME NEW t \in Trees, NEW a \in Areas
    PROVE  /\ \A x \in Types : /\ t.markets[a][x] \in SUBSET Slots /\ t.past[a][x] \in SUBSET Slots
                               /\ t.agents[a][x] \in SUBSET Slots /\ t.ids[a][x] \in SUBSET Slots
           /\ t.future[a] \in SUBSET Slots
BY DEF Trees, MarketSlots

LEMMA KeptTypes ==
    ASSUME NEW t \in Trees, NEW a \in Areas
    PROVE  \A x \in Types : KeptPast(t, a, x) \in SUBSET Slots /\ Rotated(t, a, x) \in SUBSET Slots
BY RowTypes DEF KeptPast, Rotated

LEMMA FirstCycleInStep ==
    ASSUME NEW t \in Trees, NEW a \in Areas, slot \in Slots, NEW u, Cycled(t, u, a), Idle(t, a)
    PROVE  InStep(u, a, slot) /\ \A x \in Types : u.past[a][x] = {}
<1>1. \A x \in Types : t.markets[a][x] = {} /\ t.past[a][x] = {} /\ t.future[a] = {}
  BY DEF Idle, NoMarkets
<1>2. \A x \in Types : Rotated(t, a, x) = {} /\ KeptPast(t, a, x) = {}
  BY <1>1 DEF Rotated, KeptPast
<1>3. LastKept(t, a) = -1
  BY <1>2, NewestOf DEF LastKept, Types
<1>4. Opened(t, a, "settlement") = {}
  BY <1>3 DEF Opened
<1>. QED BY <1>1, <1>2, <1>4 DEF Cycled, InStep, Types, Opened

LEMMA NextCycleInStep ==
    ASSUME NEW t \in Trees, NEW a \in Areas, slot \in Slots, NEW u, Cycled(t, u, a),
           NEW j \in Nat, j < slot, InStep(t, a, j)
    PROVE  InStep(u, a, slot)
<1>. DEFINE P == t.past[a]["spot"]
            K == KeptPast(t, a, "spot")
<1>. USE SlotFacts
<1>0. slot \in Nat /\ \A x \in Types : t.past[a][x] \in SUBSET Nat /\ t.markets[a][x] \in SUBSET Nat
  BY RowTypes
<1>1. Rotated(t, a, "spot") = {j} /\ u.markets[a]["spot"] = {slot}
  BY <1>0 DEF Rotated, InStep, ItIsTimeToRotate, Cycled, Types, Opened
<1>2. u.markets[a]["balancing"] = IF settings.balancing THEN {slot} ELSE {}
  BY <1>0 DEF Rotated, InStep, ItIsTimeToRotate, Cycled, Types, Opened
<1>3. \A s \in u.past[a]["spot"] \cup u.past[a]["balancing"] : s < slot
  <2>1. \A s \in t.past[a]["spot"] \cup t.past[a]["balancing"] : s \in Nat /\ s < slot
    BY <1>0 DEF InStep, Types
  <2>2. \A s \in Rotated(t, a, "spot") \cup Rotated(t, a, "balancing") : s < slot
    BY DEF Rotated, ItIsTimeToRotate
  <2>. QED BY <2>1, <2>2 DEF Cycled, KeptPast, Types
<1>4. \A s \in u.past[a]["settlement"] : s < slot - MaxAge
  <2>1. \A s \in t.past[a]["settlement"] : s \in Nat /\ s < slot - MaxAge
    BY <1>0 DEF InStep, Types
  <2>2. \A s \in Rotated(t, a, "settlement") : s < slot - MaxAge
    BY DEF Rotated, ItIsTimeToRotate
  <2>. QED BY <2>1, <2>2 DEF Cycled, KeptPast, Types
<1>5. u.future[a] = {s \in slot + 1 .. slot + FutureSlots : s <= LastSlot}
  <2>1. u.future[a] = {s \in t.future[a] : s > slot} \cup {s \in slot + 1 .. slot + FutureSlots : s <= LastSlot}
    BY DEF Cycled
  <2>2. t.future[a] = {s \in j + 1 .. j + FutureSlots : s <= LastSlot}
    BY DEF InStep
  <2>3. ASSUME NEW s \in t.future[a], s > slot PROVE s \in slot + 1 .. slot + FutureSlots /\ s <= LastSlot
    BY <1>0, <2>2, <2>3
  <2>. QED BY <2>1, <2>3
<1>6. u.markets[a]["settlement"] = IF settings.settlement THEN {s \in u.past[a]["spot"] : s >= slot - MaxAge} ELSE {}
  <2>1. u.markets[a]["settlement"] = (t.markets[a]["settlement"] \ Rotated(t, a, "settlement"))
                                        \cup Opened(t, a, "settlement")
        /\ u.past[a]["spot"] = K
    BY DEF Cycled, Types
  <2>2. CASE ~ settings.settlement
    BY <2>1, <2>2 DEF InStep, Opened
  <2>3. CASE settings.settlement
    <3>1. K = {s \in P \cup {j} : s >= slot - MaxAge}
      BY <1>0, <1>1, <2>3 DEF KeptPast, ItIsTimeToDelete, Types
    <3>2. \A s \in P : s \in Nat /\ s < j
      BY <1>0 DEF InStep, Types
    <3>3. t.markets[a]["settlement"] \ Rotated(t, a, "settlement")
             = {s \in P : s >= j - MaxAge /\ s >= slot - MaxAge}
      BY <1>0, <2>3, <3>2 DEF InStep, Rotated, ItIsTimeToRotate
    <3>4. K \in SUBSET Slots
      BY KeptTypes DEF Types
    <3>. HIDE DEF K, P
    <3>5. CASE K = {}
      <4>1. Opened(t, a, "settlement") = {}
        BY <3>4, <3>5, NewestOf DEF Opened, LastKept, K
      <4>2. \A s \in P : ~ (s >= slot - MaxAge)
        BY <3>1, <3>5
      <4>. QED BY <2>1, <2>3, <3>3, <3>5, <4>1, <4>2
    <3>6. CASE K # {}
      <4>1. j >= slot - MaxAge /\ j \in K
        BY <1>0, <3>1, <3>2, <3>6
      <4>2. Newest(K) \in K /\ j <= Newest(K) /\ Newest(K) \in Int
        BY <3>4, <4>1, NewestOf
      <4>3. Newest(K) = j
        BY <3>1, <3>2, <4>2
      <4>4. Opened(t, a, "settlement") = {j}
        BY <2>3, <4>3 DEF Opened, LastKept, K
      <4>5. \A s \in P : s >= slot - MaxAge => s >= j - MaxAge
        BY <1>0, <3>2
      <4>. QED BY <2>1, <2>3, <3>1, <3>3, <4>1, <4>4, <4>5
    <3>. QED BY <3>5, <3>6
  <2>. QED BY <2>2, <2>3
<1>7. u.ids[a] = u.markets[a]
  BY DEF Cycled
<1>. QED BY <1>1, <1>2, <1>3, <1>4, <1>5, <1>6, <1>7 DEF InStep

LEMMA SameCycleInStep ==
    ASSUME NEW t \in Trees, NEW a \in Areas, slot = 0, NEW u, Cycled(t, u, a), InStep(t, a, 0)
    PROVE  InStep(u, a, 0) /\ \A x \in Types : u.past[a][x] = {}
<1>. USE SlotFacts
<1>0. \A x \in Types : t.past[a][x] \in SUBSET Nat /\ t.markets[a][x] \in SUBSET Nat
  BY RowTypes
<1>1. \A x \in Types : t.past[a][x] = {}
  BY <1>0 DEF InStep, Types
<1>2. t.markets[a]["settlement"] = {} /\ t.markets[a]["spot"] = {0}
      /\ t.markets[a]["balancing"] \subseteq {0}
  BY <1>1 DEF InStep, Types
<1>3. \A x \in Types : Rotated(t, a, x) = {}
  BY <1>0, <1>2 DEF Rotated, ItIsTimeToRotate, Types
<1>4. \A x \in Types : KeptPast(t, a, x) = {}
  BY <1>1, <1>3 DEF KeptPast
<1>5. LastKept(t, a) = -1 /\ Opened(t, a, "settlement") = {}
  BY <1>4, NewestOf DEF LastKept, Types, Opened
<1>6. u.future[a] = {s \in 0 + 1 .. 0 + FutureSlots : s <= LastSlot}
  BY DEF Cycled, InStep
<1>. QED BY <1>1, <1>2, <1>3, <1>4, <1>5, <1>6 DEF Cycled, InStep, Types, Opened
-----------------------------------------------------------------------------
(* Agents go with the markets.                                             *)

LEMMA CycledKeeps ==
    ASSUME NEW t \in Trees, NEW a \in Areas, slot \in Slots, NEW u, Cycled(t, u, a),
           NEW x \in Types, NEW s \in Slots, s >= slot - 1, KeepsMarket(t, a, x, s)
    PROVE  KeepsMarket(u, a, x, s)
<1>1. ~ ItIsTimeToDelete(x, s)
  BY SlotFacts DEF ItIsTimeToDelete
<1>2. s \in (t.markets[a][x] \ Rotated(t, a, x)) \cup KeptPast(t, a, x)
  BY <1>1 DEF KeepsMarket, Rotated, KeptPast
<1>. QED BY <1>2 DEF Cycled, KeepsMarket

LEMMA LastSlotKept ==
    ASSUME NEW t \in Trees, NEW a \in Areas, slot \in Slots, NEW u, Cycled(t, u, a),
           NEW k \in Nat, slot = k + 1, InStep(t, a, k)
    PROVE  /\ k \in u.past[a]["spot"] /\ LastKept(t, a) >= k
<1>1. k \in Slots
  BY SlotFacts DEF Slots
<1>2. k \in t.markets[a]["spot"] /\ k < slot /\ k >= slot - 1
  BY DEF InStep
<1>3. k \in KeptPast(t, a, "spot")
  BY <1>2, SlotFacts DEF KeptPast, Rotated, ItIsTimeToRotate, ItIsTimeToDelete
<1>4. LastKept(t, a) >= k
  BY <1>3, KeptTypes, NewestOf DEF LastKept, Types
<1>. QED BY <1>3, <1>4 DEF Cycled, Types

LEMMA CycledInStep ==
    ASSUME NEW t \in Trees, NEW a \in Areas, slot \in Slots, NEW u, Cycled(t, u, a),
           NEW k \in Nat, Waiting(t, a, k, slot), Children(t.present, a) # {}
    PROVE  InStep(u, a, slot)
<1>1. CASE a \in t.emptied
  <2>1. PICK j \in 0 .. k : InStep(t, a, j)
    BY <1>1 DEF Waiting, Stale
  <2>2. j \in Nat /\ j < slot
    BY <1>1 DEF Waiting
  <2>. QED BY <2>1, <2>2, NextCycleInStep
<1>2. CASE a \notin t.emptied /\ Idle(t, a)
  BY <1>2, FirstCycleInStep
<1>3. CASE a \notin t.emptied /\ InStep(t, a, k) /\ slot = k + 1
  <2>1. k < slot
    BY <1>3
  <2>. QED BY <1>3, <2>1, NextCycleInStep
<1>4. CASE a \notin t.emptied /\ InStep(t, a, k) /\ slot = 0 /\ k = 0
  BY <1>4, SameCycleInStep
<1>. QED BY <1>1, <1>2, <1>3, <1>4 DEF Waiting

LEMMA CycledAgents ==
    ASSUME NEW t \in Trees, NEW a \in Areas \ {Root}, slot \in Slots, NEW u, Cycled(t, u, a),
           NEW k \in Nat, Waiting(t, a, k, slot), NEW x \in Types, NEW s \in u.agents[a][x]
    PROVE  KeepsMarket(u, a, x, s) /\ KeepsMarket(u, Parent[a], x, s)
<1>1. Parent[a] \in Areas \ {a}
  BY AreaFacts
<1>2. u.markets[Parent[a]] = t.markets[Parent[a]] /\ u.past[Parent[a]] = t.past[Parent[a]]
  BY <1>1 DEF Cycled, OnlyRow, SameRow
<1>3. CASE s \in Opened(t, a, x) /\ Links(t, a, x, s)
  BY <1>2, <1>3 DEF Cycled, KeepsMarket, Links
<1>4. CASE s \in t.agents[a][x] /\ s >= LastKept(t, a)
  <2>1. s \in Slots /\ s \in Nat
    BY <1>4, RowTypes, SlotFacts
  <2>2. t.agents[a] # NoMarkets
    BY <1>4 DEF NoMarkets
  <2>3. InStep(t, a, k) /\ (slot = k + 1 \/ (slot = 0 /\ k = 0))
    BY <2>2 DEF Waiting, Idle, Stale
  <2>4. s >= slot - 1
    <3>1. CASE slot = k + 1
      <4>1. LastKept(t, a) >= k
        BY <2>3, <3>1, LastSlotKept
      <4>2. LastKept(t, a) \in Int
        BY KeptTypes, NewestOf DEF LastKept, Types
      <4>. QED BY <1>4, <2>1, <3>1, <4>1, <4>2
    <3>2. CASE slot = 0
      BY <2>1, <3>2
    <3>. QED BY <2>3, <3>1, <3>2
  <2>5. KeepsMarket(t, a, x, s) /\ KeepsMarket(t, Parent[a], x, s)
    BY <1>4, <2>4 DEF Waiting
  <2>6. KeepsMarket(u, a, x, s)
    BY <2>1, <2>4, <2>5, CycledKeeps
  <2>. QED BY <1>2, <2>5, <2>6 DEF KeepsMarket
<1>. QED BY <1>3, <1>4 DEF Cycled

LEMMA CycledLinked ==
    ASSUME NEW t \in Trees, NEW a \in Areas \ {Root}, slot \in Slots, NEW u, Cycled(t, u, a),
           NEW k \in Nat, Waiting(t, a, k, slot), a \in t.present, Settled(t, Parent[a], slot),
           Parent[a] \notin u.emptied, InStep(u, a, slot)
    PROVE  IsLinked(u, a, slot)
<1>. SUFFICES ASSUME a \notin Assets, Children(u.present, a) # {}, IsConnected(Parent[a], slot)
              PROVE  slot \in u.agents[a]["spot"]
  BY DEF IsLinked
<1>1. Parent[a] \in Areas \ {a} /\ u.present = t.present /\ Parent[a] \notin t.emptied
  BY AreaFacts DEF Cycled, OnlyRow, SameRow, SameTree
<1>2. Children(t.present, Parent[a]) # {}
  BY DEF Children
<1>3. slot \in t.markets[Parent[a]]["spot"] /\ t.connected[Parent[a]]
  BY <1>1, <1>2 DEF Settled, InStep
<1>4. Links(t, a, "spot", slot)
  BY <1>1, <1>3 DEF Links, ShouldAgentBeCreated
<1>5. CASE slot \notin t.markets[a]["spot"] \ Rotated(t, a, "spot")
  BY <1>4, <1>5 DEF Cycled
<1>6. CASE slot \in t.markets[a]["spot"]
  <2>1. slot \in Nat
    BY SlotFacts
  <2>2. ~ Idle(t, a)
    BY <1>6 DEF Idle, NoMarkets, Types
  <2>3. a \notin t.emptied
    <3>. SUFFICES ASSUME a \in t.emptied PROVE FALSE
      OBVIOUS
    <3>1. PICK j \in 0 .. k : t.markets[a]["spot"] = {j}
      BY DEF Waiting, Stale, InStep
    <3>2. slot = k + 1
      BY DEF Waiting
    <3>. QED BY <1>6, <3>1, <3>2
  <2>4. InStep(t, a, k) /\ slot = k
    BY <1>6, <2>1, <2>2, <2>3 DEF Waiting, InStep
  <2>5. slot \in t.agents[a]["spot"]
    BY <1>1, <2>4 DEF Waiting, IsLinked
  <2>6. slot >= LastKept(t, a)
    <3>1. KeptPast(t, a, "spot") \in SUBSET Slots /\ u.past[a]["spot"] = KeptPast(t, a, "spot")
      BY KeptTypes DEF Types, Cycled
    <3>2. LastKept(t, a) \in KeptPast(t, a, "spot") \cup {-1} /\ LastKept(t, a) \in Int
      BY <3>1, NewestOf DEF LastKept
    <3>3. \A s \in KeptPast(t, a, "spot") : s < slot
      BY <3>1 DEF InStep
    <3>. QED BY <2>1, <3>2, <3>3
  <2>. QED BY <2>5, <2>6 DEF Cycled
<1>. QED BY <1>5, <1>6

LEMMA CycledSettled ==
    ASSUME NEW t, NEW D, NEW k \in Nat, Walk(t, D, k, slot), slot \in Slots,
           NEW a \in t.present \ D, a = Root \/ Parent[a] \in D, NEW u, u = CycleOwnMarkets(t, a)
    PROVE  Settled(u, a, slot)
<1>1. t \in Trees /\ a \in Areas /\ Waiting(t, a, k, slot) /\ slot \in Nat
      /\ (a # Root => Parent[a] \in t.present /\ Settled(t, Parent[a], slot))
  BY SlotFacts DEF Walk, IsTree, Trees
<1>2. CASE Children(t.present, a) = {}
  <2>1. UpdatedOnly(t, u, a)
    BY <1>1, <1>2, CycleOwnMarketsRow
  <2>2. /\ u.markets[a] = t.markets[a] /\ u.past[a] = t.past[a] /\ u.ids[a] = t.ids[a]
        /\ u.agents[a] = t.agents[a] /\ u.future[a] = t.future[a] /\ u.present = t.present
        /\ u.connected[a] = IsConnected(a, slot) /\ u.emptied = t.emptied
    BY <2>1 DEF UpdatedOnly, OnlyRow, SameTree
  <2>3. t.agents[a] = NoMarkets
    BY <1>1, <1>2 DEF Waiting, Idle, Stale
  <2>4. ~ (a # Root /\ \E x \in Types : u.agents[a][x] # {})
    BY <2>2, <2>3 DEF NoMarkets
  <2>5. Children(u.present, a) = {} /\ (a # Root => IsLinked(u, a, slot))
    BY <1>2, <2>2 DEF IsLinked
  <2>6. IF a \in u.emptied THEN Stale(u, a, slot) ELSE Idle(u, a)
    <3>1. CASE a \in t.emptied
      <4>1. PICK j \in 0 .. k : InStep(t, a, j)
        BY <1>1, <3>1 DEF Waiting, Stale
      <4>2. j \in 0 .. slot
        BY <1>1, <3>1 DEF Waiting
      <4>3. InStep(u, a, j)
        BY <2>2, <4>1 DEF InStep
      <4>. QED BY <2>2, <2>3, <3>1, <4>2, <4>3 DEF Stale
    <3>2. CASE a \notin t.emptied
      BY <1>1, <1>2, <2>2, <3>2 DEF Waiting, Idle
    <3>. QED BY <3>1, <3>2
  <2>. QED BY <2>2, <2>4, <2>5, <2>6 DEF Settled
<1>3. CASE Children(t.present, a) # {}
  <2>1. Cycled(t, u, a)
    BY <1>1, <1>3, CycleOwnMarketsRow
  <2>2. InStep(u, a, slot)
    BY <1>1, <1>3, <2>1, CycledInStep
  <2>3. /\ u.present = t.present /\ a \notin u.emptied /\ u.connected[a] = IsConnected(a, slot)
    BY <2>1 DEF Cycled, OnlyRow, SameTree
  <2>4. a # Root => \A x \in Types : \A s \in u.agents[a][x] :
                       KeepsMarket(u, a, x, s) /\ KeepsMarket(u, Parent[a], x, s)
    BY <1>1, <2>1, CycledAgents
  <2>5. a # Root /\ Parent[a] \notin u.emptied => IsLinked(u, a, slot)
    BY <1>1, <2>1, <2>2, CycledLinked
  <2>. QED BY <1>3, <2>2, <2>3, <2>4, <2>5 DEF Settled
<1>. QED BY <1>2, <1>3

(* The rest of the tree does not notice, except that markets are kept.     *)
LEMMA OthersSettled ==
    ASSUME NEW t, NEW u, NEW b, NEW n, u.present = t.present, SameRow(t, u, b),
           b # Root => SameRow(t, u, Parent[b]), Settled(t, b, n)
    PROVE  Settled(u, b, n)
<1>1. /\ Idle(t, b) => Idle(u, b)
      /\ \A j : InStep(t, b, j) => InStep(u, b, j)
      /\ IsLinked(t, b, n) => IsLinked(u, b, n)
      /\ \A x, s : KeepsMarket(t, b, x, s) => KeepsMarket(u, b, x, s)
      /\ b # Root => \A x, s : KeepsMarket(t, Parent[b], x, s) => KeepsMarket(u, Parent[b], x, s)
  BY DEF SameRow, Idle, InStep, IsLinked, KeepsMarket
<1>2. Stale(t, b, n) => Stale(u, b, n)
  BY <1>1 DEF Stale, SameRow
<1>3. /\ b \in u.emptied <=> b \in t.emptied
      /\ b # Root => (Parent[b] \in u.emptied <=> Parent[b] \in t.emptied)
      /\ u.connected[b] = t.connected[b] /\ u.agents[b] = t.agents[b]
  BY DEF SameRow
<1>. QED BY <1>1, <1>2, <1>3 DEF Settled

LEMMA OthersWaiting ==
    ASSUME NEW t, NEW u, NEW b, NEW k, NEW n, u.present = t.present, SameRow(t, u, b),
           b # Root => \A x \in Types : \A s \in t.agents[b][x] :
               s >= n - 1 /\ KeepsMarket(t, Parent[b], x, s) => KeepsMarket(u, Parent[b], x, s),
           Waiting(t, b, k, n)
    PROVE  Waiting(u, b, k, n)
<1>1. /\ Idle(t, b) => Idle(u, b)
      /\ \A j : InStep(t, b, j) <=> InStep(u, b, j)
      /\ IsLinked(t, b, n) => IsLinked(u, b, n)
      /\ \A x, s : KeepsMarket(t, b, x, s) => KeepsMarket(u, b, x, s)
  BY DEF SameRow, Idle, InStep, IsLinked, KeepsMarket
<1>2. Stale(t, b, k) => Stale(u, b, k)
  BY <1>1 DEF Stale, SameRow
<1>3. /\ b \in u.emptied <=> b \in t.emptied
      /\ u.agents[b] = t.agents[b]
  BY DEF SameRow
<1>. QED BY <1>1, <1>2, <1>3 DEF Waiting

LEMMA CycledTree ==
    ASSUME NEW t, IsTree(t, slot), slot \in Slots, NEW a \in t.present,
           NEW u, u = CycleOwnMarkets(t, a)
    PROVE  IsTree(u, slot)
<1>1. t \in Trees /\ a \in Areas /\ slot \in Nat
  BY SlotFacts DEF IsTree, Trees
<1>2. OnlyRow(t, u, a)
  BY <1>1, CycleOwnMarketsRow DEF UpdatedOnly, Cycled
<1>3. u \in Trees /\ u.present = t.present
  BY <1>2 DEF OnlyRow, SameTree
<1>4. ASSUME NEW b \in Areas \ {a}, NEW x \in Types
      PROVE  u.markets[b][x] \cup u.past[b][x] \cup u.agents[b][x] \cup u.ids[b][x] \subseteq 0 .. slot
  BY <1>2 DEF OnlyRow, SameRow, IsTree
<1>5. ASSUME NEW x \in Types
      PROVE  u.markets[a][x] \cup u.past[a][x] \cup u.agents[a][x] \cup u.ids[a][x] \subseteq 0 .. slot
  <2>0. t.markets[a][x] \cup t.past[a][x] \cup t.agents[a][x] \cup t.ids[a][x] \subseteq 0 .. slot
    BY <1>1 DEF IsTree
  <2>1. CASE Children(t.present, a) = {}
    <3>1. UpdatedOnly(t, u, a)
      BY <1>1, <2>1, CycleOwnMarketsRow
    <3>. QED BY <2>0, <3>1 DEF UpdatedOnly
  <2>2. CASE Children(t.present, a) # {}
    <3>1. Cycled(t, u, a)
      BY <1>1, <2>2, CycleOwnMarketsRow
    <3>2. \A y \in Types : KeptPast(t, a, y) \subseteq 0 .. slot
      BY <1>1 DEF IsTree, KeptPast, Rotated
    <3>3. Opened(t, a, x) \subseteq 0 .. slot
      <4>1. LastKept(t, a) >= 0 => LastKept(t, a) \in 0 .. slot
        <5>1. LastKept(t, a) \in KeptPast(t, a, "spot") \cup {-1}
          BY <1>1, KeptTypes, NewestOf DEF LastKept, Types
        <5>. QED BY <3>2, <5>1 DEF Types
      <4>. QED BY <1>1, <4>1 DEF Opened
    <3>. QED BY <2>0, <3>1, <3>2, <3>3 DEF Cycled
  <2>. QED BY <2>1, <2>2
<1>. QED BY <1>3, <1>4, <1>5 DEF IsTree

LEMMA WalkStep ==
    ASSUME NEW t, NEW D, NEW k \in Nat, Walk(t, D, k, slot), slot \in Slots,
           NEW a \in t.present \ D, a = Root \/ Parent[a] \in D,
           \A c \in Children(t.present, a) : c \notin D, NEW u, u = CycleOwnMarkets(t, a)
    PROVE  Walk(u, D \cup {a}, k, slot)
<1>1. t \in Trees /\ a \in Areas /\ slot \in Nat /\ IsTree(t, slot)
  BY SlotFacts DEF Walk, IsTree, Trees
<1>2. OnlyRow(t, u, a) /\ (UpdatedOnly(t, u, a) \/ Cycled(t, u, a))
  BY <1>1, CycleOwnMarketsRow DEF UpdatedOnly, Cycled
<1>3. u.present = t.present /\ \A b \in Areas \ {a} : SameRow(t, u, b)
  BY <1>2 DEF OnlyRow, SameTree
<1>4. IsTree(u, slot)
  BY <1>1, CycledTree
<1>5. Settled(u, a, slot)
  BY CycledSettled
<1>6. \A b \in t.present : b \in Areas /\ (b # Root => Parent[b] \in t.present /\ Parent[b] \in Areas)
  BY <1>1 DEF IsTree, Trees
<1>7. ASSUME NEW b \in t.present \cap D PROVE Settled(u, b, slot)
  <2>1. b # a /\ (b # Root => Parent[b] # a) /\ Settled(t, b, slot)
    BY DEF Children, Walk
  <2>. QED BY <1>3, <1>6, <2>1, OthersSettled
<1>8. ASSUME NEW b \in t.present \ (D \cup {a}) PROVE Waiting(u, b, k, slot)
  <2>1. b # a /\ SameRow(t, u, b) /\ Waiting(t, b, k, slot)
    BY <1>3, <1>6 DEF Walk
  <2>2. ASSUME b # Root, NEW x \in Types, NEW s \in t.agents[b][x], s >= slot - 1,
               KeepsMarket(t, Parent[b], x, s)
        PROVE  KeepsMarket(u, Parent[b], x, s)
    <3>1. s \in Slots /\ Parent[b] \in Areas
      BY <1>1, <1>6, <2>2, RowTypes
    <3>2. CASE Parent[b] # a
      BY <1>3, <2>2, <3>1, <3>2 DEF SameRow, KeepsMarket
    <3>3. CASE Parent[b] = a /\ UpdatedOnly(t, u, a)
      BY <2>2, <3>3 DEF UpdatedOnly, KeepsMarket
    <3>4. CASE Parent[b] = a /\ Cycled(t, u, a)
      BY <1>1, <2>2, <3>1, <3>4, CycledKeeps
    <3>. QED BY <1>2, <3>2, <3>3, <3>4
  <2>3. b # Root => \A x \in Types : \A s \in t.agents[b][x] :
            s >= slot - 1 /\ KeepsMarket(t, Parent[b], x, s) => KeepsMarket(u, Parent[b], x, s)
    BY <2>2
  <2>. QED BY <1>3, <2>1, <2>3, OthersWaiting
<1>. QED BY <1>3, <1>4, <1>5, <1>7, <1>8 DEF Walk
-----------------------------------------------------------------------------
(* What does not depend on the deviances and on who was reached.           *)

SameFields(t, u) ==
    /\ u.present = t.present /\ u.emptied = t.emptied /\ u.markets = t.markets /\ u.past = t.past
    /\ u.ids = t.ids /\ u.agents = t.agents /\ u.future = t.future /\ u.connected = t.connected

LEMMA WalkSame ==
    ASSUME NEW t, NEW u \in Trees, SameFields(t, u), NEW D, NEW E, t.present \cap D = t.present \cap E,
           NEW k, NEW n, Walk(t, D, k, n)
    PROVE  Walk(u, E, k, n)
<1>1. u.present = t.present /\ \A b : SameRow(t, u, b)
  BY DEF SameFields, SameRow
<1>2. IsTree(u, n)
  BY DEF Walk, IsTree, SameFields
<1>3. ASSUME NEW b \in t.present \cap E PROVE Settled(u, b, n)
  <2>1. Settled(t, b, n)
    BY DEF Walk
  <2>. QED BY <1>1, <2>1, OthersSettled
<1>4. ASSUME NEW b \in t.present \ E PROVE Waiting(u, b, k, n)
  <2>1. Waiting(t, b, k, n) /\ SameRow(t, u, b)
    BY <1>1 DEF Walk
  <2>2. b # Root => \A x \in Types : \A s \in t.agents[b][x] :
            s >= n - 1 /\ KeepsMarket(t, Parent[b], x, s) => KeepsMarket(u, Parent[b], x, s)
    BY DEF SameFields, KeepsMarket
  <2>. QED BY <1>1, <2>1, <2>2, OthersWaiting
<1>. QED BY <1>1, <1>2, <1>3, <1>4 DEF Walk

LEMMA CurrentMarketType ==
    ASSUME NEW t \in Trees, NEW a \in Areas
    PROVE  CurrentMarket(t, a) \in Slots \cup {-1}
<1>1. t.past[a]["spot"] \in SUBSET Slots
  BY RowTypes DEF Types
<1>2. a # Root => t.past[Parent[a]]["spot"] \in SUBSET Slots
  BY RowTypes, AreaFacts DEF Types
<1>. QED BY <1>1, <1>2, NewestOf DEF CurrentMarket

LEMMA DeviancesOf ==
    ASSUME NEW t \in Trees, NEW a \in Areas, NEW u, u = CalculateEnergyDeviances(t, a)
    PROVE  /\ u \in Trees /\ SameFields(t, u) /\ u.reached = t.reached
           /\ ~ settings.settlement \/ CurrentMarket(t, a) < 0 => u = t
<1>. DEFINE s == CurrentMarket(t, a)
            d == (t.deviances[a] \cup {s}) \ (0 .. slot - 3)
<1>1. CASE ~ settings.settlement \/ s < 0
  BY <1>1 DEF CalculateEnergyDeviances, SameFields
<1>2. CASE ~ (~ settings.settlement \/ s < 0) /\ \E c \in Children(t.present, a) : s \notin t.deviances[c]
  <2>1. u = [t EXCEPT !.error = TRUE]
    BY <1>2 DEF CalculateEnergyDeviances
  <2>2. u \in Trees
    BY <2>1 DEF Trees
  <2>. QED BY <1>2, <2>1, <2>2 DEF SameFields, Trees
<1>3. CASE ~ (~ settings.settlement \/ s < 0) /\ ~ \E c \in Children(t.present, a) : s \notin t.deviances[c]
  <2>1. u = [t EXCEPT !.deviances[a] = d]
    BY <1>3 DEF CalculateEnergyDeviances
  <2>2. s \in Slots
    BY <1>3, CurrentMarketType
  <2>3. d \in SUBSET Slots
    BY <2>2 DEF Trees
  <2>. HIDE DEF d
  <2>4. u \in Trees
    <3>1. [t.deviances EXCEPT ![a] = d] \in [Areas -> SUBSET Slots]
      BY <2>3 DEF Trees
    <3>2. [t EXCEPT !.deviances = [t.deviances EXCEPT ![a] = d]] \in Trees
      BY <3>1 DEF Trees
    <3>. QED BY <2>1, <3>2
  <2>. QED BY <1>3, <2>1, <2>4 DEF SameFields, Trees
<1>. QED BY <1>1, <1>2, <1>3
-----------------------------------------------------------------------------
(* The market cycle of the tree, from the top.                             *)

Done(i) == {TopDown[j] : j \in 1 .. i}

LEMMA TopDownOrder ==
    /\ Done(0) = {} /\ Done(Len(TopDown)) = Areas
    /\ \A i \in 1 .. Len(TopDown) :
          /\ TopDown[i] \in Areas /\ TopDown[i] \notin Done(i - 1)
          /\ Done(i) = Done(i - 1) \cup {TopDown[i]}
          /\ TopDown[i] # Root => Parent[TopDown[i]] \in Done(i - 1)
          /\ \A c \in Areas \ {Root} : Parent[c] = TopDown[i] => c \notin Done(i)
<1>. DEFINE N == Len(TopDown)
<1>1. /\ N \in Nat /\ DOMAIN TopDown = 1 .. N
      /\ Areas = {TopDown[i] : i \in 1 .. N}
      /\ \A a \in Areas \ {Root} : Parent[a] \in Areas
      /\ \A i, j \in 1 .. N : TopDown[i] = TopDown[j] => i = j
      /\ \A i, j \in 1 .. N : i # 1 /\ Parent[TopDown[i]] = TopDown[j] => j < i
  BY AreaFacts, TreeAssumption
<1>. HIDE DEF N
<1>2. Done(0) = {} /\ Done(N) = Areas
  BY <1>1 DEF Done
<1>3. ASSUME NEW i \in 1 .. N
      PROVE  /\ TopDown[i] \in Areas /\ TopDown[i] \notin Done(i - 1)
             /\ Done(i) = Done(i - 1) \cup {TopDown[i]}
             /\ TopDown[i] # Root => Parent[TopDown[i]] \in Done(i - 1)
             /\ \A c \in Areas \ {Root} : Parent[c] = TopDown[i] => c \notin Done(i)
  <2>1. TopDown[i] \in Areas
    BY <1>1
  <2>2. TopDown[i] \notin Done(i - 1)
    <3>. SUFFICES ASSUME NEW j \in 1 .. i - 1, TopDown[i] = TopDown[j] PROVE FALSE
      BY DEF Done
    <3>1. j \in 1 .. N /\ j # i
      BY <1>1
    <3>. QED BY <1>1, <3>1
  <2>3. Done(i) = Done(i - 1) \cup {TopDown[i]}
    <3>1. \A j \in 1 .. i : j \in 1 .. i - 1 \/ j = i
      BY <1>1
    <3>2. i \in 1 .. i /\ \A j \in 1 .. i - 1 : j \in 1 .. i
      BY <1>1
    <3>. QED BY <3>1, <3>2 DEF Done
  <2>4. ASSUME TopDown[i] # Root PROVE Parent[TopDown[i]] \in Done(i - 1)
    <3>1. i # 1
      BY <2>4 DEF Root
    <3>2. PICK j \in 1 .. N : Parent[TopDown[i]] = TopDown[j]
      BY <1>1, <2>1, <2>4
    <3>3. j < i
      BY <1>1, <3>1, <3>2
    <3>4. j \in 1 .. i - 1
      BY <1>1, <3>3
    <3>. QED BY <3>2, <3>4 DEF Done
  <2>5. ASSUME NEW c \in Areas \ {Root}, Parent[c] = TopDown[i], c \in Done(i) PROVE FALSE
    <3>1. PICK j \in 1 .. i : c = TopDown[j]
      BY <2>5 DEF Done
    <3>2. j \in 1 .. N /\ j # 1
      BY <1>1, <3>1 DEF Root
    <3>3. i < j
      BY <1>1, <2>5, <3>1, <3>2
    <3>. QED BY <1>1, <3>3
  <2>. QED BY <2>1, <2>2, <2>3, <2>4, <2>5
<1>. QED BY <1>2, <1>3 DEF N

LEMMA CycleAreaType ==
    ASSUME NEW t \in Trees, NEW a \in Areas, slot \in Slots
    PROVE  CycleArea(t, a) \in Trees
<1>. DEFINE u == CycleOwnMarkets(t, a)
            r == u.reached \cup {a}
<1>1. u \in Trees
  BY CycleOwnMarketsRow DEF UpdatedOnly, Cycled, OnlyRow
<1>2. CycleArea(t, a) \in {t, u, [u EXCEPT !.reached = r]}
  BY DEF CycleArea
<1>. HIDE DEF u
<1>3. r \in SUBSET Areas
  BY <1>1 DEF Trees
<1>. HIDE DEF r
<1>4. [u EXCEPT !.reached = r] \in Trees
  BY <1>1, <1>3 DEF Trees
<1>. QED BY <1>1, <1>2, <1>4

LEMMA CycleBelowLoop ==
    ASSUME NEW t \in Trees, slot \in Slots
    PROVE  \E g \in [0 .. Len(TopDown) -> Trees] :
              /\ \A i \in 0 .. Len(TopDown) :
                    g[i] = IF i = 0 THEN [t EXCEPT !.reached = {}] ELSE CycleArea(g[i - 1], TopDown[i])
              /\ CycleBelow(t) = g[Len(TopDown)]
<1>. DEFINE N == Len(TopDown)
            first == [t EXCEPT !.reached = {}]
            step == [p \in (1 .. N) \X Trees |-> CycleArea(p[2], TopDown[p[1]])]
            IsLoop(g) == g = [i \in 0 .. N |-> IF i = 0 THEN first ELSE CycleArea(g[i - 1], TopDown[i])]
            loop == CHOOSE g : IsLoop(g)
<1>1. N \in Nat /\ \A i \in 1 .. N : TopDown[i] \in Areas
  BY AreaFacts
<1>2. first \in Trees
  BY DEF Trees
<1>3. step \in [(1 .. N) \X Trees -> Trees]
  BY <1>1, CycleAreaType
<1>4. \A i \in 1 .. N, u \in Trees : step[<<i, u>>] = CycleArea(u, TopDown[i])
  OBVIOUS
<1>5. CycleBelow(t) = loop[N]
  BY DEF CycleBelow
<1>. HIDE DEF first, step, N
<1>6. PICK g \in [0 .. N -> Trees] : Steps(g, first, step, N)
  BY <1>1, <1>2, <1>3, WalkExists
<1>7. \A i \in 0 .. N : g[i] = IF i = 0 THEN first ELSE CycleArea(g[i - 1], TopDown[i])
  <2>. TAKE i \in 0 .. N
  <2>1. CASE i = 0
    BY <1>6, <2>1 DEF Steps
  <2>2. CASE i # 0
    <3>1. i \in 1 .. N /\ g[i - 1] \in Trees
      BY <1>1, <1>6, <2>2
    <3>. QED BY <1>4, <1>6, <2>2, <3>1 DEF Steps
  <2>. QED BY <2>1, <2>2
<1>8. IsLoop(g)
  BY <1>7
<1>9. IsLoop(loop)
  BY <1>8
<1>. HIDE DEF loop
<1>10. /\ DOMAIN loop = 0 .. N
       /\ \A i \in 0 .. N : loop[i] = IF i = 0 THEN first ELSE CycleArea(loop[i - 1], TopDown[i])
  BY <1>9
<1>. HIDE DEF IsLoop
<1>11. \A i \in 0 .. N : loop[i] \in Trees
  <2>. DEFINE T == {i \in 0 .. N : loop[i] \in Trees}
  <2>1. 0 \in T
    BY <1>1, <1>2, <1>10
  <2>2. ASSUME NEW i \in 1 .. N, i - 1 \in T PROVE i \in T
    <3>1. i \in 0 .. N /\ i # 0 /\ loop[i - 1] \in Trees /\ TopDown[i] \in Areas
      BY <1>1, <2>2
    <3>2. loop[i] = CycleArea(loop[i - 1], TopDown[i])
      BY <1>10, <3>1
    <3>. QED BY <3>1, <3>2, CycleAreaType
  <2>. HIDE DEF T
  <2>3. \A i \in 0 .. N : i \in T
    BY <1>1, <2>1, <2>2, CountUp
  <2>. QED BY <2>3 DEF T
<1>12. loop \in [0 .. N -> Trees]
  <2>1. loop = [i \in 0 .. N |-> loop[i]]
    BY <1>9 DEF IsLoop
  <2>. QED BY <1>11, <2>1
<1>. QED BY <1>5, <1>10, <1>12 DEF N, first

LEMMA CycledOnlyRow ==
    ASSUME NEW t \in Trees, NEW a \in Areas, slot \in Slots, NEW u, u = CycleOwnMarkets(t, a)
    PROVE  /\ OnlyRow(t, u, a)
           /\ Children(t.present, a) = {} => u.emptied = t.emptied
           /\ Children(t.present, a) # {} => Cycled(t, u, a) /\ a \notin u.emptied
<1>1. CASE Children(t.present, a) = {}
  <2>1. UpdatedOnly(t, u, a)
    BY <1>1, CycleOwnMarketsRow
  <2>. QED BY <1>1, <2>1 DEF UpdatedOnly
<1>2. CASE Children(t.present, a) # {}
  <2>1. Cycled(t, u, a)
    BY <1>2, CycleOwnMarketsRow
  <2>. QED BY <1>2, <2>1 DEF Cycled
<1>. QED BY <1>1, <1>2

(* An area with children hands the market cycle on.                        *)
LEMMA CycleBroadcasts ==
    ASSUME NEW t, NEW D, NEW k \in Nat, Walk(t, D, k, slot), slot \in Slots,
           NEW a \in t.present \ D, Children(t.present, a) # {}, NEW u, u = CycleOwnMarkets(t, a)
    PROVE  Broadcasts(t, u, a)
<1>0. t \in Trees /\ a \in Areas /\ Waiting(t, a, k, slot) /\ slot \in Nat
  BY SlotFacts DEF Walk, IsTree, Trees
<1>1. /\ t \in Trees /\ a \in Areas /\ Waiting(t, a, k, slot) /\ slot \in Nat /\ Cycled(t, u, a)
      /\ u.present = t.present
  <2>1. Cycled(t, u, a)
    BY <1>0, CycleOwnMarketsRow
  <2>2. u.present = t.present
    BY <2>1 DEF Cycled, OnlyRow, SameTree
  <2>. QED BY <1>0, <2>1, <2>2
<1>2. CASE a \in t.emptied
  <2>1. PICK j \in 0 .. k : t.markets[a]["spot"] = {j}
    BY <1>1, <1>2 DEF Waiting, Stale, InStep
  <2>2. slot \notin t.markets[a]["spot"]
    BY <1>1, <1>2, <2>1 DEF Waiting
  <2>. QED BY <1>1, <2>2 DEF Broadcasts
<1>3. CASE Idle(t, a)
  BY <1>1, <1>3 DEF Broadcasts, Idle, NoMarkets, Types
<1>4. CASE InStep(t, a, k) /\ slot = k + 1
  <2>1. slot \notin t.markets[a]["spot"]
    BY <1>4 DEF InStep
  <2>. QED BY <1>1, <2>1 DEF Broadcasts
<1>5. CASE InStep(t, a, k) /\ slot = 0 /\ k = 0
  <2>1. u.past[a]["spot"] = {}
    BY <1>1, <1>5, SameCycleInStep DEF Types
  <2>. QED BY <1>1, <2>1 DEF Broadcasts
<1>. QED BY <1>1, <1>2, <1>3, <1>4, <1>5 DEF Waiting

(* The areas with children keep the market that is over as a past market.  *)
Aged(t, D, k) ==
    \A a \in t.present : Children(t.present, a) # {} =>
        IF a \in D THEN k \in t.past[a]["spot"] ELSE InStep(t, a, k)

LEMMA AgedStep ==
    ASSUME NEW t \in Trees, NEW D, NEW k \in Nat, slot \in Slots, slot = k + 1, Aged(t, D, k),
           NEW a \in t.present \ D, NEW u, u = CycleOwnMarkets(t, a)
    PROVE  Aged(u, D \cup {a}, k)
<1>1. a \in Areas
  BY DEF Trees
<1>2. OnlyRow(t, u, a) /\ (Children(t.present, a) # {} => Cycled(t, u, a))
  BY <1>1, CycledOnlyRow
<1>3. u.present = t.present /\ \A b \in Areas \ {a} : SameRow(t, u, b)
  BY <1>2 DEF OnlyRow, SameTree
<1>4. ASSUME NEW b \in t.present, Children(t.present, b) # {}
      PROVE  IF b \in D \cup {a} THEN k \in u.past[b]["spot"] ELSE InStep(u, b, k)
  <2>1. CASE b = a
    <3>1. InStep(t, a, k)
      BY <1>4, <2>1 DEF Aged
    <3>2. k \in u.past[a]["spot"]
      BY <1>1, <1>2, <1>4, <2>1, <3>1, LastSlotKept
    <3>. QED BY <2>1, <3>2
  <2>2. CASE b # a
    <3>1. SameRow(t, u, b)
      BY <1>3, <2>2 DEF Trees
    <3>2. IF b \in D THEN k \in t.past[b]["spot"] ELSE InStep(t, b, k)
      BY <1>4 DEF Aged
    <3>. QED BY <2>2, <3>1, <3>2 DEF SameRow, InStep
  <2>. QED BY <2>1, <2>2
<1>. QED BY <1>3, <1>4 DEF Aged

LEMMA AgedSame ==
    ASSUME NEW t, NEW u, SameFields(t, u), NEW D, NEW k, Aged(t, D, k)
    PROVE  Aged(u, D, k)
<1>1. u.present = t.present /\ u.past = t.past /\ \A a : InStep(t, a, k) => InStep(u, a, k)
  BY DEF SameFields, InStep
<1>2. ASSUME NEW a \in t.present, Children(t.present, a) # {}
      PROVE  IF a \in D THEN k \in u.past[a]["spot"] ELSE InStep(u, a, k)
  BY <1>1, <1>2 DEF Aged
<1>. QED BY <1>1, <1>2 DEF Aged

CycledTo(t, u, D, k) ==
    /\ u \in Trees /\ Walk(u, D, k, slot)
    /\ u.present = t.present /\ u.error = t.error /\ u.deviances = t.deviances /\ u.emptied \subseteq t.emptied
    /\ \A a \in t.present \cap D : Children(t.present, a) # {} => a \in u.reached
    /\ slot = k + 1 /\ Aged(t, {}, k) => Aged(u, D, k)

LEMMA CycleAreaStep ==
    ASSUME NEW t, NEW k \in Nat, slot \in Slots, NEW i \in 1 .. Len(TopDown), NEW w,
           CycledTo(t, w, Done(i - 1), k), NEW u, u = CycleArea(w, TopDown[i])
    PROVE  CycledTo(t, u, Done(i), k)
<1>. DEFINE a == TopDown[i]
            D == Done(i - 1)
            v == CycleOwnMarkets(w, a)
<1>1. /\ a \in Areas /\ a \notin D /\ Done(i) = D \cup {a}
      /\ a # Root => Parent[a] \in D
      /\ \A c \in Areas \ {Root} : Parent[c] = a => c \notin D
  BY TopDownOrder
<1>2. w \in Trees /\ Walk(w, D, k, slot) /\ w.present = t.present
  BY DEF CycledTo
<1>3. CASE a \notin w.present
  <2>1. u = w /\ w.present \cap D = w.present \cap Done(i) /\ SameFields(w, w)
    BY <1>1, <1>3 DEF CycleArea, SameFields
  <2>2. Walk(u, Done(i), k, slot)
    BY <1>2, <2>1, WalkSame
  <2>3. Aged(w, D, k) => Aged(w, Done(i), k)
    BY <1>1, <1>3 DEF Aged
  <2>. QED BY <1>1, <1>2, <1>3, <2>1, <2>2, <2>3 DEF CycledTo
<1>4. CASE a \in w.present
  <2>1. a \in w.present \ D /\ (a = Root \/ Parent[a] \in D) /\ \A c \in Children(w.present, a) : c \notin D
    BY <1>1, <1>2, <1>4 DEF Children, Trees
  <2>2. Walk(v, Done(i), k, slot)
    BY <1>1, <1>2, <2>1, WalkStep
  <2>3. OnlyRow(w, v, a) /\ (Children(w.present, a) = {} => v.emptied = w.emptied)
        /\ (Children(w.present, a) # {} => a \notin v.emptied)
    BY <1>1, <1>2, CycledOnlyRow
  <2>4. /\ v \in Trees /\ v.present = t.present /\ v.error = t.error /\ v.deviances = t.deviances
        /\ v.reached = w.reached
    BY <2>3 DEF OnlyRow, SameTree, CycledTo
  <2>5. v.emptied \subseteq t.emptied
    <3>1. \A b \in v.emptied : b \in w.emptied
      BY <2>3, <2>4 DEF OnlyRow, SameRow, Trees
    <3>. QED BY <3>1 DEF CycledTo
  <2>6. slot = k + 1 /\ Aged(t, {}, k) => Aged(v, Done(i), k)
    <3>. SUFFICES ASSUME slot = k + 1, Aged(t, {}, k) PROVE Aged(v, Done(i), k)
      OBVIOUS
    <3>1. Aged(w, D, k)
      BY DEF CycledTo
    <3>. QED BY <1>1, <1>2, <2>1, <3>1, AgedStep
  <2>7. a # Root => Parent[a] \in w.reached
    <3>. SUFFICES ASSUME a # Root PROVE Parent[a] \in w.reached
      OBVIOUS
    <3>1. Parent[a] \in w.present
      BY <1>2, <1>4 DEF Walk, IsTree
    <3>2. a \in Children(t.present, Parent[a])
      BY <1>2, <1>4 DEF Children
    <3>. QED BY <1>1, <1>2, <3>1, <3>2 DEF CycledTo
  <2>. HIDE DEF v
  <2>8. CASE Children(w.present, a) = {}
    <3>0. ~ Broadcasts(w, v, a)
      BY <1>2, <2>4, <2>8 DEF Broadcasts
    <3>1. u = v
      BY <1>4, <2>7, <3>0 DEF CycleArea, v
    <3>2. \A b \in t.present \cap Done(i) : Children(t.present, b) # {} => b \in u.reached
      BY <1>1, <1>2, <2>4, <2>8, <3>1 DEF CycledTo
    <3>. QED BY <2>2, <2>4, <2>5, <2>6, <3>1, <3>2 DEF CycledTo
  <2>9. CASE Children(w.present, a) # {}
    <3>1. Broadcasts(w, v, a)
      BY <1>2, <2>1, <2>9, CycleBroadcasts DEF v
    <3>2. u = [v EXCEPT !.reached = v.reached \cup {a}]
      BY <1>4, <2>7, <3>1 DEF CycleArea, v
    <3>3. u \in Trees /\ SameFields(v, u) /\ u.reached = v.reached \cup {a} /\ u.error = v.error
          /\ u.deviances = v.deviances
      <4>1. v.reached \cup {a} \in SUBSET Areas
        BY <1>1, <2>4 DEF Trees
      <4>. QED BY <2>4, <3>2, <4>1 DEF Trees, SameFields
    <3>4. Walk(u, Done(i), k, slot)
      BY <2>2, <3>3, WalkSame
    <3>5. \A b \in t.present \cap Done(i) : Children(t.present, b) # {} => b \in u.reached
      BY <1>1, <2>4, <3>3 DEF CycledTo
    <3>6. Aged(v, Done(i), k) => Aged(u, Done(i), k)
      BY <3>3, AgedSame
    <3>. QED BY <2>4, <2>5, <2>6, <3>3, <3>4, <3>5, <3>6 DEF CycledTo, SameFields
  <2>. QED BY <2>8, <2>9
<1>. QED BY <1>3, <1>4

(* The cycle reaches all areas of the tree.                                *)
LEMMA CycleBelowReachesAll ==
    ASSUME NEW t, NEW k \in Nat, slot \in Slots, Walk(t, {}, k, slot), NEW u, u = CycleBelow(t)
    PROVE  CycledTo(t, u, Areas, k)
<1>. DEFINE N == Len(TopDown)
<1>1. t \in Trees /\ N \in Nat
  BY AreaFacts DEF Walk, IsTree
<1>2. PICK g \in [0 .. N -> Trees] :
         /\ \A i \in 0 .. N : g[i] = IF i = 0 THEN [t EXCEPT !.reached = {}] ELSE CycleArea(g[i - 1], TopDown[i])
         /\ u = g[N]
  BY <1>1, CycleBelowLoop
<1>. DEFINE T == {i \in 0 .. N : CycledTo(t, g[i], Done(i), k)}
<1>3. 0 \in T
  <2>1. 0 \in 0 .. N /\ g[0] = [t EXCEPT !.reached = {}] /\ g[0] \in Trees
    BY <1>1, <1>2
  <2>2. SameFields(t, g[0]) /\ g[0].error = t.error /\ g[0].deviances = t.deviances
    BY <1>1, <2>1 DEF SameFields, Trees
  <2>3. Walk(g[0], Done(0), k, slot)
    BY <2>1, <2>2, WalkSame, TopDownOrder
  <2>4. Aged(t, {}, k) => Aged(g[0], Done(0), k)
    <3>1. Done(0) = {}
      BY TopDownOrder
    <3>2. Aged(t, {}, k) => Aged(g[0], {}, k)
      BY <2>2, AgedSame
    <3>. QED BY <3>1, <3>2
  <2>5. CycledTo(t, g[0], Done(0), k)
    BY <2>1, <2>2, <2>3, <2>4, TopDownOrder DEF CycledTo, SameFields
  <2>. QED BY <2>1, <2>5
<1>4. ASSUME NEW i \in 1 .. N, i - 1 \in T PROVE i \in T
  <2>1. i \in 0 .. N /\ i # 0 /\ CycledTo(t, g[i - 1], Done(i - 1), k)
    BY <1>1, <1>4
  <2>2. g[i] = CycleArea(g[i - 1], TopDown[i])
    BY <1>2, <2>1
  <2>3. CycledTo(t, g[i], Done(i), k)
    BY <2>1, <2>2, CycleAreaStep
  <2>. QED BY <2>1, <2>3
<1>. HIDE DEF T
<1>5. \A i \in 0 .. N : i \in T
  BY <1>1, <1>3, <1>4, CountUp
<1>6. N \in 0 .. N
  BY <1>1
<1>7. N \in T
  BY <1>5, <1>6
<1>. QED BY <1>2, <1>7, TopDownOrder DEF T
-----------------------------------------------------------------------------
(* The energy deviances, from the leaves up.                               *)

Deviance(t, w, i) ==
    IF TopDown[Len(TopDown) + 1 - i] \in t.present
    THEN CalculateEnergyDeviances(w, TopDown[Len(TopDown) + 1 - i]) ELSE w

LEMMA DevianceType ==
    ASSUME NEW t, NEW w \in Trees, NEW i \in 1 .. Len(TopDown)
    PROVE  Deviance(t, w, i) \in Trees
<1>1. TopDown[Len(TopDown) + 1 - i] \in Areas
  <2>1. Len(TopDown) + 1 - i \in 1 .. Len(TopDown)
    BY AreaFacts
  <2>. QED BY <2>1, AreaFacts
<1>. QED BY <1>1, DeviancesOf DEF Deviance

LEMMA DeviancesLoop ==
    ASSUME NEW t \in Trees
    PROVE  \E g \in [0 .. Len(TopDown) -> Trees] :
              /\ \A i \in 0 .. Len(TopDown) : g[i] = IF i = 0 THEN t ELSE Deviance(t, g[i - 1], i)
              /\ CalculateAllDeviances(t) = g[Len(TopDown)]
<1>. DEFINE N == Len(TopDown)
            step == [p \in (1 .. N) \X Trees |-> Deviance(t, p[2], p[1])]
            IsLoop(g) == g = [i \in 0 .. N |-> IF i = 0 THEN t ELSE Deviance(t, g[i - 1], i)]
            loop == CHOOSE g : IsLoop(g)
<1>1. N \in Nat /\ \A i \in 1 .. N : TopDown[i] \in Areas
  BY AreaFacts
<1>3. step \in [(1 .. N) \X Trees -> Trees]
  BY <1>1, DevianceType
<1>4. \A i \in 1 .. N, u \in Trees : step[<<i, u>>] = Deviance(t, u, i)
  OBVIOUS
<1>5. CalculateAllDeviances(t) = loop[N]
  BY DEF CalculateAllDeviances, Deviance
<1>. HIDE DEF step, N
<1>6. PICK g \in [0 .. N -> Trees] : Steps(g, t, step, N)
  BY <1>1, <1>3, WalkExists
<1>7. \A i \in 0 .. N : g[i] = IF i = 0 THEN t ELSE Deviance(t, g[i - 1], i)
  <2>. TAKE i \in 0 .. N
  <2>1. CASE i = 0
    BY <1>6, <2>1 DEF Steps
  <2>2. CASE i # 0
    <3>1. i \in 1 .. N /\ g[i - 1] \in Trees
      BY <1>1, <1>6, <2>2
    <3>. QED BY <1>4, <1>6, <2>2, <3>1 DEF Steps
  <2>. QED BY <2>1, <2>2
<1>8. IsLoop(g)
  BY <1>7
<1>9. IsLoop(loop)
  BY <1>8
<1>. HIDE DEF loop
<1>10. \A i \in 0 .. N : loop[i] = IF i = 0 THEN t ELSE Deviance(t, loop[i - 1], i)
  BY <1>9
<1>. HIDE DEF IsLoop
<1>11. \A i \in 0 .. N : loop[i] \in Trees
  <2>. DEFINE T == {i \in 0 .. N : loop[i] \in Trees}
  <2>1. 0 \in T
    BY <1>1, <1>10
  <2>2. ASSUME NEW i \in 1 .. N, i - 1 \in T PROVE i \in T
    <3>1. i \in 0 .. N /\ i # 0 /\ loop[i - 1] \in Trees
      BY <1>1, <2>2
    <3>2. loop[i] = Deviance(t, loop[i - 1], i)
      BY <1>10, <3>1
    <3>. QED BY <3>1, <3>2, DevianceType DEF N
  <2>. HIDE DEF T
  <2>3. \A i \in 0 .. N : i \in T
    BY <1>1, <2>1, <2>2, CountUp
  <2>. QED BY <2>3 DEF T
<1>12. loop \in [0 .. N -> Trees]
  <2>1. loop = [i \in 0 .. N |-> loop[i]]
    BY <1>9 DEF IsLoop
  <2>. QED BY <1>11, <2>1
<1>. QED BY <1>5, <1>10, <1>12 DEF N

(* Without settlement, or before the first market is over, there is        *)
(* nothing to calculate.  Later nothing is missing if all areas are in     *)
(* step: each calculates for the slot that is over, after its children.    *)
Quiet(t) == ~ settings.settlement \/ \A a \in t.present : CurrentMarket(t, a) < 0
InTime(t, k) ==
    \A a \in t.present : a # Root \/ Children(t.present, a) # {} => CurrentMarket(t, a) = k
Calculated(t, w, i, k) ==
    /\ w \in Trees /\ SameFields(t, w) /\ w.reached = t.reached /\ (Quiet(t) => w = t)
    /\ slot = k + 1 /\ settings.settlement /\ InTime(t, k) =>
          /\ w.error = t.error
          /\ \A j \in Len(TopDown) + 1 - i .. Len(TopDown) :
                TopDown[j] \in t.present \ {Root} => k \in w.deviances[TopDown[j]]

LEMMA DevianceStep ==
    ASSUME NEW t \in Trees, NEW k \in Nat, NEW i \in 1 .. Len(TopDown), NEW w,
           Calculated(t, w, i - 1, k), NEW u, u = Deviance(t, w, i)
    PROVE  Calculated(t, u, i, k)
<1>. DEFINE N == Len(TopDown)
            m == N + 1 - i
            a == TopDown[m]
<1>1. /\ N \in Nat /\ m \in 1 .. N /\ a \in Areas /\ m + 1 = N + 1 - (i - 1) /\ m \in Nat
      /\ \A j \in m .. N : j = m \/ j \in m + 1 .. N
  BY AreaFacts
<1>2. w \in Trees /\ SameFields(t, w) /\ w.reached = t.reached /\ (Quiet(t) => w = t)
  BY DEF Calculated
<1>3. CurrentMarket(w, a) = CurrentMarket(t, a) /\ w.present = t.present
  BY <1>2 DEF CurrentMarket, SameFields
<1>4. u = IF a \in t.present THEN CalculateEnergyDeviances(w, a) ELSE w
  BY DEF Deviance
<1>5. \A j \in 1 .. N : TopDown[j] = a => j = m
  BY <1>1, TreeAssumption, AreaFacts
<1>. HIDE DEF m, a, N
<1>6. u \in Trees /\ SameFields(t, u) /\ u.reached = t.reached /\ (Quiet(t) => u = t)
  <2>1. CASE a \notin t.present
    BY <1>2, <1>4, <2>1
  <2>2. CASE a \in t.present
    <3>1. /\ u \in Trees /\ SameFields(w, u) /\ u.reached = w.reached
          /\ ~ settings.settlement \/ CurrentMarket(w, a) < 0 => u = w
      BY <1>1, <1>2, <1>4, <2>2, DeviancesOf
    <3>2. Quiet(t) => u = t
      BY <1>2, <1>3, <2>2, <3>1 DEF Quiet
    <3>. QED BY <1>2, <3>1, <3>2 DEF SameFields
  <2>. QED BY <2>1, <2>2
<1>7. ASSUME slot = k + 1, settings.settlement, InTime(t, k)
      PROVE  /\ u.error = t.error
             /\ \A j \in m .. N : TopDown[j] \in t.present \ {Root} => k \in u.deviances[TopDown[j]]
  <2>1. /\ w.error = t.error
        /\ \A j \in m + 1 .. N : TopDown[j] \in t.present \ {Root} => k \in w.deviances[TopDown[j]]
    BY <1>1, <1>7 DEF Calculated, N
  <2>2. CASE a \notin t.present
    <3>1. u = w /\ ~ (TopDown[m] \in t.present)
      BY <1>4, <2>2 DEF a
    <3>. QED BY <1>1, <2>1, <3>1
  <2>3. CASE a \in t.present /\ a = Root /\ Children(t.present, a) = {}
    <3>1. u = CalculateEnergyDeviances(w, a) /\ Children(w.present, a) = {}
      BY <1>3, <1>4, <2>3
    <3>. DEFINE s == CurrentMarket(w, a)
    <3>2. u = w \/ u = [w EXCEPT !.deviances[a] = (w.deviances[a] \cup {s}) \ (0 .. slot - 3)]
      BY <3>1 DEF CalculateEnergyDeviances
    <3>. HIDE DEF s
    <3>3. u.error = w.error /\ \A b \in Areas \ {a} : u.deviances[b] = w.deviances[b]
      BY <1>2, <3>2 DEF Trees
    <3>4. TopDown[m] = Root /\ \A j \in m + 1 .. N : TopDown[j] \in t.present \ {Root} => TopDown[j] \in Areas \ {a}
      BY <2>3 DEF a, Trees
    <3>. QED BY <1>1, <2>1, <3>3, <3>4
  <2>4. CASE a \in t.present /\ (a # Root \/ Children(t.present, a) # {})
    <3>1. CurrentMarket(w, a) = k /\ u = CalculateEnergyDeviances(w, a) /\ Children(w.present, a) = Children(t.present, a)
      BY <1>3, <1>4, <1>7, <2>4 DEF InTime
    <3>2. \A c \in Children(t.present, a) : k \in w.deviances[c]
      <4>. SUFFICES ASSUME NEW c \in Children(t.present, a) PROVE k \in w.deviances[c]
        OBVIOUS
      <4>1. c \in t.present \ {Root} /\ Parent[c] = a /\ c \in Areas
        BY DEF Children, Trees
      <4>2. PICK j \in 1 .. N : c = TopDown[j]
        BY <4>1, AreaFacts DEF N
      <4>3. j # 1
        BY <4>1, <4>2 DEF Root
      <4>4. m < j
        BY <1>1, <4>1, <4>2, <4>3, TreeAssumption, AreaFacts DEF a, N
      <4>5. j \in m + 1 .. N
        BY <1>1, <4>4
      <4>. QED BY <2>1, <4>1, <4>2, <4>5
    <3>3. u = [w EXCEPT !.deviances[a] = (w.deviances[a] \cup {k}) \ (0 .. slot - 3)]
      <4>1. ~ (k < 0)
        BY <1>7
      <4>. QED BY <1>7, <3>1, <3>2, <4>1 DEF CalculateEnergyDeviances
    <3>4. u.error = w.error /\ u.deviances[a] = (w.deviances[a] \cup {k}) \ (0 .. slot - 3)
          /\ \A b \in Areas \ {a} : u.deviances[b] = w.deviances[b]
      BY <1>1, <1>2, <3>3 DEF Trees
    <3>5. k \in u.deviances[a]
      <4>1. k \notin 0 .. slot - 3
        BY <1>7
      <4>. QED BY <3>4, <4>1
    <3>6. ASSUME NEW j \in m .. N, TopDown[j] \in t.present \ {Root} PROVE k \in u.deviances[TopDown[j]]
      <4>1. CASE TopDown[j] = a
        BY <3>5, <4>1
      <4>2. CASE TopDown[j] # a
        <5>1. j \in m + 1 .. N /\ TopDown[j] \in Areas \ {a}
          BY <1>1, <3>6, <4>2 DEF a, Trees
        <5>. QED BY <2>1, <3>4, <3>6, <5>1
      <4>. QED BY <4>1, <4>2
    <3>. QED BY <2>1, <3>4, <3>6
  <2>. QED BY <2>2, <2>3, <2>4
<1>. QED BY <1>6, <1>7 DEF Calculated, m, N

LEMMA CalculateAllDeviancesTree ==
    ASSUME NEW t \in Trees, NEW u, u = CalculateAllDeviances(t)
    PROVE  /\ u \in Trees /\ SameFields(t, u) /\ (Quiet(t) => u = t)
           /\ \A k \in Nat : slot = k + 1 /\ settings.settlement /\ InTime(t, k) => u.error = t.error
<1>. DEFINE N == Len(TopDown)
<1>1. N \in Nat
  BY AreaFacts
<1>2. PICK g \in [0 .. N -> Trees] :
         /\ \A i \in 0 .. N : g[i] = IF i = 0 THEN t ELSE Deviance(t, g[i - 1], i)
         /\ u = g[N]
  BY DeviancesLoop
<1>3. ASSUME NEW k \in Nat PROVE Calculated(t, u, N, k)
  <2>. DEFINE T == {i \in 0 .. N : Calculated(t, g[i], i, k)}
  <2>1. 0 \in T
    <3>1. 0 \in 0 .. N /\ g[0] = t
      BY <1>1, <1>2
    <3>2. N + 1 - 0 .. N = {}
      BY <1>1
    <3>3. Calculated(t, t, 0, k)
      BY <3>2 DEF Calculated, SameFields
    <3>. QED BY <3>1, <3>3
  <2>2. ASSUME NEW i \in 1 .. N, i - 1 \in T PROVE i \in T
    <3>1. i \in 0 .. N /\ i # 0 /\ Calculated(t, g[i - 1], i - 1, k)
      BY <1>1, <2>2
    <3>2. g[i] = Deviance(t, g[i - 1], i)
      BY <1>2, <3>1
    <3>3. Calculated(t, g[i], i, k)
      BY <3>1, <3>2, DevianceStep
    <3>. QED BY <3>1, <3>3
  <2>. HIDE DEF T
  <2>3. \A i \in 0 .. N : i \in T
    BY <1>1, <2>1, <2>2, CountUp
  <2>4. N \in T
    BY <1>1, <2>3
  <2>. QED BY <1>2, <2>4 DEF T
<1>4. Calculated(t, u, N, 0)
  BY <1>3
<1>. QED BY <1>3, <1>4 DEF Calculated
-----------------------------------------------------------------------------
(* The market cycle.                                                       *)

LEMMA AllSettledWalks ==
    ASSUME NEW t, NEW k \in Nat, NEW n \in Nat, AllSettled(t, k),
           n = k + 1 \/ (n = 0 /\ k = 0 /\ t.emptied = {})
    PROVE  Walk(t, {}, k, n)
<1>1. IsTree(t, k) /\ t.present \subseteq Areas /\ \A a \in t.present : Settled(t, a, k)
  BY DEF AllSettled, Walk, IsTree, Trees
<1>2. IsTree(t, n)
  <2>1. 0 .. k \subseteq 0 .. n
    OBVIOUS
  <2>. QED BY <1>1, <2>1 DEF IsTree
<1>3. ASSUME NEW a \in t.present PROVE Waiting(t, a, k, n)
  <2>1. Settled(t, a, k)
    BY <1>1
  <2>2. IF a \in t.emptied THEN Stale(t, a, k) /\ n = k + 1
        ELSE Idle(t, a) \/ (Children(t.present, a) # {} /\ InStep(t, a, k) /\ (n = k + 1 \/ (n = 0 /\ k = 0)))
    BY <2>1 DEF Settled
  <2>3. a # Root /\ n = k => IsLinked(t, a, n)
    BY <2>1 DEF Settled
  <2>4. a # Root => \A x \in Types : \A s \in t.agents[a][x] :
                       KeepsMarket(t, a, x, s) /\ KeepsMarket(t, Parent[a], x, s)
    BY <2>1 DEF Settled
  <2>. QED BY <2>2, <2>3, <2>4 DEF Waiting
<1>. QED BY <1>2, <1>3 DEF Walk

LEMMA WalkedSettles ==
    ASSUME NEW t, NEW k, NEW n, Walk(t, Areas, k, n)
    PROVE  AllSettled(t, n)
BY DEF AllSettled, Walk, IsTree, Trees

LEMMA NothingPast ==
    ASSUME NEW t \in Trees, NEW a \in Areas, t.past[a]["spot"] = {},
           a # Root => t.past[Parent[a]]["spot"] = {}
    PROVE  CurrentMarket(t, a) = -1
<1>1. Newest({}) = -1
  BY NewestOf
<1>. QED BY <1>1 DEF CurrentMarket

LEMMA FirstSlotQuiet ==
    ASSUME NEW t, AllSettled(t, 0), t.emptied = {}
    PROVE  Quiet(t)
<1>1. t \in Trees /\ t.present \subseteq Areas /\ \A a \in t.present \ {Root} : Parent[a] \in t.present
  BY DEF AllSettled, Walk, IsTree, Trees
<1>2. ASSUME NEW a \in t.present PROVE t.past[a]["spot"] = {}
  <2>1. Settled(t, a, 0) /\ a \in Areas
    BY <1>1 DEF AllSettled, Walk
  <2>2. t.past[a]["spot"] \in SUBSET Slots
    BY <1>1, <2>1, RowTypes DEF Types
  <2>3. CASE Idle(t, a)
    BY <2>3 DEF Idle, NoMarkets, Types
  <2>4. CASE InStep(t, a, 0)
    BY <2>2, <2>4, SlotFacts DEF InStep
  <2>. QED BY <2>1, <2>3, <2>4 DEF Settled
<1>3. ASSUME NEW a \in t.present PROVE CurrentMarket(t, a) < 0
  BY <1>1, <1>2, NothingPast
<1>. QED BY <1>3 DEF Quiet

LEMMA LaterSlotInTime ==
    ASSUME NEW t, NEW k \in Nat, AllSettled(t, k + 1), t.emptied = {}, Aged(t, Areas, k)
    PROVE  InTime(t, k)
<1>1. t \in Trees /\ t.present \subseteq Areas /\ \A a \in t.present \ {Root} : Parent[a] \in t.present
  BY DEF AllSettled, Walk, IsTree, Trees
<1>2. ASSUME NEW a \in t.present, Children(t.present, a) # {}
      PROVE  t.past[a]["spot"] # {} /\ Newest(t.past[a]["spot"]) = k
  <2>1. Settled(t, a, k + 1) /\ a \in Areas
    BY <1>1 DEF AllSettled, Walk
  <2>2. InStep(t, a, k + 1)
    BY <1>2, <2>1 DEF Settled
  <2>3. k \in t.past[a]["spot"]
    BY <1>2, <2>1 DEF Aged
  <2>. DEFINE P == t.past[a]["spot"]
  <2>4. P \in SUBSET Slots /\ \A s \in P : s \in Nat /\ s < k + 1
    BY <1>1, <2>1, <2>2, RowTypes, SlotFacts DEF InStep, Types
  <2>. HIDE DEF P
  <2>5. Newest(P) \in P /\ k <= Newest(P)
    BY <2>3, <2>4, NewestOf DEF P
  <2>6. Newest(P) = k
    BY <2>4, <2>5
  <2>. QED BY <2>3, <2>6 DEF P
<1>3. ASSUME NEW a \in t.present, a # Root, Children(t.present, a) = {}
      PROVE  CurrentMarket(t, a) = k
  <2>1. Settled(t, a, k + 1)
    BY <1>1 DEF AllSettled, Walk
  <2>2. t.past[a]["spot"] = {}
    BY <1>3, <2>1 DEF Settled, Idle, NoMarkets, Types
  <2>3. Parent[a] \in t.present /\ a \in Children(t.present, Parent[a])
    BY <1>1, <1>3 DEF Children
  <2>4. Newest(t.past[Parent[a]]["spot"]) = k
    BY <1>2, <2>3
  <2>. QED BY <1>3, <2>2, <2>4 DEF CurrentMarket
<1>. QED BY <1>2, <1>3 DEF InTime, CurrentMarket

LEMMA CycleMarketsTree ==
    ASSUME slot \in Slots, NEW k \in Nat, NEW t, AllSettled(t, k), t.error = FALSE,
           slot = k + 1 \/ (slot = 0 /\ k = 0 /\ t.emptied = {}), NEW u, u = CycleMarkets(t)
    PROVE  /\ AllSettled(u, slot) /\ u.emptied \subseteq t.emptied
           /\ t.emptied = {} \/ ~ settings.settlement => u.error = FALSE
<1>. DEFINE v == CycleBelow(t)
<1>0. slot \in Nat
  BY SlotFacts
<1>1. Walk(t, {}, k, slot)
  BY <1>0, AllSettledWalks
<1>2. CycledTo(t, v, Areas, k)
  BY <1>1, CycleBelowReachesAll
<1>. HIDE DEF v
<1>3. v \in Trees /\ AllSettled(v, slot) /\ v.emptied \subseteq t.emptied /\ v.error = FALSE
  BY <1>2, WalkedSettles DEF CycledTo
<1>4. u = CalculateAllDeviances(v)
  BY DEF CycleMarkets, v
<1>5. /\ u \in Trees /\ SameFields(v, u) /\ (Quiet(v) => u = v)
      /\ slot = k + 1 /\ settings.settlement /\ InTime(v, k) => u.error = v.error
  BY <1>3, <1>4, CalculateAllDeviancesTree
<1>6. AllSettled(u, slot)
  BY <1>3, <1>5, WalkSame DEF AllSettled
<1>7. CASE ~ settings.settlement
  BY <1>3, <1>5, <1>6, <1>7 DEF Quiet, SameFields
<1>8. CASE settings.settlement /\ t.emptied = {} /\ slot = 0
  <2>1. Quiet(v)
    BY <1>3, <1>8, FirstSlotQuiet
  <2>. QED BY <1>3, <1>5, <1>6, <2>1 DEF SameFields
<1>9. CASE settings.settlement /\ t.emptied = {} /\ slot = k + 1
  <2>1. Aged(t, {}, k)
    <3>1. \A a \in t.present : Settled(t, a, k)
      BY DEF AllSettled, Walk, IsTree, Trees
    <3>. QED BY <1>9, <3>1 DEF Aged, Settled
  <2>2. Aged(v, Areas, k)
    BY <1>2, <1>9, <2>1 DEF CycledTo
  <2>3. InTime(v, k)
    BY <1>3, <1>9, <2>2, LaterSlotInTime
  <2>. QED BY <1>3, <1>5, <1>6, <1>9, <2>3 DEF SameFields
<1>10. u.emptied \subseteq t.emptied
  BY <1>3, <1>5 DEF SameFields
<1>. QED BY <1>6, <1>7, <1>8, <1>9, <1>10
-----------------------------------------------------------------------------
(* Activation, from the top.                                               *)

LEMMA ActivateAreaFields ==
    ASSUME NEW t \in Trees, NEW a \in Areas, slot \in Slots, NEW v, v = CycleOwnMarkets(t, a),
           NEW u, u = ActivateArea(t, a)
    PROVE  /\ v \in Trees /\ u \in Trees /\ SameFields(v, u) /\ OnlyRow(t, v, a)
           /\ CurrentMarket(v, a) < 0 => u = v
<1>1. v \in Trees /\ OnlyRow(t, v, a)
  BY CycledOnlyRow DEF OnlyRow
<1>2. u = CalculateEnergyDeviances(v, a)
  BY DEF ActivateArea
<1>. QED BY <1>1, <1>2, DeviancesOf

LEMMA ActivateOneType ==
    ASSUME NEW t \in Trees, NEW areas, NEW a \in Areas, slot \in Slots
    PROVE  ActivateOneOf(t, areas, a) \in Trees
BY ActivateAreaFields DEF ActivateOneOf

LEMMA ActivateLoop ==
    ASSUME NEW t \in Trees, NEW areas, slot \in Slots
    PROVE  \E g \in [0 .. Len(TopDown) -> Trees] :
              /\ \A i \in 0 .. Len(TopDown) :
                    g[i] = IF i = 0 THEN t ELSE ActivateOneOf(g[i - 1], areas, TopDown[i])
              /\ Activate(t, areas) = g[Len(TopDown)]
<1>. DEFINE N == Len(TopDown)
            step == [p \in (1 .. N) \X Trees |-> ActivateOneOf(p[2], areas, TopDown[p[1]])]
            IsLoop(g) == g = [i \in 0 .. N |-> IF i = 0 THEN t ELSE ActivateOneOf(g[i - 1], areas, TopDown[i])]
            loop == CHOOSE g : IsLoop(g)
<1>1. N \in Nat /\ \A i \in 1 .. N : TopDown[i] \in Areas
  BY AreaFacts
<1>3. step \in [(1 .. N) \X Trees -> Trees]
  BY <1>1, ActivateOneType
<1>4. \A i \in 1 .. N, u \in Trees : step[<<i, u>>] = ActivateOneOf(u, areas, TopDown[i])
  OBVIOUS
<1>5. Activate(t, areas) = loop[N]
  BY DEF Activate
<1>. HIDE DEF step, N
<1>6. PICK g \in [0 .. N -> Trees] : Steps(g, t, step, N)
  BY <1>1, <1>3, WalkExists
<1>7. \A i \in 0 .. N : g[i] = IF i = 0 THEN t ELSE ActivateOneOf(g[i - 1], areas, TopDown[i])
  <2>. TAKE i \in 0 .. N
  <2>1. CASE i = 0
    BY <1>6, <2>1 DEF Steps
  <2>2. CASE i # 0
    <3>1. i \in 1 .. N /\ g[i - 1] \in Trees
      BY <1>1, <1>6, <2>2
    <3>. QED BY <1>4, <1>6, <2>2, <3>1 DEF Steps
  <2>. QED BY <2>1, <2>2
<1>8. IsLoop(g)
  BY <1>7
<1>9. IsLoop(loop)
  BY <1>8
<1>. HIDE DEF loop
<1>10. \A i \in 0 .. N : loop[i] = IF i = 0 THEN t ELSE ActivateOneOf(loop[i - 1], areas, TopDown[i])
  BY <1>9
<1>. HIDE DEF IsLoop
<1>11. \A i \in 0 .. N : loop[i] \in Trees
  <2>. DEFINE T == {i \in 0 .. N : loop[i] \in Trees}
  <2>1. 0 \in T
    BY <1>1, <1>10
  <2>2. ASSUME NEW i \in 1 .. N, i - 1 \in T PROVE i \in T
    <3>1. i \in 0 .. N /\ i # 0 /\ loop[i - 1] \in Trees /\ TopDown[i] \in Areas
      BY <1>1, <2>2
    <3>2. loop[i] = ActivateOneOf(loop[i - 1], areas, TopDown[i])
      BY <1>10, <3>1
    <3>. QED BY <3>1, <3>2, ActivateOneType
  <2>. HIDE DEF T
  <2>3. \A i \in 0 .. N : i \in T
    BY <1>1, <2>1, <2>2, CountUp
  <2>. QED BY <2>3 DEF T
<1>12. loop \in [0 .. N -> Trees]
  <2>1. loop = [i \in 0 .. N |-> loop[i]]
    BY <1>9 DEF IsLoop
  <2>. QED BY <1>11, <2>1
<1>. QED BY <1>5, <1>10, <1>12 DEF N

(* The areas to be activated have no markets yet; the areas above them,    *)
(* base, had the market cycle.                                             *)
Pastless(t, areas) ==
    \A b \in areas : t.past[b]["spot"] = {} /\ (b # Root => t.past[Parent[b]]["spot"] = {})
Below(present, base, areas) ==
    /\ areas \subseteq present /\ base \cap areas = {}
    /\ \A b \in areas : b = Root \/ Parent[b] \in base \cup areas
    /\ \A b \in areas : \A c \in Children(present, b) : c \notin base
Activating(t, w, base, areas, i) ==
    /\ w \in Trees /\ w.present = t.present /\ w.emptied \subseteq t.emptied
    /\ w.error \/ Walk(w, base \cup (areas \cap Done(i)), slot, slot)
    /\ \A b \in areas \ Done(i) : Idle(w, b)
    /\ Pastless(t, areas) => w.error = t.error /\ Pastless(w, areas)

LEMMA ActivateAreaKeepsPastless ==
    ASSUME NEW t \in Trees, NEW a \in Areas, slot \in Slots, NEW areas, a \in areas, areas \subseteq Areas,
           Idle(t, a), Pastless(t, areas), NEW u, u = ActivateArea(t, a)
    PROVE  Pastless(u, areas) /\ u.error = t.error
<1>. DEFINE v == CycleOwnMarkets(t, a)
<1>1. v \in Trees /\ OnlyRow(t, v, a) /\ (CurrentMarket(v, a) < 0 => u = v)
  BY ActivateAreaFields
<1>2. v.past[a]["spot"] = {}
  <2>1. CASE Children(t.present, a) = {}
    <3>1. UpdatedOnly(t, v, a)
      BY <2>1, CycleOwnMarketsRow
    <3>. QED BY <3>1 DEF UpdatedOnly, Idle, NoMarkets, Types
  <2>2. CASE Children(t.present, a) # {}
    <3>1. Cycled(t, v, a)
      BY <2>2, CycleOwnMarketsRow
    <3>. QED BY <3>1, FirstCycleInStep DEF Types
  <2>. QED BY <2>1, <2>2
<1>. HIDE DEF v
<1>3. \A b \in Areas : t.past[b]["spot"] = {} => v.past[b]["spot"] = {}
  BY <1>1, <1>2 DEF OnlyRow, SameRow
<1>4. Pastless(v, areas)
  BY <1>3, AreaFacts DEF Pastless
<1>5. CurrentMarket(v, a) = -1
  BY <1>1, <1>4, NothingPast DEF Pastless
<1>. QED BY <1>1, <1>4, <1>5 DEF OnlyRow, SameTree

LEMMA ActivateStep ==
    ASSUME slot \in Slots, NEW t, NEW base, NEW areas, areas \subseteq Areas, Below(t.present, base, areas),
           NEW i \in 1 .. Len(TopDown), NEW w, Activating(t, w, base, areas, i - 1),
           NEW u, u = ActivateOneOf(w, areas, TopDown[i])
    PROVE  Activating(t, u, base, areas, i)
<1>. DEFINE a == TopDown[i]
            D == base \cup (areas \cap Done(i - 1))
            v == CycleOwnMarkets(w, a)
<1>1. /\ a \in Areas /\ a \notin Done(i - 1) /\ Done(i) = Done(i - 1) \cup {a}
      /\ a # Root => Parent[a] \in Done(i - 1)
      /\ \A c \in Areas \ {Root} : Parent[c] = a => c \notin Done(i)
  BY TopDownOrder
<1>2. /\ w \in Trees /\ w.present = t.present /\ w.emptied \subseteq t.emptied
      /\ w.error \/ Walk(w, D, slot, slot)
      /\ \A b \in areas \ Done(i - 1) : Idle(w, b)
      /\ Pastless(t, areas) => w.error = t.error /\ Pastless(w, areas)
  BY DEF Activating
<1>3. CASE a \notin areas
  <2>1. u = w /\ areas \cap Done(i) = areas \cap Done(i - 1)
    BY <1>1, <1>3 DEF ActivateOneOf
  <2>. QED BY <1>1, <1>2, <2>1 DEF Activating
<1>4. CASE w.error
  <2>1. u = w /\ Done(i - 1) \subseteq Done(i)
    BY <1>1, <1>4 DEF ActivateOneOf
  <2>. QED BY <1>2, <1>4, <2>1 DEF Activating
<1>5. CASE a \in areas /\ ~ w.error
  <2>1. u = ActivateArea(w, a)
    BY <1>5 DEF ActivateOneOf
  <2>2. Idle(w, a)
    BY <1>1, <1>2, <1>5
  <2>3. /\ a \in w.present \ D /\ (a = Root \/ Parent[a] \in D)
        /\ \A c \in Children(w.present, a) : c \notin D
        /\ D \cup {a} = base \cup (areas \cap Done(i))
    <3>1. a \in w.present \ D
      BY <1>1, <1>2, <1>5 DEF Below
    <3>2. a = Root \/ Parent[a] \in D
      BY <1>1, <1>5 DEF Below
    <3>3. \A c \in Children(w.present, a) : c \notin base
      BY <1>2, <1>5 DEF Below
    <3>4. \A c \in Children(w.present, a) : c \notin Done(i - 1)
      BY <1>1, <1>2 DEF Children, Trees
    <3>5. D \cup {a} = base \cup (areas \cap Done(i))
      BY <1>1, <1>5
    <3>. QED BY <3>1, <3>2, <3>3, <3>4, <3>5
  <2>4. Walk(v, D \cup {a}, slot, slot)
    <3>1. slot \in Nat
      BY SlotFacts
    <3>. HIDE DEF D, a
    <3>. QED BY <1>2, <1>5, <2>3, <3>1, WalkStep
  <2>5. v \in Trees /\ u \in Trees /\ SameFields(v, u) /\ OnlyRow(w, v, a)
    BY <1>1, <1>2, <2>1, ActivateAreaFields
  <2>6. (Children(w.present, a) = {} => v.emptied = w.emptied) /\ (Children(w.present, a) # {} => a \notin v.emptied)
    BY <1>1, <1>2, CycledOnlyRow
  <2>. HIDE DEF v, D, a
  <2>7. v.emptied \subseteq w.emptied /\ v.present = w.present
    BY <2>5, <2>6 DEF OnlyRow, SameRow, SameTree, Trees
  <2>8. Walk(u, base \cup (areas \cap Done(i)), slot, slot)
    BY <2>3, <2>4, <2>5, WalkSame
  <2>9. \A b \in areas \ Done(i) : Idle(u, b)
    <3>. SUFFICES ASSUME NEW b \in areas \ Done(i) PROVE Idle(u, b)
      OBVIOUS
    <3>1. b \in Areas \ {a} /\ Idle(w, b)
      BY <1>1, <1>2
    <3>2. SameRow(w, v, b)
      BY <2>5, <3>1 DEF OnlyRow
    <3>. QED BY <2>5, <3>1, <3>2 DEF SameRow, SameFields, Idle
  <2>10. Pastless(t, areas) => u.error = t.error /\ Pastless(u, areas)
    BY <1>1, <1>2, <1>5, <2>1, <2>2, ActivateAreaKeepsPastless
  <2>11. u.present = t.present /\ u.emptied \subseteq t.emptied
    BY <1>2, <2>5, <2>7 DEF SameFields
  <2>. QED BY <2>5, <2>8, <2>9, <2>10, <2>11 DEF Activating
<1>. QED BY <1>3, <1>4, <1>5

LEMMA ActivateTree ==
    ASSUME slot \in Slots, NEW t \in Trees, NEW base, NEW areas, areas \subseteq Areas,
           Below(t.present, base, areas), t.present \subseteq base \cup areas,
           Walk(t, base, slot, slot), \A b \in areas : Idle(t, b), t.error = FALSE,
           NEW u, u = Activate(t, areas)
    PROVE  /\ u \in Trees /\ u.emptied \subseteq t.emptied
           /\ u.error = FALSE => AllSettled(u, slot)
           /\ Pastless(t, areas) => u.error = FALSE
<1>. DEFINE N == Len(TopDown)
<1>1. N \in Nat
  BY AreaFacts
<1>2. PICK g \in [0 .. N -> Trees] :
         /\ \A i \in 0 .. N : g[i] = IF i = 0 THEN t ELSE ActivateOneOf(g[i - 1], areas, TopDown[i])
         /\ u = g[N]
  BY ActivateLoop
<1>. DEFINE T == {i \in 0 .. N : Activating(t, g[i], base, areas, i)}
<1>3. 0 \in T
  <2>1. 0 \in 0 .. N /\ g[0] = t
    BY <1>1, <1>2
  <2>2. Done(0) = {} /\ base \cup (areas \cap Done(0)) = base
    BY TopDownOrder
  <2>3. Activating(t, t, base, areas, 0)
    BY <2>2 DEF Activating
  <2>. QED BY <2>1, <2>3
<1>4. ASSUME NEW i \in 1 .. N, i - 1 \in T PROVE i \in T
  <2>1. i \in 0 .. N /\ i # 0 /\ Activating(t, g[i - 1], base, areas, i - 1)
    BY <1>1, <1>4
  <2>2. g[i] = ActivateOneOf(g[i - 1], areas, TopDown[i])
    BY <1>2, <2>1
  <2>3. Activating(t, g[i], base, areas, i)
    BY <2>1, <2>2, ActivateStep
  <2>. QED BY <2>1, <2>3
<1>. HIDE DEF T
<1>5. \A i \in 0 .. N : i \in T
  BY <1>1, <1>3, <1>4, CountUp
<1>6. N \in T
  BY <1>1, <1>5
<1>7. Activating(t, u, base, areas, N) /\ areas \cap Done(N) = areas
  BY <1>2, <1>6, TopDownOrder DEF T
<1>8. ASSUME u.error = FALSE PROVE AllSettled(u, slot)
  <2>1. Walk(u, base \cup areas, slot, slot) /\ u.present = t.present /\ u \in Trees
    BY <1>7, <1>8 DEF Activating
  <2>2. u.present \cap (base \cup areas) = u.present \cap Areas /\ SameFields(u, u)
    BY <2>1 DEF SameFields, Trees
  <2>. QED BY <2>1, <2>2, WalkSame DEF AllSettled
<1>. QED BY <1>7, <1>8 DEF Activating
-----------------------------------------------------------------------------
(* What is below an area.                                                  *)

LEMMA SubtreeFacts ==
    ASSUME NEW a \in Areas
    PROVE  /\ Subtree(a) \subseteq Areas /\ a \in Subtree(a) /\ Closed(Subtree(a))
           /\ \A areas \in SUBSET Areas : a \in areas /\ Closed(areas) => Subtree(a) \subseteq areas
BY DEF Subtree, Closed

LEMMA SubtreeTop ==
    ASSUME NEW a \in Areas \ {Root}
    PROVE  Root \notin Subtree(a) /\ Parent[a] \notin Subtree(a)
<1>1. Root \notin Subtree(a)
  <2>1. Areas \ {Root} \in SUBSET Areas /\ a \in Areas \ {Root} /\ Closed(Areas \ {Root})
    BY DEF Closed
  <2>2. Subtree(a) \subseteq Areas \ {Root}
    BY <2>1, SubtreeFacts
  <2>. QED BY <2>2
<1>2. Parent[a] \notin Subtree(a)
  <2>. DEFINE N == Len(TopDown)
  <2>1. /\ N \in Nat /\ \A i, j \in 1 .. N : TopDown[i] = TopDown[j] => i = j
        /\ \A i, j \in 1 .. N : i # 1 /\ Parent[TopDown[i]] = TopDown[j] => j < i
        /\ Areas = {TopDown[i] : i \in 1 .. N} /\ Parent[a] \in Areas
    BY AreaFacts, TreeAssumption
  <2>2. PICK m \in 1 .. N : a = TopDown[m]
    BY <2>1
  <2>. HIDE DEF N
  <2>. DEFINE later == {TopDown[j] : j \in m .. N}
  <2>3. later \in SUBSET Areas /\ a \in later
    BY <2>1, <2>2
  <2>4. ASSUME NEW c \in Areas \ {Root}, Parent[c] \in later PROVE c \in later
    <3>1. PICK i \in 1 .. N : c = TopDown[i]
      BY <2>1
    <3>2. PICK j \in m .. N : Parent[c] = TopDown[j]
      BY <2>4
    <3>3. i # 1 /\ j \in 1 .. N
      BY <2>1, <3>1, <3>2 DEF Root
    <3>4. j < i
      BY <2>1, <3>1, <3>2, <3>3
    <3>5. i \in m .. N
      BY <2>1, <3>2, <3>4
    <3>. QED BY <3>1, <3>5
  <2>5. Subtree(a) \subseteq later
    <3>1. Closed(later)
      BY <2>4 DEF Closed
    <3>. HIDE DEF later
    <3>. QED BY <2>3, <3>1, SubtreeFacts
  <2>6. Parent[a] \notin later
    <3>. SUFFICES ASSUME NEW j \in m .. N, Parent[a] = TopDown[j] PROVE FALSE
      OBVIOUS
    <3>1. m # 1 /\ j \in 1 .. N
      BY <2>1, <2>2 DEF Root
    <3>2. j < m
      BY <2>1, <2>2, <3>1
    <3>. QED BY <2>1, <3>2
  <2>. HIDE DEF later
  <2>. QED BY <2>5, <2>6
<1>. QED BY <1>1, <1>2

LEMMA SubtreeParents ==
    ASSUME NEW a \in Areas \ {Root}, NEW c \in Subtree(a), c # a
    PROVE  c # Root /\ Parent[c] \in Subtree(a)
<1>1. c # Root /\ c \in Areas
  BY SubtreeTop, SubtreeFacts
<1>. SUFFICES ASSUME Parent[c] \notin Subtree(a) PROVE FALSE
  BY <1>1
<1>. DEFINE rest == Subtree(a) \ {c}
<1>2. rest \in SUBSET Areas /\ a \in rest
  BY SubtreeFacts
<1>3. Closed(rest)
  BY SubtreeFacts DEF Closed
<1>4. Subtree(a) \subseteq rest
  <2>. HIDE DEF rest
  <2>. QED BY <1>2, <1>3, SubtreeFacts
<1>. QED BY <1>4

(* What is below an absent area is absent.                                 *)
LEMMA SubtreeAbsent ==
    ASSUME NEW a \in Areas \ {Root}, NEW present \in SUBSET Areas, a \notin present,
           \A b \in present \ {Root} : Parent[b] \in present
    PROVE  Subtree(a) \cap present = {}
<1>. DEFINE rest == Subtree(a) \ present
<1>1. rest \in SUBSET Areas /\ a \in rest
  BY SubtreeFacts
<1>2. Closed(rest)
  <2>. SUFFICES ASSUME NEW c \in Areas \ {Root}, Parent[c] \in rest PROVE c \in rest
    BY DEF Closed
  <2>1. c \in Subtree(a)
    BY SubtreeFacts DEF Closed
  <2>. QED BY <2>1
<1>3. Subtree(a) \subseteq rest
  <2>. HIDE DEF rest
  <2>. QED BY <1>1, <1>2, SubtreeFacts
<1>. QED BY <1>3
-----------------------------------------------------------------------------
(* An area is deleted.                                                     *)

LEMMA DeleteAreaTree ==
    ASSUME NEW n \in Nat, NEW t, AllSettled(t, n), NEW a \in Areas, NEW u, u = DeleteArea(t, a)
    PROVE  /\ AllSettled(u, n) /\ u.error = t.error
<1>. DEFINE rest == t.present \ Subtree(a)
            p == Parent[a]
<1>1. IsTree(t, n) /\ t \in Trees /\ t.present \subseteq Areas /\ \A b \in t.present : Settled(t, b, n)
  BY DEF AllSettled, Walk, IsTree, Trees
<1>2. CASE a \notin t.present \ {Root}
  BY <1>2 DEF DeleteArea
<1>3. CASE a \in t.present \ {Root}
  <2>1. /\ Root \in rest /\ p \in rest /\ p # a /\ p \in Areas /\ \A b \in rest \ {Root} : Parent[b] \in rest
    <3>1. Root \in rest /\ p \in rest /\ p # a /\ p \in Areas
      BY <1>1, <1>3, SubtreeTop, AreaFacts DEF IsTree
    <3>2. ASSUME NEW b \in rest \ {Root} PROVE Parent[b] \in rest
      <4>1. b \in Areas \ {Root} /\ b \notin Subtree(a) /\ Parent[b] \in t.present
        BY <1>1, <3>2 DEF IsTree
      <4>2. Parent[b] \notin Subtree(a)
        BY <1>3, <4>1, SubtreeFacts DEF Closed
      <4>. QED BY <4>1, <4>2
    <3>. QED BY <3>1, <3>2
  <2>2. ASSUME NEW b \in rest, b # p PROVE Children(rest, b) = Children(t.present, b)
    <3>. SUFFICES ASSUME NEW c \in Children(t.present, b) PROVE c \notin Subtree(a)
      BY DEF Children
    <3>1. c # a /\ Parent[c] = b /\ b \notin Subtree(a)
      BY <2>2 DEF Children
    <3>. QED BY <1>1, <1>3, <3>1, SubtreeParents
  <2>3. Children(t.present, p) # {} /\ Children(rest, p) \subseteq Children(t.present, p)
    BY <1>3 DEF Children
  <2>4. CASE Children(rest, p) # {}
    <3>1. u = [t EXCEPT !.present = rest]
      BY <1>3, <2>4 DEF DeleteArea
    <3>2. u \in Trees
      BY <1>1, <3>1 DEF Trees
    <3>3. /\ u.present = rest /\ u.emptied = t.emptied /\ u.markets = t.markets /\ u.past = t.past
          /\ u.ids = t.ids /\ u.agents = t.agents /\ u.future = t.future /\ u.connected = t.connected
          /\ u.error = t.error
      BY <1>1, <3>1 DEF Trees
    <3>. HIDE DEF rest
    <3>4. ASSUME NEW b \in rest PROVE Settled(u, b, n)
      <4>1. Settled(t, b, n) /\ (Children(rest, b) = {} <=> Children(t.present, b) = {})
        BY <1>1, <2>2, <2>3, <2>4 DEF rest
      <4>2. /\ Idle(t, b) => Idle(u, b)
            /\ \A j : InStep(t, b, j) => InStep(u, b, j)
            /\ IsLinked(t, b, n) => IsLinked(u, b, n)
            /\ \A c, x, s : KeepsMarket(t, c, x, s) => KeepsMarket(u, c, x, s)
        BY <3>3, <4>1 DEF Idle, InStep, IsLinked, KeepsMarket
      <4>3. Stale(t, b, n) => Stale(u, b, n)
        BY <3>3, <4>2 DEF Stale
      <4>. QED BY <3>3, <4>1, <4>2, <4>3 DEF Settled
    <3>5. IsTree(u, n)
      BY <1>1, <2>1, <3>2, <3>3 DEF IsTree
    <3>6. u.present \subseteq Areas
      BY <1>1, <3>3 DEF rest
    <3>. QED BY <3>3, <3>4, <3>5, <3>6 DEF AllSettled, Walk
  <2>5. CASE Children(rest, p) = {}
    <3>1. u = [t EXCEPT !.present = rest, !.agents[p] = NoMarkets, !.emptied = t.emptied \cup {p}]
      BY <1>3, <2>5 DEF DeleteArea
    <3>2. u \in Trees
      <4>1. [t.agents EXCEPT ![p] = NoMarkets] \in [Areas -> MarketSlots]
        BY <1>1 DEF Trees, NoMarkets, MarketSlots
      <4>2. rest \in SUBSET Areas /\ t.emptied \cup {p} \in SUBSET Areas
        BY <1>1, <2>1 DEF Trees
      <4>. HIDE DEF rest, p
      <4>3. [t EXCEPT !.present = rest, !.agents = [t.agents EXCEPT ![p] = NoMarkets],
                      !.emptied = t.emptied \cup {p}] \in Trees
        BY <1>1, <4>1, <4>2 DEF Trees
      <4>. QED BY <3>1, <4>3
    <3>3. /\ u.present = rest /\ u.emptied = t.emptied \cup {p} /\ u.markets = t.markets /\ u.past = t.past
          /\ u.ids = t.ids /\ u.agents = [t.agents EXCEPT ![p] = NoMarkets]
          /\ u.future = t.future /\ u.connected = t.connected /\ u.error = t.error
      BY <1>1, <3>1 DEF Trees
    <3>. HIDE DEF rest
    <3>4. u.agents[p] = NoMarkets /\ \A b \in Areas \ {p} : u.agents[b] = t.agents[b]
      BY <1>1, <2>1, <3>3 DEF Trees
    <3>. HIDE DEF p
    <3>5. ASSUME NEW b \in rest, b # p PROVE Settled(u, b, n)
      <4>1. Settled(t, b, n) /\ Children(rest, b) = Children(t.present, b) /\ u.agents[b] = t.agents[b]
            /\ (b \in u.emptied <=> b \in t.emptied) /\ (Parent[b] \in t.emptied => Parent[b] \in u.emptied)
        BY <1>1, <2>2, <3>3, <3>4, <3>5 DEF rest, p
      <4>2. /\ Idle(t, b) => Idle(u, b)
            /\ \A j : InStep(t, b, j) => InStep(u, b, j)
            /\ IsLinked(t, b, n) => IsLinked(u, b, n)
            /\ \A c, x, s : KeepsMarket(t, c, x, s) => KeepsMarket(u, c, x, s)
        BY <3>3, <4>1 DEF Idle, InStep, IsLinked, KeepsMarket
      <4>3. Stale(t, b, n) => Stale(u, b, n)
        BY <4>1, <4>2 DEF Stale
      <4>. QED BY <3>3, <4>1, <4>2, <4>3 DEF Settled
    <3>6. Settled(u, p, n)
      <4>1. Settled(t, p, n)
        BY <1>1, <2>1 DEF rest
      <4>2. PICK j \in 0 .. n : InStep(t, p, j)
        <5>1. n \in 0 .. n
          OBVIOUS
        <5>. QED BY <2>3, <4>1, <5>1 DEF Settled, Stale
      <4>3. InStep(u, p, j)
        BY <3>3, <4>2 DEF InStep
      <4>4. Stale(u, p, n) /\ p \in u.emptied /\ u.connected[p] = IsConnected(p, n)
        BY <3>3, <3>4, <4>1, <4>3 DEF Stale, Settled
      <4>5. \A x \in Types : u.agents[p][x] = {}
        BY <3>4 DEF NoMarkets
      <4>. QED BY <4>4, <4>5 DEF Settled
    <3>7. IsTree(u, n)
      <4>1. ASSUME NEW b \in Areas, NEW x \in Types
            PROVE  u.markets[b][x] \cup u.past[b][x] \cup u.agents[b][x] \cup u.ids[b][x] \subseteq 0 .. n
        <5>1. u.agents[b][x] \subseteq 0 .. n
          BY <1>1, <3>4 DEF IsTree, NoMarkets
        <5>. QED BY <1>1, <3>3, <5>1 DEF IsTree
      <4>. QED BY <2>1, <3>2, <3>3, <4>1 DEF IsTree
    <3>8. u.present \subseteq Areas
      BY <1>1, <3>3 DEF rest
    <3>. QED BY <3>3, <3>5, <3>6, <3>7, <3>8 DEF AllSettled, Walk
  <2>. QED BY <2>4, <2>5
<1>. QED BY <1>2, <1>3
-----------------------------------------------------------------------------
(* An area is created.                                                     *)

Fresh(t, a) ==
    [t EXCEPT !.present = @ \cup Subtree(a), !.emptied = @ \ Subtree(a),
              !.markets = [c \in Areas |-> IF c \in Subtree(a) THEN NoMarkets ELSE @[c]],
              !.past = [c \in Areas |-> IF c \in Subtree(a) THEN NoMarkets ELSE @[c]],
              !.ids = [c \in Areas |-> IF c \in Subtree(a) THEN NoMarkets ELSE @[c]],
              !.agents = [c \in Areas |-> IF c \in Subtree(a) THEN NoMarkets ELSE @[c]],
              !.future = [c \in Areas |-> IF c \in Subtree(a) THEN {} ELSE @[c]],
              !.deviances = [c \in Areas |-> IF c \in Subtree(a) THEN {} ELSE @[c]]]

LEMMA FreshFields ==
    ASSUME NEW t \in Trees, NEW a \in Areas, NEW u, u = Fresh(t, a)
    PROVE  /\ u \in Trees /\ u.present = t.present \cup Subtree(a) /\ u.error = t.error
           /\ \A b \in Areas \ Subtree(a) : SameRow(t, u, b)
           /\ \A b \in Subtree(a) : Idle(u, b) /\ b \notin u.emptied /\ u.ids[b] = NoMarkets
<1>. DEFINE S == Subtree(a)
            m == [c \in Areas |-> IF c \in S THEN NoMarkets ELSE t.markets[c]]
            p == [c \in Areas |-> IF c \in S THEN NoMarkets ELSE t.past[c]]
            i == [c \in Areas |-> IF c \in S THEN NoMarkets ELSE t.ids[c]]
            g == [c \in Areas |-> IF c \in S THEN NoMarkets ELSE t.agents[c]]
            f == [c \in Areas |-> IF c \in S THEN {} ELSE t.future[c]]
            d == [c \in Areas |-> IF c \in S THEN {} ELSE t.deviances[c]]
<1>1. u = [t EXCEPT !.present = t.present \cup S, !.emptied = t.emptied \ S, !.markets = m, !.past = p,
                    !.ids = i, !.agents = g, !.future = f, !.deviances = d]
  BY DEF Fresh
<1>2. S \subseteq Areas
  BY SubtreeFacts
<1>3. NoMarkets \in MarketSlots
  BY DEF NoMarkets, MarketSlots
<1>4. /\ m \in [Areas -> MarketSlots] /\ p \in [Areas -> MarketSlots] /\ i \in [Areas -> MarketSlots]
      /\ g \in [Areas -> MarketSlots] /\ f \in [Areas -> SUBSET Slots] /\ d \in [Areas -> SUBSET Slots]
  BY <1>3 DEF Trees
<1>5. /\ \A b \in Areas \ S : m[b] = t.markets[b] /\ p[b] = t.past[b] /\ i[b] = t.ids[b]
                              /\ g[b] = t.agents[b] /\ f[b] = t.future[b]
      /\ \A b \in S : m[b] = NoMarkets /\ p[b] = NoMarkets /\ i[b] = NoMarkets
                      /\ g[b] = NoMarkets /\ f[b] = {}
  BY <1>2
<1>. HIDE DEF m, p, i, g, f, d, S
<1>6. u \in Trees
  <2>1. t.present \cup S \in SUBSET Areas /\ t.emptied \ S \in SUBSET Areas
    BY <1>2 DEF Trees
  <2>. QED BY <1>1, <1>4, <2>1 DEF Trees
<1>7. /\ u.present = t.present \cup S /\ u.emptied = t.emptied \ S /\ u.error = t.error
      /\ u.markets = m /\ u.past = p /\ u.ids = i /\ u.agents = g /\ u.future = f /\ u.connected = t.connected
  BY <1>1 DEF Trees
<1>8. \A b \in Areas \ S : SameRow(t, u, b)
  BY <1>5, <1>7 DEF SameRow
<1>9. \A b \in S : Idle(u, b) /\ b \notin u.emptied /\ u.ids[b] = NoMarkets
  BY <1>5, <1>7 DEF Idle
<1>. QED BY <1>6, <1>7, <1>8, <1>9 DEF S

LEMMA GrownSettled ==
    ASSUME NEW t, NEW u, NEW b, NEW n, SameRow(t, u, b), b # Root => SameRow(t, u, Parent[b]), Settled(t, b, n),
           b \in t.emptied \/ (Children(t.present, b) = {} <=> Children(u.present, b) = {})
    PROVE  Settled(u, b, n)
<1>1. /\ Idle(t, b) => Idle(u, b)
      /\ \A j : InStep(t, b, j) => InStep(u, b, j)
      /\ b \notin t.emptied /\ IsLinked(t, b, n) => IsLinked(u, b, n)
      /\ \A x, s : KeepsMarket(t, b, x, s) => KeepsMarket(u, b, x, s)
      /\ b # Root => \A x, s : KeepsMarket(t, Parent[b], x, s) => KeepsMarket(u, Parent[b], x, s)
  BY DEF SameRow, Idle, InStep, IsLinked, KeepsMarket
<1>2. Stale(t, b, n) => Stale(u, b, n)
  BY <1>1 DEF Stale, SameRow
<1>3. /\ b \in u.emptied <=> b \in t.emptied
      /\ b # Root => (Parent[b] \in u.emptied <=> Parent[b] \in t.emptied)
      /\ u.connected[b] = t.connected[b] /\ u.agents[b] = t.agents[b]
  BY DEF SameRow
<1>. QED BY <1>1, <1>2, <1>3 DEF Settled

LEMMA IdleWaits ==
    ASSUME NEW t, NEW b, NEW k, NEW n, Idle(t, b), b \notin t.emptied
    PROVE  Waiting(t, b, k, n)
<1>1. ~ InStep(t, b, n)
  BY DEF Idle, NoMarkets, InStep, Types
<1>2. \A x \in Types : t.agents[b][x] = {}
  BY DEF Idle, NoMarkets
<1>. QED BY <1>1, <1>2 DEF Waiting

(* The new areas wait for their first market cycle, and with them a parent *)
(* that had no children.                                                   *)
LEMMA FreshWalk ==
    ASSUME slot \in Slots, NEW t, AllSettled(t, slot), NEW a \in Areas \ {Root}, a \notin t.present,
           Parent[a] \in t.present, NEW u, u = Fresh(t, a)
    PROVE  /\ t.markets[Parent[a]]["spot"] # {} => Walk(u, Areas \ Subtree(a), slot, slot)
           /\ t.markets[Parent[a]]["spot"] = {} =>
                 /\ Walk(u, (Areas \ Subtree(a)) \ {Parent[a]}, slot, slot)
                 /\ Idle(u, Parent[a]) /\ Children(t.present, Parent[a]) = {}
           /\ Subtree(a) \cap t.present = {}
<1>. DEFINE S == Subtree(a)
            p == Parent[a]
<1>1. /\ IsTree(t, slot) /\ t \in Trees /\ t.present \subseteq Areas /\ \A b \in t.present : Settled(t, b, slot)
      /\ \A b \in t.present \ {Root} : Parent[b] \in t.present
  BY DEF AllSettled, Walk, IsTree, Trees
<1>2. S \cap t.present = {}
  BY <1>1, SubtreeAbsent
<1>3. /\ u \in Trees /\ u.present = t.present \cup S
      /\ \A b \in Areas \ S : SameRow(t, u, b)
      /\ \A b \in S : Idle(u, b) /\ b \notin u.emptied /\ u.ids[b] = NoMarkets
  BY <1>1, FreshFields
<1>4. S \subseteq Areas /\ a \in S /\ \A c \in S : c # Root /\ (c = a \/ Parent[c] \in S)
  BY SubtreeFacts, SubtreeTop, SubtreeParents
<1>5. IsTree(u, slot)
  <2>1. ASSUME NEW b \in u.present \ {Root} PROVE Parent[b] \in u.present
    BY <1>1, <1>3, <1>4, <2>1
  <2>2. ASSUME NEW b \in Areas, NEW x \in Types
        PROVE  u.markets[b][x] \cup u.past[b][x] \cup u.agents[b][x] \cup u.ids[b][x] \subseteq 0 .. slot
    <3>1. CASE b \in S
      BY <1>3, <3>1 DEF Idle, NoMarkets
    <3>2. CASE b \notin S
      BY <1>1, <1>3, <3>2 DEF IsTree, SameRow
    <3>. QED BY <3>1, <3>2
  <2>. QED BY <1>1, <1>3, <2>1, <2>2 DEF IsTree
<1>. HIDE DEF S, p
<1>6. ASSUME NEW b \in t.present, b # p PROVE Settled(u, b, slot)
  <2>1. Children(u.present, b) = Children(t.present, b)
    BY <1>2, <1>3, <1>4, <1>6 DEF Children, p
  <2>2. SameRow(t, u, b) /\ (b # Root => SameRow(t, u, Parent[b]))
    BY <1>1, <1>2, <1>3
  <2>. QED BY <1>1, <2>1, <2>2, GrownSettled
<1>7. ASSUME NEW b \in S PROVE Waiting(u, b, slot, slot)
  BY <1>3, IdleWaits
<1>8. p \in t.present /\ Settled(t, p, slot) /\ SameRow(t, u, p) /\ (p # Root => SameRow(t, u, Parent[p]))
  BY <1>1, <1>2, <1>3 DEF p
<1>9. ASSUME t.markets[p]["spot"] # {} PROVE Walk(u, Areas \ S, slot, slot)
  <2>1. ~ Idle(t, p)
    BY <1>9 DEF Idle, NoMarkets, Types
  <2>2. p \in t.emptied \/ Children(t.present, p) # {}
    BY <1>8, <2>1 DEF Settled
  <2>3. Children(t.present, p) \subseteq Children(u.present, p)
    BY <1>3 DEF Children
  <2>4. Settled(u, p, slot)
    BY <1>8, <2>2, <2>3, GrownSettled
  <2>5. \A b \in u.present \cap (Areas \ S) : Settled(u, b, slot)
    BY <1>3, <1>6, <2>4
  <2>6. \A b \in u.present \ (Areas \ S) : Waiting(u, b, slot, slot)
    BY <1>1, <1>3, <1>7
  <2>. QED BY <1>5, <2>5, <2>6 DEF Walk
<1>10. ASSUME t.markets[p]["spot"] = {}
       PROVE  Walk(u, (Areas \ S) \ {p}, slot, slot) /\ Idle(u, p) /\ Children(t.present, p) = {}
  <2>1. \A j : ~ InStep(t, p, j)
    BY <1>10 DEF InStep
  <2>2. p \notin t.emptied /\ Idle(t, p) /\ Children(t.present, p) = {}
    BY <1>8, <2>1 DEF Settled, Stale
  <2>3. p \notin u.emptied /\ Idle(u, p)
    BY <1>8, <2>2 DEF SameRow, Idle
  <2>4. Waiting(u, p, slot, slot)
    BY <2>3, IdleWaits
  <2>5. \A b \in u.present \cap ((Areas \ S) \ {p}) : Settled(u, b, slot)
    BY <1>3, <1>6
  <2>6. \A b \in u.present \ ((Areas \ S) \ {p}) : Waiting(u, b, slot, slot)
    BY <1>1, <1>3, <1>7, <2>4
  <2>. QED BY <1>5, <2>2, <2>3, <2>5, <2>6 DEF Walk
<1>. QED BY <1>2, <1>9, <1>10 DEF S, p

LEMMA CreateAreaTree ==
    ASSUME slot \in Slots, NEW t, AllSettled(t, slot), t.error = FALSE, NEW a \in Areas,
           NEW u, u = CreateArea(t, a)
    PROVE  AllSettled(u, slot) /\ u.error = FALSE
<1>. DEFINE S == Subtree(a)
            p == Parent[a]
            fresh == Fresh(t, a)
            ready == IF t.markets[p]["spot"] = {} THEN CycleOwnMarkets(fresh, p) ELSE fresh
            active == Activate(ready, S)
<1>1. u = IF p \notin t.present \/ a \in t.present THEN t
          ELSE IF active.error THEN [ready EXCEPT !.present = t.present] ELSE active
  BY DEF CreateArea, Fresh
<1>2. CASE p \notin t.present \/ a \in t.present
  BY <1>1, <1>2
<1>3. CASE p \in t.present /\ a \notin t.present
  <2>1. /\ IsTree(t, slot) /\ t \in Trees /\ t.present \subseteq Areas /\ \A b \in t.present : Settled(t, b, slot)
        /\ \A b \in t.present \ {Root} : Parent[b] \in t.present
        /\ Root \in t.present /\ slot \in Nat
    BY SlotFacts DEF AllSettled, Walk, IsTree, Trees
  <2>2. a # Root /\ p \in Areas /\ S \cap t.present = {}
    BY <1>3, <2>1, FreshWalk
  <2>3. /\ fresh \in Trees /\ fresh.present = t.present \cup S /\ fresh.error = FALSE
        /\ \A b \in Areas \ S : SameRow(t, fresh, b)
        /\ \A b \in S : Idle(fresh, b) /\ b \notin fresh.emptied /\ fresh.ids[b] = NoMarkets
    BY <2>1, FreshFields
  <2>4. /\ t.markets[p]["spot"] # {} => Walk(fresh, Areas \ S, slot, slot)
        /\ t.markets[p]["spot"] = {} =>
              /\ Walk(fresh, (Areas \ S) \ {p}, slot, slot)
              /\ Idle(fresh, p) /\ Children(t.present, p) = {}
    BY <1>3, <2>2, FreshWalk
  <2>. HIDE DEF fresh
  <2>5. S \subseteq Areas /\ a \in S /\ \A c \in S : c # Root /\ (c = a \/ Parent[c] \in S)
    BY <2>2, SubtreeFacts, SubtreeTop, SubtreeParents
  <2>6. Below(fresh.present, Areas \ S, S) /\ fresh.present \subseteq (Areas \ S) \cup S
    <3>1. \A b \in S : b = Root \/ Parent[b] \in (Areas \ S) \cup S
      BY <2>5, AreaFacts
    <3>2. \A b \in S : \A c \in Children(fresh.present, b) : c \notin Areas \ S
      BY <2>1, <2>2, <2>3, SubtreeFacts DEF Children, Closed, Trees
    <3>. QED BY <2>1, <2>3, <2>5, <3>1, <3>2 DEF Below, Trees
  <2>7. CASE t.markets[p]["spot"] # {}
    <3>1. ready = fresh /\ u = IF active.error THEN [fresh EXCEPT !.present = t.present] ELSE active
      BY <1>1, <1>3, <2>7
    <3>. HIDE DEF S, p, ready
    <3>2. active = Activate(fresh, S)
      BY <3>1
    <3>. HIDE DEF active
    <3>3. active \in Trees /\ (active.error = FALSE => AllSettled(active, slot))
      BY <2>3, <2>4, <2>5, <2>6, <2>7, <3>2, ActivateTree
    <3>4. active.error \in BOOLEAN
      BY <3>3 DEF Trees
    <3>5. CASE active.error = FALSE
      BY <3>1, <3>3, <3>5
    <3>6. CASE active.error = TRUE
      <4>1. u = [fresh EXCEPT !.present = t.present]
        BY <3>1, <3>6
      <4>2. u \in Trees
        BY <2>1, <2>3, <4>1 DEF Trees
      <4>3. /\ u.present = t.present /\ u.emptied = fresh.emptied /\ u.markets = fresh.markets
            /\ u.past = fresh.past /\ u.ids = fresh.ids /\ u.agents = fresh.agents
            /\ u.future = fresh.future /\ u.connected = fresh.connected /\ u.error = FALSE
        BY <2>3, <4>1 DEF Trees
      <4>4. \A b \in Areas \ S : SameRow(t, u, b)
        BY <2>3, <4>3 DEF SameRow
      <4>5. ASSUME NEW b \in t.present PROVE Settled(u, b, slot)
        <5>1. SameRow(t, u, b) /\ (b # Root => SameRow(t, u, Parent[b])) /\ Settled(t, b, slot)
          BY <2>1, <2>2, <4>4
        <5>. QED BY <4>3, <5>1, OthersSettled
      <4>6. IsTree(u, slot)
        <5>1. ASSUME NEW b \in Areas, NEW x \in Types
              PROVE  u.markets[b][x] \cup u.past[b][x] \cup u.agents[b][x] \cup u.ids[b][x] \subseteq 0 .. slot
          <6>1. CASE b \in S
            BY <2>3, <4>3, <6>1 DEF Idle, NoMarkets
          <6>2. CASE b \notin S
            BY <2>1, <4>4, <6>2 DEF IsTree, SameRow
          <6>. QED BY <6>1, <6>2
        <5>. QED BY <2>1, <4>2, <4>3, <5>1 DEF IsTree
      <4>. QED BY <2>1, <4>3, <4>5, <4>6 DEF AllSettled, Walk
    <3>. QED BY <3>4, <3>5, <3>6
  <2>8. CASE t.markets[p]["spot"] = {}
    <3>. DEFINE v == CycleOwnMarkets(fresh, p)
    <3>1. ready = v /\ active = Activate(v, S)
      BY <2>8
    <3>2. p \notin S /\ p # a /\ p \in fresh.present
      BY <1>3, <2>2, <2>3, <2>5, AreaFacts
    <3>3. a \in Children(fresh.present, p) /\ a # Root
      BY <2>2, <2>3, <2>5 DEF Children
    <3>4. OnlyRow(fresh, v, p) /\ Cycled(fresh, v, p) /\ v \in Trees
      BY <2>2, <2>3, <3>3, CycledOnlyRow DEF OnlyRow
    <3>5. Walk(v, Areas \ S, slot, slot)
      <4>1. p = Root \/ Parent[p] \in (Areas \ S) \ {p}
        BY <1>3, <2>1, <2>2, AreaFacts
      <4>2. \A c \in Children(fresh.present, p) : c \notin (Areas \ S) \ {p}
        BY <2>3, <2>4, <2>8 DEF Children
      <4>3. ((Areas \ S) \ {p}) \cup {p} = Areas \ S
        BY <2>2, <3>2
      <4>4. Walk(fresh, (Areas \ S) \ {p}, slot, slot)
        BY <2>4, <2>8
      <4>. HIDE DEF S, p
      <4>5. Walk(v, ((Areas \ S) \ {p}) \cup {p}, slot, slot)
        BY <2>1, <3>2, <4>1, <4>2, <4>4, WalkStep
      <4>. QED BY <4>3, <4>5
    <3>6. v.present = fresh.present /\ v.error = FALSE /\ \A b \in S : SameRow(fresh, v, b)
      BY <2>3, <2>5, <3>2, <3>4 DEF OnlyRow, SameTree
    <3>7. \A b \in S : Idle(v, b)
      BY <2>3, <3>6 DEF Idle, SameRow
    <3>8. v.past[p]["spot"] = {}
      BY <2>2, <2>3, <2>4, <2>8, <3>4, FirstCycleInStep DEF Types
    <3>9. \A b \in S : v.past[b]["spot"] = {}
      BY <3>7 DEF Idle, NoMarkets, Types
    <3>10. Pastless(v, S)
      BY <2>5, <3>8, <3>9 DEF Pastless
    <3>11. Below(v.present, Areas \ S, S) /\ v.present \subseteq (Areas \ S) \cup S
      BY <2>6, <3>6
    <3>. HIDE DEF v, S, ready
    <3>12. active.error = FALSE /\ AllSettled(active, slot)
      <4>. HIDE DEF active
      <4>. QED BY <2>5, <3>1, <3>4, <3>5, <3>6, <3>7, <3>10, <3>11, ActivateTree
    <3>. QED BY <1>1, <1>3, <3>12
  <2>. QED BY <2>7, <2>8
<1>. QED BY <1>2, <1>3
-----------------------------------------------------------------------------
(* The live events of a buffer are applied.                                *)

LEMMA ApplyEventTree ==
    ASSUME slot \in Slots, NEW t, AllSettled(t, slot), t.error = FALSE, NEW e \in LiveEvent,
           NEW u, u = ApplyEvent(t, e)
    PROVE  AllSettled(u, slot) /\ u.error = FALSE
<1>1. e.request.area \in Areas
  <2>1. PICK message \in Requests : e.request \in ToSet(message)
    BY DEF LiveEvent
  <2>2. message \in Seq([kind : {"create", "delete", "forward", "malformed"}, area : Areas, bulk : BOOLEAN])
    BY RequestAssumption DEF Areas
  <2>3. e.request \in [kind : {"create", "delete", "forward", "malformed"}, area : Areas, bulk : BOOLEAN]
    BY <2>1, <2>2, Members
  <2>. QED BY <2>3
<1>2. slot \in Nat
  BY SlotFacts
<1>3. CASE e.request.kind = "create"
  <2>1. u = CreateArea(t, e.request.area)
    BY <1>3 DEF ApplyEvent
  <2>. QED BY <1>1, <2>1, CreateAreaTree
<1>4. CASE e.request.kind = "delete"
  <2>1. u = DeleteArea(t, e.request.area)
    BY <1>4 DEF ApplyEvent
  <2>. QED BY <1>1, <1>2, <2>1, DeleteAreaTree
<1>5. CASE e.request.kind \notin {"create", "delete"}
  BY <1>5 DEF ApplyEvent
<1>. QED BY <1>3, <1>4, <1>5

SettledTrees == {t \in Trees : AllSettled(t, slot) /\ t.error = FALSE}

LEMMA ApplyEventSettled ==
    ASSUME slot \in Slots, NEW t \in SettledTrees, NEW e \in LiveEvent
    PROVE  ApplyEvent(t, e) \in SettledTrees
BY ApplyEventTree DEF SettledTrees, AllSettled, Walk, IsTree

LEMMA ApplyEventsTree ==
    ASSUME slot \in Slots, NEW t \in SettledTrees, NEW events \in Seq(LiveEvent)
    PROVE  ApplyEvents(t, events) \in SettledTrees
<1>. DEFINE N == Len(events)
            step == [p \in (1 .. N) \X SettledTrees |-> ApplyEvent(p[2], events[p[1]])]
            IsLoop(g) == g = [i \in 0 .. N |-> IF i = 0 THEN t ELSE ApplyEvent(g[i - 1], events[i])]
            loop == CHOOSE g : IsLoop(g)
<1>1. N \in Nat /\ \A i \in 1 .. N : events[i] \in LiveEvent
  OBVIOUS
<1>2. step \in [(1 .. N) \X SettledTrees -> SettledTrees]
  BY <1>1, ApplyEventSettled
<1>3. \A i \in 1 .. N, u \in SettledTrees : step[<<i, u>>] = ApplyEvent(u, events[i])
  OBVIOUS
<1>4. ApplyEvents(t, events) = loop[N]
  BY DEF ApplyEvents
<1>. HIDE DEF step, N
<1>5. PICK g \in [0 .. N -> SettledTrees] : Steps(g, t, step, N)
  BY <1>1, <1>2, WalkExists
<1>6. \A i \in 0 .. N : g[i] = IF i = 0 THEN t ELSE ApplyEvent(g[i - 1], events[i])
  <2>. TAKE i \in 0 .. N
  <2>1. CASE i = 0
    BY <1>5, <2>1 DEF Steps
  <2>2. CASE i # 0
    <3>1. i \in 1 .. N /\ g[i - 1] \in SettledTrees
      BY <1>1, <1>5, <2>2
    <3>. QED BY <1>3, <1>5, <2>2, <3>1 DEF Steps
  <2>. QED BY <2>1, <2>2
<1>7. IsLoop(g)
  BY <1>6
<1>8. IsLoop(loop)
  BY <1>7
<1>. HIDE DEF loop
<1>9. \A i \in 0 .. N : loop[i] = IF i = 0 THEN t ELSE ApplyEvent(loop[i - 1], events[i])
  BY <1>8
<1>. HIDE DEF IsLoop
<1>. DEFINE T == {i \in 0 .. N : loop[i] \in SettledTrees}
<1>10. 0 \in T
  BY <1>1, <1>9
<1>11. ASSUME NEW i \in 1 .. N, i - 1 \in T PROVE i \in T
  <2>1. i \in 0 .. N /\ i # 0 /\ loop[i - 1] \in SettledTrees /\ events[i] \in LiveEvent
    BY <1>1, <1>11
  <2>2. loop[i] = ApplyEvent(loop[i - 1], events[i])
    BY <1>9, <2>1
  <2>. QED BY <2>1, <2>2, ApplyEventSettled
<1>. HIDE DEF T
<1>12. \A i \in 0 .. N : i \in T
  BY <1>1, <1>10, <1>11, CountUp
<1>13. N \in T
  BY <1>1, <1>12
<1>. QED BY <1>4, <1>13 DEF T
-----------------------------------------------------------------------------
(* The steps of the simulation.                                            *)

LEMMA ConnectedKept ==
    ASSUME settings' = settings, NEW a, NEW n
    PROVE  IsConnected(a, n)' = IsConnected(a, n)
BY DEF IsConnected, IndividualEventsActive, IntervalActive, Get, Hour

LEMMA InStepKept ==
    ASSUME settings' = settings, NEW t, NEW a, NEW n
    PROVE  InStep(t, a, n)' <=> InStep(t, a, n)
BY DEF InStep

LEMMA SettledKept ==
    ASSUME settings' = settings, NEW t, NEW a, NEW n, Settled(t, a, n)
    PROVE  Settled(t, a, n)'
<1>1. InStep(t, a, n)' <=> InStep(t, a, n)
  BY InStepKept
<1>2. Stale(t, a, n) => Stale(t, a, n)'
  BY InStepKept DEF Stale
<1>3. IsConnected(a, n)' = IsConnected(a, n)
  BY ConnectedKept
<1>4. IsLinked(t, a, n) => IsLinked(t, a, n)'
  <2>1. IsConnected(Parent[a], n)' = IsConnected(Parent[a], n)
    BY ConnectedKept
  <2>. QED BY <2>1 DEF IsLinked, Children
<1>5. Idle(t, a)' <=> Idle(t, a)
  BY DEF Idle
<1>6. Children(t.present, a)' = Children(t.present, a)
  BY DEF Children
<1>7. \A b, x, s : KeepsMarket(t, b, x, s)' <=> KeepsMarket(t, b, x, s)
  BY DEF KeepsMarket
<1>. QED BY <1>1, <1>2, <1>3, <1>4, <1>5, <1>6, <1>7 DEF Settled

LEMMA AllSettledKept ==
    ASSUME settings' = settings, NEW t, NEW n, AllSettled(t, n)
    PROVE  AllSettled(t, n)'
<1>1. IsTree(t, n) /\ t.present \subseteq Areas /\ \A a \in t.present : Settled(t, a, n)
  BY DEF AllSettled, Walk, IsTree, Trees
<1>2. IsTree(t, n)'
  BY <1>1 DEF IsTree
<1>3. \A a \in t.present : Settled(t, a, n)'
  BY <1>1, SettledKept
<1>. QED BY <1>1, <1>2, <1>3 DEF AllSettled, Walk

LEMMA TreeKept ==
    ASSUME settings' = settings, AllSettled(tree', LastCycle')
    PROVE  AllSettled(tree, LastCycle)'
BY AllSettledKept

LEMMA TreeInit == Init => TreeInv
<1>. SUFFICES ASSUME Init PROVE TreeInv
  OBVIOUS
<1>1. LastSlot \in Nat /\ LastTick \in Nat
  BY TreeAssumption
<1>2. tree.error = FALSE /\ tree.emptied = {}
  BY DEF Init, Unactivated
<1>3. slot \in 0 .. LastSlot /\ tick \in 0 .. LastTick
  BY <1>1 DEF Init
<1>4. /\ settings \in [settlement : BOOLEAN, balancing : BOOLEAN, events : EventLists]
      /\ pc = "activate" /\ tree = Unactivated /\ slot = 0 /\ failed = "no" /\ emptied = FALSE
  BY DEF Init
<1>. QED BY <1>2, <1>3, <1>4 DEF TreeInv, FailsOnlyWhenKnown

(* Before the activation no area has a market.                             *)
LEMMA ActivationWalk ==
    /\ Unactivated \in Trees /\ Walk(Unactivated, {}, 0, 0)
    /\ \A a \in Areas : Idle(Unactivated, a) /\ Unactivated.past[a]["spot"] = {}
    /\ Unactivated.present = Initially /\ Unactivated.emptied = {} /\ Unactivated.error = FALSE
<1>. DEFINE t == Unactivated
<1>1. t \in Trees
  <2>1. [a \in Areas |-> NoMarkets] \in [Areas -> MarketSlots]
    BY DEF NoMarkets, MarketSlots
  <2>2. [a \in Areas |-> {}] \in [Areas -> SUBSET Slots] /\ [a \in Areas |-> TRUE] \in [Areas -> BOOLEAN]
    OBVIOUS
  <2>3. Initially \in SUBSET Areas
    BY TreeAssumption DEF Areas
  <2>. QED BY <2>1, <2>2, <2>3 DEF Unactivated, Trees
<1>2. \A a \in Areas : Idle(t, a) /\ t.ids[a] = NoMarkets /\ t.past[a]["spot"] = {}
  BY DEF Unactivated, Idle, NoMarkets, Types
<1>3. t.present = Initially /\ t.emptied = {} /\ t.error = FALSE
  BY DEF Unactivated
<1>4. Initially \subseteq Areas /\ Root \in Initially /\ \A a \in Initially \ {Root} : Parent[a] \in Initially
  BY TreeAssumption DEF Areas, Root
<1>. HIDE DEF t
<1>5. IsTree(t, 0)
  BY <1>1, <1>2, <1>3, <1>4 DEF IsTree, Idle, NoMarkets
<1>6. \A a \in t.present : Waiting(t, a, 0, 0)
  BY <1>2, <1>3, <1>4, IdleWaits
<1>7. Walk(t, {}, 0, 0)
  BY <1>5, <1>6 DEF Walk
<1>. QED BY <1>1, <1>2, <1>3, <1>7 DEF t

LEMMA ActivateAreasTree ==
    ASSUME TreeInv, ActivateAreas
    PROVE  TreeInv'
<1>1. /\ pc = "activate" /\ pc' = "cycle" /\ slot = 0 /\ slot \in Slots /\ ~ emptied
      /\ tree' = Activate(Unactivated, Initially)
      /\ UNCHANGED <<settings, failed, slot, tick, tickBuffer, emptied>>
  BY ActivationWalk DEF TreeInv, ActivateAreas, Slots, live
<1>2. Initially \subseteq Areas /\ \A a \in Initially \ {Root} : Parent[a] \in Initially
  BY TreeAssumption DEF Areas, Root
<1>3. /\ Below(Unactivated.present, {}, Initially) /\ Unactivated.present \subseteq {} \cup Initially
      /\ Pastless(Unactivated, Initially)
  BY <1>2, ActivationWalk DEF Below, Pastless
<1>4. tree' \in Trees /\ tree'.emptied = {} /\ tree'.error = FALSE /\ AllSettled(tree', 0)
  BY <1>1, <1>2, <1>3, ActivationWalk, ActivateTree
<1>5. AllSettled(tree, LastCycle)'
  <2>1. LastCycle' = 0
    BY <1>1 DEF LastCycle
  <2>. QED BY <1>1, <1>4, <2>1, TreeKept
<1>. QED BY <1>1, <1>4, <1>5 DEF TreeInv, FailsOnlyWhenKnown

LEMMA CycleAllMarketsTree ==
    ASSUME TreeInv, CycleAllMarkets
    PROVE  TreeInv'
<1>1. /\ pc = "cycle" /\ slot \in Slots /\ tree' = CycleMarkets(tree) /\ AllSettled(tree, LastCycle)
      /\ tree.error = FALSE
      /\ IF tree'.error THEN pc' = "failed" /\ failed' = "deviance" ELSE pc' = "events" /\ UNCHANGED failed
      /\ UNCHANGED <<settings, slot, tick, tickBuffer, emptied>>
  <2>1. AllSettled(tree, LastCycle) /\ ~ tree.error
    BY DEF TreeInv, CycleAllMarkets
  <2>2. tree.error = FALSE
    BY <2>1 DEF AllSettled, Walk, IsTree, Trees
  <2>. QED BY <2>1, <2>2 DEF TreeInv, CycleAllMarkets, Slots, live
<1>2. LastCycle \in Nat /\ (slot = LastCycle + 1 \/ (slot = 0 /\ LastCycle = 0 /\ tree.emptied = {}))
  <2>1. slot \in Nat
    BY <1>1, SlotFacts
  <2>2. slot = 0 => tree.emptied = {}
    BY <1>1 DEF TreeInv
  <2>. QED BY <1>1, <2>1, <2>2 DEF LastCycle
<1>3. /\ AllSettled(tree', slot) /\ tree'.emptied \subseteq tree.emptied
      /\ tree.emptied = {} \/ ~ settings.settlement => tree'.error = FALSE
  BY <1>1, <1>2, CycleMarketsTree
<1>4. AllSettled(tree, LastCycle)'
  <2>1. LastCycle' = slot
    BY <1>1 DEF LastCycle
  <2>. QED BY <1>1, <1>3, <2>1, TreeKept
<1>5. tree.emptied # {} => emptied
  BY DEF TreeInv
<1>6. FailsOnlyWhenKnown'
  <2>1. failed = "no"
    BY <1>1 DEF TreeInv
  <2>2. failed' = "deviance" => settings.settlement /\ emptied
    BY <1>1, <1>3, <1>5, <2>1
  <2>. QED BY <1>1, <2>1, <2>2 DEF FailsOnlyWhenKnown
<1>. QED BY <1>1, <1>3, <1>4, <1>5, <1>6 DEF TreeInv

LEMMA HandleAllEventsTree ==
    ASSUME LiveInv, TreeInv, HandleAllEvents
    PROVE  TreeInv'
<1>. DEFINE events == IF held = "old" THEN old ELSE buffer
<1>1. /\ pc = "apply" /\ pc' = "tick" /\ slot \in Slots /\ tree' = ApplyEvents(tree, events)
      /\ emptied' = (emptied \/ tree'.emptied # {})
      /\ UNCHANGED <<settings, failed, slot, tick, tickBuffer>>
  BY DEF TreeInv, HandleAllEvents, Slots
<1>2. events \in Seq(LiveEvent)
  BY DEF LiveInv, LiveTyped
<1>3. tree \in SettledTrees
  <2>1. AllSettled(tree, LastCycle) /\ LastCycle = slot /\ ~ tree.error
    BY <1>1 DEF TreeInv, LastCycle
  <2>2. tree \in Trees /\ tree.error = FALSE
    BY <2>1 DEF AllSettled, Walk, IsTree, Trees
  <2>. QED BY <2>1, <2>2 DEF SettledTrees
<1>. HIDE DEF events
<1>4. tree' \in SettledTrees
  BY <1>1, <1>2, <1>3, ApplyEventsTree
<1>5. AllSettled(tree', slot) /\ tree'.error = FALSE
  BY <1>4 DEF SettledTrees
<1>6. AllSettled(tree, LastCycle)'
  <2>1. LastCycle' = slot
    BY <1>1 DEF LastCycle
  <2>. QED BY <1>1, <1>5, <2>1, TreeKept
<1>7. failed = "no"
  BY <1>1 DEF TreeInv
<1>. QED BY <1>1, <1>5, <1>6, <1>7 DEF TreeInv, FailsOnlyWhenKnown

LEMMA HandleTickEventsTree ==
    ASSUME TreeInv, HandleTickEvents
    PROVE  TreeInv'
<1>1. pc = "tick_events" /\ UNCHANGED <<settings, tree, emptied>> /\ failed = "no" /\ slot \in Nat
      /\ AllSettled(tree', slot) /\ LastSlot \in Nat /\ LastTick \in Nat
  <2>1. LastCycle = slot /\ AllSettled(tree, LastCycle)
    BY DEF TreeInv, HandleTickEvents, LastCycle
  <2>. QED BY <2>1, SlotFacts, TreeAssumption DEF TreeInv, HandleTickEvents, Slots
<1>2. CASE \E e \in ToSet(tickBuffer) : RaisesOnApply(tree, e)
  <2>1. pc' = "failed" /\ failed' = "forward event" /\ UNCHANGED <<tick, slot, tickBuffer>>
    BY <1>2 DEF HandleTickEvents
  <2>2. AllSettled(tree, LastCycle)'
    <3>1. LastCycle' = slot
      BY <2>1 DEF LastCycle
    <3>. QED BY <1>1, <3>1, TreeKept
  <2>3. FailsOnlyWhenKnown'
    BY <1>1, <1>2, <2>1 DEF FailsOnlyWhenKnown, RaisesOnApply
  <2>. QED BY <1>1, <2>1, <2>2, <2>3 DEF TreeInv
<1>3. CASE ~ \E e \in ToSet(tickBuffer) : RaisesOnApply(tree, e)
  <2>1. NextTick /\ failed' = failed
    BY <1>3 DEF HandleTickEvents
  <2>2. /\ pc' \in {"tick", "cycle", "done"} /\ slot' \in 0 .. LastSlot /\ tick' \in 0 .. LastTick
        /\ LastCycle' = slot /\ (pc' = "cycle" => slot' # 0)
    BY <1>1, <2>1 DEF NextTick, TreeInv, LastCycle
  <2>3. AllSettled(tree, LastCycle)'
    BY <1>1, <2>2, TreeKept
  <2>. QED BY <1>1, <2>1, <2>2, <2>3 DEF TreeInv, FailsOnlyWhenKnown
<1>. QED BY <1>2, <1>3

(* The other steps leave the tree alone; after a failure the Redis thread  *)
(* may still add to the buffer.                                            *)
LEMMA TreeUntouched ==
    ASSUME TreeInv, UNCHANGED <<settings, failed, slot, tick, tree, emptied>>,
           ToSet(tickBuffer) \subseteq ToSet(tickBuffer'),
           \/ pc' = pc
           \/ pc \in {"events", "tick"} /\ pc' \in {"apply", "tick_events"}
    PROVE  TreeInv'
<1>1. LastCycle' = LastCycle
  BY DEF LastCycle
<1>2. pc' # "activate" => AllSettled(tree, LastCycle)'
  BY <1>1, TreeKept DEF TreeInv
<1>3. FailsOnlyWhenKnown'
  BY DEF TreeInv, FailsOnlyWhenKnown
<1>. QED BY <1>2, <1>3 DEF TreeInv

LEMMA AddEventTree ==
    ASSUME LiveInv, TreeInv, AddEvent
    PROVE  TreeInv'
<1>1. UNCHANGED <<settings, pc, failed, slot, tick, tree, emptied>>
  BY DEF AddEvent, control
<1>2. bulk \in Seq(LiveEvent) /\ bulk # <<>> /\ tickBuffer \in Seq(LiveEvent)
  BY DEF AddEvent, LiveInv, LiveTyped
<1>3. Head(bulk) \in LiveEvent
  BY <1>2
<1>4. tickBuffer' = tickBuffer \/ tickBuffer' = Append(tickBuffer, Head(bulk))
  BY DEF AddEvent
<1>5. ToSet(tickBuffer) \subseteq ToSet(Append(tickBuffer, Head(bulk)))
  BY <1>2, <1>3, AppendMembers
<1>6. ToSet(tickBuffer) \subseteq ToSet(tickBuffer')
  BY <1>4, <1>5, Zenon
<1>. QED BY <1>1, <1>6, TreeUntouched

LEMMA TreeStep == LiveInv /\ TreeInv /\ [Next]_vars => TreeInv'
<1>. SUFFICES ASSUME LiveInv, TreeInv, [Next]_vars PROVE TreeInv'
  OBVIOUS
<1>1. CASE SendMessage
  BY <1>1, TreeUntouched DEF SendMessage, control
<1>2. CASE TakeBuffer
  BY <1>2, TreeUntouched DEF TakeBuffer
<1>3. CASE TickAndDispatch
  BY <1>3, TreeUntouched DEF TickAndDispatch, live
<1>4. CASE UNCHANGED vars
  BY <1>4, TreeUntouched DEF vars, control, live
<1>. QED BY <1>1, <1>2, <1>3, <1>4, ActivateAreasTree, CycleAllMarketsTree, HandleAllEventsTree,
            HandleTickEventsTree, AddEventTree DEF Next

LEMMA TradedTree ==
    ASSUME TreeInv, pc \notin {"activate", "cycle"}
    PROVE  /\ IsTree(tree, slot) /\ tree.present \subseteq Areas /\ slot \in Nat
           /\ \A a \in tree.present : Settled(tree, a, slot)
<1>1. AllSettled(tree, slot) /\ slot \in Nat
  BY SlotFacts DEF TreeInv, LastCycle, Slots
<1>. QED BY <1>1 DEF AllSettled, Walk, IsTree, Trees

(* Whatever is created, deleted, disabled or disconnected in between: while *)
(* a slot is traded every area with children has exactly the markets of    *)
(* that slot and the settlement and future markets that go with it, and    *)
(* its id lists name them; and the main thread dies of an exception only   *)
(* in the two situations known.                                            *)
THEOREM MarketsFollowTheTreeTheorem == Spec => []MarketsFollowTheTree
<1>1. LiveInv /\ TreeInv => MarketsFollowTheTree
  <2>. SUFFICES ASSUME LiveInv, TreeInv PROVE MarketsFollowTheTree
    OBVIOUS
  <2>1. TypeOK
    <3>1. IsTree(tree, slot)
      <4>1. CASE pc = "activate"
        <5>1. Walk(tree, {}, 0, 0)
          BY <4>1, ActivationWalk DEF TreeInv
        <5>. QED BY <4>1, <5>1 DEF TreeInv, Walk
      <4>2. CASE pc # "activate"
        <5>1. IsTree(tree, LastCycle) /\ slot \in Nat
          BY <4>2, SlotFacts DEF TreeInv, AllSettled, Walk, Slots
        <5>2. LastCycle \in 0 .. slot
          BY <5>1 DEF LastCycle
        <5>3. 0 .. LastCycle \subseteq 0 .. slot
          BY <5>1, <5>2
        <5>. QED BY <5>1, <5>3 DEF IsTree
      <4>. QED BY <4>1, <4>2
    <3>. QED BY <3>1 DEF TypeOK, TreeInv, LiveInv, LiveTyped, IsTree, Trees
  <2>2. MarketsInStep
    <3>. SUFFICES ASSUME pc \in Trading, NEW a \in tree.present, Trades(a), a \notin tree.emptied
                  PROVE  /\ tree.markets[a]["spot"] = {slot}
                         /\ tree.markets[a]["balancing"] = IF settings.balancing THEN {slot} ELSE {}
                         /\ tree.markets[a]["settlement"] =
                                IF settings.settlement THEN {s \in tree.past[a]["spot"] : s >= slot - MaxAge}
                                ELSE {}
                         /\ tree.future[a] = {s \in slot + 1 .. slot + FutureSlots : s <= LastSlot}
                         /\ tree.ids[a] = tree.markets[a]
                         /\ \A type \in Types : tree.markets[a][type] \cap tree.past[a][type] = {}
      BY DEF MarketsInStep
    <3>1. IsTree(tree, slot) /\ slot \in Nat /\ Settled(tree, a, slot) /\ a \in Areas
      BY TradedTree DEF Trading
    <3>2. InStep(tree, a, slot)
      BY <3>1 DEF Settled, Trades
    <3>3. tree.markets[a]["spot"] \cap tree.past[a]["spot"] = {}
      BY <3>1, <3>2 DEF InStep
    <3>4. tree.markets[a]["balancing"] \cap tree.past[a]["balancing"] = {}
      BY <3>1, <3>2 DEF InStep
    <3>5. tree.markets[a]["settlement"] \cap tree.past[a]["settlement"] = {}
      <4>1. \A s \in tree.markets[a]["settlement"] : s \in Nat /\ s >= slot - MaxAge
        BY <3>1, <3>2 DEF InStep, IsTree, Types
      <4>2. \A s \in tree.past[a]["settlement"] : s < slot - MaxAge
        BY <3>2 DEF InStep
      <4>. QED BY <3>1, <4>1, <4>2, SlotFacts
    <3>. QED BY <3>2, <3>3, <3>4, <3>5 DEF InStep, Types
  <2>. QED BY <2>1, <2>2 DEF MarketsFollowTheTree, TreeInv
<1>. QED BY <1>1, LiveInit, LiveStep, TreeInit, TreeStep, PTL DEF Spec

(* No agent outlives the markets it links, and every area below a connected *)
(* parent is linked to it while a slot is traded, also one that was created *)
(* in the middle of it.                                                     *)
THEOREM AgentsLinkMarketsTheorem == Spec => []AgentsLinkMarkets
<1>1. TreeInv => AgentsLinkMarkets
  <2>. SUFFICES ASSUME TreeInv PROVE AgentsLinkMarkets
    OBVIOUS
  <2>1. AgentsHaveMarkets
    <3>. SUFFICES ASSUME pc \in Trading \cup {"events", "apply"}, NEW a \in tree.present \ {Root},
                         NEW type \in Types, NEW s \in tree.agents[a][type]
                  PROVE  KeepsMarket(tree, a, type, s) /\ KeepsMarket(tree, Parent[a], type, s)
      BY DEF AgentsHaveMarkets, KeepsMarket
    <3>1. Settled(tree, a, slot)
      BY TradedTree DEF Trading
    <3>. QED BY <3>1 DEF Settled
  <2>2. AreasAreLinked
    <3>. SUFFICES ASSUME pc \in Trading, NEW a \in tree.present \ {Root}, Trades(a), a \notin tree.emptied,
                         Parent[a] \notin tree.emptied, tree.connected[Parent[a]]
                  PROVE  slot \in tree.agents[a]["spot"]
      BY DEF AreasAreLinked
    <3>1. IsTree(tree, slot) /\ Settled(tree, a, slot)
      BY TradedTree DEF Trading
    <3>2. Settled(tree, Parent[a], slot)
      BY <3>1, TradedTree DEF Trading, IsTree
    <3>3. IsLinked(tree, a, slot) /\ IsConnected(Parent[a], slot)
      BY <3>1, <3>2 DEF Settled
    <3>. QED BY <3>3 DEF IsLinked, Trades
  <2>. QED BY <2>1, <2>2 DEF AgentsLinkMarkets
<1>. QED BY <1>1, LiveInit, LiveStep, TreeInit, TreeStep, PTL DEF Spec
=============================================================================
