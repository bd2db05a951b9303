------------------------- MODULE AreaMarketsProofs -------------------------
(***************************************************************************)
(* Proofs about the live events of AreaMarkets, for every tree of areas,   *)
(* every set of messages and any number of slots and ticks: the Redis      *)
(* thread adds events while the main thread handles those it has taken.    *)
(***************************************************************************)
EXTENDS AreaMarkets, SequenceTheorems, TLAPS
-----------------------------------------------------------------------------
(* The members of sequences. *)

LEMMA Members ==
    ASSUME NEW S, NEW s \in Seq(S)
    PROVE  /\ DOMAIN s = 1 .. Len(s) /\ Len(s) \in Nat
           /\ ToSet(s) \subseteq S
           /\ \A i \in DOMAIN s : s[i] \in ToSet(s)
           /\ \A e \in ToSet(s) : \E i \in DOMAIN s : e = s[i]
BY DEF ToSet

LEMMA EmptyMembers == ToSet(<<>>) = {}
BY DEF ToSet

LEMMA ConcatMembers ==
    ASSUME NEW S, NEW s \in Seq(S), NEW t \in Seq(S)
    PROVE  /\ s \o t \in Seq(S)
           /\ ToSet(s \o t) = ToSet(s) \cup ToSet(t)
<1>1. /\ s \o t \in Seq(S) /\ Len(s \o t) = Len(s) + Len(t)
      /\ \A i \in 1 .. Len(s) + Len(t) :
            (s \o t)[i] = IF i <= Len(s) THEN s[i] ELSE t[i - Len(s)]
  BY ConcatProperties
<1>2. /\ Len(s) \in Nat /\ Len(t) \in Nat /\ DOMAIN s = 1 .. Len(s) /\ DOMAIN t = 1 .. Len(t)
      /\ DOMAIN (s \o t) = 1 .. Len(s) + Len(t)
  BY <1>1
<1>3. ASSUME NEW e \in ToSet(s \o t) PROVE e \in ToSet(s) \cup ToSet(t)
  <2>1. PICK i \in 1 .. Len(s) + Len(t) : e = (s \o t)[i]
    BY <1>2 DEF ToSet
  <2>2. CASE i <= Len(s)
    BY <1>1, <1>2, <2>1, <2>2 DEF ToSet
  <2>3. CASE ~ (i <= Len(s))
    <3>1. i - Len(s) \in DOMAIN t
      BY <1>2, <2>1, <2>3
    <3>. QED BY <1>1, <2>1, <2>3, <3>1 DEF ToSet
  <2>. QED BY <2>2, <2>3
<1>4. ASSUME NEW e \in ToSet(s) PROVE e \in ToSet(s \o t)
  <2>1. PICK i \in DOMAIN s : e = s[i]
    BY DEF ToSet
  <2>2. i \in 1 .. Len(s) + Len(t) /\ (s \o t)[i] = e
    BY <1>1, <1>2, <2>1
  <2>. QED BY <1>2, <2>2 DEF ToSet
<1>5. ASSUME NEW e \in ToSet(t) PROVE e \in ToSet(s \o t)
  <2>1. PICK i \in DOMAIN t : e = t[i]
    BY DEF ToSet
  <2>2. /\ i + Len(s) \in 1 .. Len(s) + Len(t) /\ (i + Len(s)) - Len(s) = i
        /\ ~ (i + Len(s) <= Len(s))
    BY <1>2, <2>1
  <2>3. (s \o t)[i + Len(s)] = e
    BY <1>1, <2>1, <2>2
  <2>. QED BY <1>2, <2>2, <2>3 DEF ToSet
<1>. QED BY <1>1, <1>3, <1>4, <1>5

LEMMA AppendMembers ==
    ASSUME NEW S, NEW s \in Seq(S), NEW e \in S
    PROVE  /\ Append(s, e) \in Seq(S)
           /\ ToSet(Append(s, e)) = ToSet(s) \cup {e}
<1>1. <<e>> \in Seq(S) /\ ToSet(<<e>>) = {e} /\ Append(s, e) = s \o <<e>>
  BY AppendIsConcat DEF ToSet
<1>2. s \o <<e>> \in Seq(S) /\ ToSet(s \o <<e>>) = ToSet(s) \cup ToSet(<<e>>)
  BY <1>1, ConcatMembers, Zenon
<1>. QED BY ONLY <1>1, <1>2, Zenon

LEMMA TailMembers ==
    ASSUME NEW S, NEW s \in Seq(S), s # <<>>
    PROVE  /\ Tail(s) \in Seq(S) /\ Head(s) \in ToSet(s) /\ ToSet(Tail(s)) \subseteq ToSet(s)
           /\ DOMAIN Tail(s) = 1 .. Len(s) - 1
           /\ \A i \in DOMAIN Tail(s) : i + 1 \in DOMAIN s /\ Tail(s)[i] = s[i + 1]
<1>1. /\ Tail(s) \in Seq(S) /\ Head(s) = s[1] /\ Len(s) \in Nat /\ Len(s) # 0
      /\ Len(Tail(s)) = Len(s) - 1 /\ \A i \in 1 .. Len(s) - 1 : Tail(s)[i] = s[i + 1]
  BY HeadTailProperties, EmptySeq
<1>2. DOMAIN s = 1 .. Len(s) /\ DOMAIN Tail(s) = 1 .. Len(s) - 1
  BY <1>1
<1>3. \A i \in DOMAIN Tail(s) : i + 1 \in DOMAIN s /\ Tail(s)[i] = s[i + 1]
  BY <1>1, <1>2
<1>. QED BY <1>1, <1>2, <1>3 DEF ToSet
-----------------------------------------------------------------------------
(* Their order. *)

LEMMA IncreasingAppend ==
    ASSUME NEW s \in Seq(LiveEvent), NEW e \in LiveEvent, Increasing(s),
           \A d \in ToSet(s) : d.id < e.id
    PROVE  Increasing(Append(s, e))
<1>1. /\ Len(s) \in Nat /\ DOMAIN s = 1 .. Len(s) /\ DOMAIN Append(s, e) = 1 .. Len(s) + 1
      /\ \A i \in 1 .. Len(s) : Append(s, e)[i] = s[i] /\ s[i] \in ToSet(s)
      /\ Append(s, e)[Len(s) + 1] = e
  BY AppendProperties DEF ToSet
<1>2. ASSUME NEW i \in DOMAIN Append(s, e), NEW j \in DOMAIN Append(s, e), i < j
      PROVE  Append(s, e)[i].id < Append(s, e)[j].id
  <2>1. i \in 1 .. Len(s)
    BY <1>1, <1>2
  <2>2. CASE j = Len(s) + 1
    BY <1>1, <2>1, <2>2
  <2>3. CASE j # Len(s) + 1
    <3>1. j \in 1 .. Len(s)
      BY <1>1, <2>3
    <3>. QED BY <1>1, <1>2, <2>1, <3>1 DEF Increasing
  <2>. QED BY <2>2, <2>3
<1>. QED BY <1>2 DEF Increasing

LEMMA IncreasingTail ==
    ASSUME NEW s \in Seq(LiveEvent), s # <<>>, Increasing(s)
    PROVE  Increasing(Tail(s)) /\ \A e \in ToSet(Tail(s)) : Head(s).id < e.id
<1>1. /\ DOMAIN Tail(s) = 1 .. Len(s) - 1 /\ Len(s) \in Nat
      /\ \A i \in DOMAIN Tail(s) : i + 1 \in DOMAIN s /\ Tail(s)[i] = s[i + 1]
  BY TailMembers
<1>2. Head(s) = s[1] /\ 1 \in DOMAIN s
  BY EmptySeq
<1>3. \A i \in DOMAIN Tail(s) : i \in Nat /\ 1 < i + 1
  BY <1>1
<1>4. \A i, j \in DOMAIN Tail(s) : i < j => i + 1 < j + 1
  BY <1>3
<1>. QED BY <1>1, <1>2, <1>3, <1>4 DEF Increasing, ToSet

(* Handling a list in order after what was handled before. *)
LEMMA HandledInOrder ==
    ASSUME NEW s \in Seq(LiveEvent), NEW t \in Seq(LiveEvent), InOrderByKind(s), Increasing(t),
           \A d \in ToSet(s), e \in ToSet(t) : Forward(d) = Forward(e) => d.id < e.id
    PROVE  InOrderByKind(s \o t)
<1>. DEFINE u == s \o t
<1>1. /\ Len(s) \in Nat /\ Len(t) \in Nat /\ DOMAIN u = 1 .. Len(s) + Len(t)
      /\ DOMAIN s = 1 .. Len(s) /\ DOMAIN t = 1 .. Len(t)
      /\ \A i \in DOMAIN u : u[i] = IF i <= Len(s) THEN s[i] ELSE t[i - Len(s)]
  BY ConcatProperties
<1>. HIDE DEF u
<1>2. /\ \A i \in DOMAIN u : i <= Len(s) => i \in DOMAIN s
      /\ \A i \in DOMAIN u : ~ (i <= Len(s)) => i - Len(s) \in DOMAIN t
  BY <1>1
<1>3. ASSUME NEW i \in DOMAIN u, NEW j \in DOMAIN u, i < j, Forward(u[i]) = Forward(u[j])
      PROVE  u[i].id < u[j].id
  <2>1. CASE j <= Len(s)
    <3>1. i <= Len(s)
      BY <1>1, <1>3, <2>1
    <3>. QED BY <1>1, <1>2, <1>3, <2>1, <3>1 DEF InOrderByKind
  <2>2. CASE i <= Len(s) /\ ~ (j <= Len(s))
    <3>1. u[i] = s[i] /\ u[j] = t[j - Len(s)] /\ i \in DOMAIN s /\ j - Len(s) \in DOMAIN t
      BY <1>1, <1>2, <2>2
    <3>2. u[i] \in ToSet(s) /\ u[j] \in ToSet(t)
      BY <3>1 DEF ToSet
    <3>. QED BY <1>3, <3>2
  <2>3. CASE ~ (i <= Len(s))
    <3>1. ~ (j <= Len(s)) /\ i - Len(s) < j - Len(s)
      BY <1>1, <1>3, <2>3
    <3>. QED BY <1>1, <1>2, <2>3, <3>1 DEF Increasing
  <2>. QED BY <2>1, <2>2, <2>3
<1>. QED BY <1>3 DEF InOrderByKind, u
-----------------------------------------------------------------------------
(* The steps of the two threads. *)

LEMMA LiveTypes ==
    ASSUME LiveInv
    PROVE  /\ handled \in Seq(LiveEvent) /\ old \in Seq(LiveEvent) /\ buffer \in Seq(LiveEvent)
           /\ tickBuffer \in Seq(LiveEvent) /\ bulk \in Seq(LiveEvent) /\ sent \in Nat
           /\ \A s \in {handled, old, buffer, tickBuffer, bulk} : \A e \in ToSet(s) :
                  e \in LiveEvent /\ e.id \in Nat /\ e.id <= sent
<1>1. /\ handled \in Seq(LiveEvent) /\ old \in Seq(LiveEvent) /\ buffer \in Seq(LiveEvent)
      /\ tickBuffer \in Seq(LiveEvent) /\ bulk \in Seq(LiveEvent) /\ sent \in Nat
  BY DEF LiveInv, LiveTyped
<1>2. ASSUME NEW s \in {handled, old, buffer, tickBuffer, bulk}, NEW e \in ToSet(s)
      PROVE  e \in LiveEvent /\ e.id <= sent
  <2>1. s \in Seq(LiveEvent)
    BY <1>1
  <2>2. e \in LiveEvent
    BY <2>1, Members
  <2>3. e.id \in Ids(s)
    BY DEF Ids
  <2>. QED BY <2>2, <2>3 DEF LiveInv, LiveOrdered
<1>3. \A e \in LiveEvent : e.id \in Nat
  BY DEF LiveEvent
<1>. QED BY <1>1, <1>2, <1>3

(* A step of the simulation that handles no live event. *)
LEMMA LiveUntouched ==
    ASSUME LiveInv, UNCHANGED live, pc' = "apply" <=> pc = "apply",
           pc' \in Trading => pc \in Trading
    PROVE  LiveInv'
BY DEF live, LiveInv, LiveTyped, LiveOrdered, LiveApart, Before, Apart, Increasing, InOrderByKind,
       Ids

(* A new message comes when the one before has been dealt with.            *)
LEMMA SendMessageLive ==
    ASSUME LiveInv, SendMessage
    PROVE  LiveInv'
<1>. USE LiveTypes
<1>1. PICK requests \in Requests :
         /\ bulk' = [i \in DOMAIN requests |-> Event(requests[i], sent + i)]
         /\ sent' = sent + Len(requests)
  BY DEF SendMessage
<1>2. /\ requests \in Seq([kind : {"create", "delete", "forward", "malformed"},
                           area : ToSet(TopDown), bulk : BOOLEAN])
      /\ Len(requests) \in Nat /\ DOMAIN requests = 1 .. Len(requests)
  BY RequestAssumption, Members
<1>3. UNCHANGED <<pc, buffer, tickBuffer, held, old, taken, dropped, handled>>
  BY DEF SendMessage, control
<1>4. \A i \in DOMAIN requests :
         bulk'[i] \in LiveEvent /\ bulk'[i].id = sent + i /\ sent < sent + i /\ sent + i <= sent'
  <2>1. ASSUME NEW i \in DOMAIN requests PROVE Event(requests[i], sent + i) \in LiveEvent
    <3>1. requests[i] \in UNION {ToSet(message) : message \in Requests}
      BY DEF ToSet
    <3>2. sent + i \in Nat
      BY <1>2
    <3>. QED BY <3>1, <3>2 DEF Event, LiveEvent
  <2>. QED BY <1>1, <1>2, <2>1 DEF Event
<1>5. bulk' \in Seq(LiveEvent) /\ DOMAIN bulk' = DOMAIN requests
  BY <1>1, <1>2, <1>4, IsASeq
<1>6. Increasing(bulk')
  BY <1>2, <1>4, <1>5 DEF Increasing
<1>7. \A e \in ToSet(bulk') : sent < e.id /\ e.id <= sent' /\ e.id \in Nat
  BY <1>2, <1>4, <1>5 DEF ToSet
<1>8. sent' \in Nat /\ sent <= sent'
  BY <1>1, <1>2
<1>9. LiveTyped'
  BY <1>3, <1>5, <1>8 DEF LiveInv, LiveTyped
<1>10. LiveOrdered'
  <2>1. \A events \in {handled, old, buffer, tickBuffer} : Before(events, bulk')
    <3>. SUFFICES ASSUME NEW events \in {handled, old, buffer, tickBuffer},
                         NEW d \in ToSet(events), NEW e \in ToSet(bulk')
                  PROVE  d.id < e.id
      BY DEF Before
    <3>1. d.id \in Nat /\ d.id <= sent
      OBVIOUS
    <3>. QED BY <1>7, <3>1
  <2>2. \A events \in {handled, old, buffer, tickBuffer, bulk'} : \A i \in Ids(events) : i <= sent'
    <3>1. \A events \in {handled, old, buffer, tickBuffer} : \A e \in ToSet(events) : e.id <= sent'
      BY <1>8
    <3>. QED BY <1>7, <3>1 DEF Ids
  <2>. QED BY <1>3, <1>6, <2>1, <2>2 DEF LiveInv, LiveOrdered
<1>11. LiveApart'
  <2>1. \A i \in dropped : i <= sent' /\ \A e \in ToSet(bulk') : i < e.id
    <3>1. \A i \in dropped : i \in Nat /\ i <= sent
      BY DEF LiveInv, LiveApart, LiveTyped
    <3>. QED BY <1>7, <1>8, <3>1
  <2>. QED BY <1>3, <2>1 DEF LiveInv, LiveApart
<1>. QED BY <1>9, <1>10, <1>11 DEF LiveInv

(* The next event of the message comes after all events known so far.      *)
LEMMA NextOfMessage ==
    ASSUME LiveInv, bulk # <<>>
    PROVE  /\ Head(bulk) \in LiveEvent /\ Head(bulk).id \in Nat /\ Head(bulk).id <= sent
           /\ Tail(bulk) \in Seq(LiveEvent) /\ Increasing(Tail(bulk))
           /\ ToSet(Tail(bulk)) \subseteq ToSet(bulk)
           /\ \A e \in ToSet(Tail(bulk)) : Head(bulk).id < e.id
           /\ \A s \in {handled, old, buffer, tickBuffer} : \A d \in ToSet(s) : d.id < Head(bulk).id
           /\ \A i \in dropped : i < Head(bulk).id
<1>. USE LiveTypes
<1>1. Head(bulk) \in ToSet(bulk) /\ Tail(bulk) \in Seq(LiveEvent)
      /\ ToSet(Tail(bulk)) \subseteq ToSet(bulk)
  BY TailMembers
<1>2. Increasing(Tail(bulk)) /\ \A e \in ToSet(Tail(bulk)) : Head(bulk).id < e.id
  BY IncreasingTail DEF LiveInv, LiveOrdered
<1>3. \A s \in {handled, old, buffer, tickBuffer} : \A d \in ToSet(s) : d.id < Head(bulk).id
  BY <1>1 DEF LiveInv, LiveOrdered, Before
<1>4. \A i \in dropped : i < Head(bulk).id
  BY <1>1 DEF LiveInv, LiveApart
<1>. QED BY <1>1, <1>2, <1>3, <1>4

(* The message moves on by one event, or is given up: the rest of it stays *)
(* in order, after what is in the other places.                            *)
LEMMA MessageShrinks ==
    ASSUME LiveInv, bulk' \in Seq(LiveEvent), Increasing(bulk'), ToSet(bulk') \subseteq ToSet(bulk),
           UNCHANGED <<pc, buffer, tickBuffer, held, old, sent, taken, dropped, handled>>
    PROVE  LiveInv'
<1>1. LiveTyped'
  BY DEF LiveInv, LiveTyped
<1>2. LiveOrdered'
  <2>1. \A events \in {handled, old, buffer, tickBuffer} : Before(events, bulk')
    BY DEF LiveInv, LiveOrdered, Before
  <2>2. \A events \in {handled, old, buffer, tickBuffer, bulk'} : \A i \in Ids(events) : i <= sent
    BY DEF LiveInv, LiveOrdered, Ids
  <2>. QED BY <2>1, <2>2 DEF LiveInv, LiveOrdered
<1>3. LiveApart'
  <2>1. \A i \in dropped : i <= sent /\ \A e \in ToSet(bulk') : i < e.id
    BY DEF LiveInv, LiveApart
  <2>. QED BY <2>1 DEF LiveInv, LiveApart
<1>. QED BY <1>1, <1>2, <1>3 DEF LiveInv

(* A malformed event of a bulk while the main thread holds the buffer: it  *)
(* goes on with the old list, and the new buffer is empty.                 *)
LEMMA HeldBufferReplaced ==
    ASSUME LiveInv, held = "current", held' = "old", old' = buffer, buffer' = <<>>, bulk' = <<>>,
           UNCHANGED <<pc, tickBuffer, sent, taken, dropped, handled>>
    PROVE  LiveInv'
<1>. USE LiveTypes, EmptyMembers
<1>1. LiveTyped'
  BY DEF LiveInv, LiveTyped
<1>2. LiveOrdered'
  <2>1. \A events \in {handled, buffer, <<>>, tickBuffer} : Before(events, <<>>)
    BY DEF Before
  <2>2. Increasing(<<>>) /\ Before(buffer, <<>>)
    BY DEF Increasing, Before
  <2>3. \A events \in {handled, buffer, <<>>, tickBuffer} : \A i \in Ids(events) : i <= sent
    BY DEF LiveInv, LiveOrdered, Ids
  <2>4. \A d \in ToSet(handled) :
           IF Forward(d) THEN \A e \in ToSet(tickBuffer) : d.id < e.id
           ELSE \A e \in ToSet(buffer) \cup ToSet(<<>>) : d.id < e.id
    BY DEF LiveInv, LiveOrdered
  <2>. QED BY <2>1, <2>2, <2>3, <2>4 DEF LiveInv, LiveOrdered
<1>3. LiveApart'
  <2>1. \A events \in {buffer, <<>>, tickBuffer} : Apart(handled, events)
    BY DEF LiveInv, LiveApart, Apart
  <2>2. Apart(buffer, tickBuffer) /\ Apart(<<>>, tickBuffer)
    BY DEF LiveInv, LiveApart, Apart
  <2>3. \A events \in {handled, buffer, <<>>, tickBuffer} : dropped \cap Ids(events) = {}
    BY DEF LiveInv, LiveApart, Ids
  <2>. QED BY <2>1, <2>2, <2>3 DEF LiveInv, LiveApart
<1>. QED BY <1>1, <1>2, <1>3 DEF LiveInv

(* The same while the main thread does not hold it: its events are lost.   *)
LEMMA BufferDropped ==
    ASSUME LiveInv, held # "current", buffer' = <<>>, bulk' = <<>>, dropped' = dropped \cup Ids(buffer),
           UNCHANGED <<pc, tickBuffer, held, old, sent, taken, handled>>
    PROVE  LiveInv'
<1>. USE LiveTypes, EmptyMembers
<1>1. \A i \in Ids(buffer) : i \in Nat /\ i <= sent
  BY DEF Ids
<1>2. LiveTyped'
  <2>1. dropped' \subseteq Nat
    BY <1>1 DEF LiveInv, LiveTyped
  <2>2. {handled, old, <<>>, tickBuffer, <<>>} \subseteq Seq(LiveEvent)
    BY EmptySeq
  <2>3. \A e \in ToSet(old) \cup ToSet(<<>>) : ~ Forward(e)
    BY DEF LiveInv, LiveTyped
  <2>. QED BY <2>1, <2>2, <2>3 DEF LiveInv, LiveTyped
<1>3. LiveOrdered'
  <2>1. \A events \in {handled, old, <<>>, tickBuffer} : Before(events, <<>>)
    BY DEF Before
  <2>2. Increasing(<<>>) /\ Before(old, <<>>)
    BY DEF Increasing, Before
  <2>3. \A events \in {handled, old, <<>>, tickBuffer} : \A i \in Ids(events) : i <= sent
    BY DEF LiveInv, LiveOrdered, Ids
  <2>4. \A d \in ToSet(handled) :
           IF Forward(d) THEN \A e \in ToSet(tickBuffer) : d.id < e.id
           ELSE \A e \in ToSet(old) \cup ToSet(<<>>) : d.id < e.id
    BY DEF LiveInv, LiveOrdered
  <2>. QED BY <2>1, <2>2, <2>3, <2>4 DEF LiveInv, LiveOrdered
<1>4. LiveApart'
  <2>1. \A events \in {old, <<>>, tickBuffer} : Apart(handled, events)
    BY DEF LiveInv, LiveApart, Apart
  <2>2. Apart(old, tickBuffer) /\ Apart(<<>>, tickBuffer)
    BY DEF LiveInv, LiveApart, Apart
  <2>3. \A events \in {handled, old, <<>>, tickBuffer} : (dropped \cup Ids(buffer)) \cap Ids(events) = {}
    <3>1. \A events \in {handled, old, <<>>, tickBuffer} : dropped \cap Ids(events) = {}
      BY DEF LiveInv, LiveApart, Ids
    <3>2. Apart(handled, buffer) /\ Apart(buffer, tickBuffer)
      BY DEF LiveInv, LiveApart
    <3>3. \A d \in ToSet(old), e \in ToSet(buffer) : d.id # e.id
      <4>1. \A d \in ToSet(old), e \in ToSet(buffer) : d.id \in Nat /\ e.id \in Nat /\ d.id < e.id
        BY DEF LiveInv, LiveOrdered, Before
      <4>. QED BY <4>1
    <3>4. \A events \in {handled, old, <<>>, tickBuffer} : Ids(buffer) \cap Ids(events) = {}
      BY <3>2, <3>3 DEF Apart, Ids
    <3>. QED BY <3>1, <3>4
  <2>4. \A i \in dropped \cup Ids(buffer) : i <= sent
    BY <1>1 DEF LiveInv, LiveApart
  <2>. QED BY <2>1, <2>2, <2>3, <2>4 DEF LiveInv, LiveApart, LiveTyped
<1>. QED BY <1>2, <1>3, <1>4 DEF LiveInv

(* A forward event waits for the end of the tick.                          *)
LEMMA TickEventQueued ==
    ASSUME LiveInv, bulk # <<>>, Forward(Head(bulk)), bulk' = Tail(bulk),
           tickBuffer' = Append(tickBuffer, Head(bulk)),
           UNCHANGED <<pc, buffer, held, old, sent, taken, dropped, handled>>
    PROVE  LiveInv'
<1>. DEFINE e == Head(bulk)
<1>1. /\ e \in LiveEvent /\ e.id \in Nat /\ e.id <= sent
      /\ bulk' \in Seq(LiveEvent) /\ Increasing(bulk') /\ ToSet(bulk') \subseteq ToSet(bulk)
      /\ \A d \in ToSet(bulk') : e.id < d.id
      /\ \A s \in {handled, old, buffer, tickBuffer} : \A d \in ToSet(s) : d.id < e.id
      /\ \A i \in dropped : i < e.id
  BY NextOfMessage
<1>. HIDE DEF e
<1>2. tickBuffer' \in Seq(LiveEvent) /\ ToSet(tickBuffer') = ToSet(tickBuffer) \cup {e}
  BY <1>1, LiveTypes, AppendMembers DEF e
<1>3. Increasing(tickBuffer')
  BY <1>1, LiveTypes, IncreasingAppend DEF LiveInv, LiveOrdered, e
<1>4. LiveTyped'
  BY <1>1, <1>2 DEF LiveInv, LiveTyped, e
<1>5. LiveOrdered'
  <2>1. \A events \in {handled, old, buffer, tickBuffer'} : Before(events, bulk')
    BY <1>1, <1>2 DEF LiveInv, LiveOrdered, Before
  <2>2. \A events \in {handled, old, buffer, tickBuffer', bulk'} : \A i \in Ids(events) : i <= sent
    BY <1>1, <1>2 DEF LiveInv, LiveOrdered, Ids
  <2>3. \A d \in ToSet(handled) :
           IF Forward(d) THEN \A x \in ToSet(tickBuffer') : d.id < x.id
           ELSE \A x \in ToSet(old) \cup ToSet(buffer) : d.id < x.id
    BY <1>1, <1>2 DEF LiveInv, LiveOrdered
  <2>. QED BY <1>1, <1>3, <2>1, <2>2, <2>3 DEF LiveInv, LiveOrdered
<1>6. LiveApart'
  <2>. USE LiveTypes
  <2>1. \A s \in {handled, old, buffer} : \A d \in ToSet(s) : d.id # e.id
    BY <1>1
  <2>2. \A events \in {old, buffer, tickBuffer'} : Apart(handled, events)
    BY <1>2, <2>1 DEF LiveInv, LiveApart, Apart
  <2>3. Apart(old, tickBuffer') /\ Apart(buffer, tickBuffer')
    BY <1>2, <2>1 DEF LiveInv, LiveApart, Apart
  <2>4. \A events \in {handled, old, buffer, tickBuffer'} : dropped \cap Ids(events) = {}
    <3>1. e.id \notin dropped
      BY <1>1
    <3>. QED BY <1>2, <3>1 DEF LiveInv, LiveApart, Ids
  <2>5. \A i \in dropped : i <= sent /\ \A d \in ToSet(bulk') : i < d.id
    BY <1>1 DEF LiveInv, LiveApart
  <2>. QED BY <2>2, <2>3, <2>4, <2>5 DEF LiveInv, LiveApart
<1>. QED BY <1>4, <1>5, <1>6 DEF LiveInv

(* Every other event waits for the next market cycle.                      *)
LEMMA EventQueued ==
    ASSUME LiveInv, bulk # <<>>, ~ Forward(Head(bulk)), bulk' = Tail(bulk),
           buffer' = Append(buffer, Head(bulk)),
           UNCHANGED <<pc, tickBuffer, held, old, sent, taken, dropped, handled>>
    PROVE  LiveInv'
<1>. DEFINE e == Head(bulk)
<1>1. /\ e \in LiveEvent /\ e.id \in Nat /\ e.id <= sent
      /\ bulk' \in Seq(LiveEvent) /\ Increasing(bulk') /\ ToSet(bulk') \subseteq ToSet(bulk)
      /\ \A d \in ToSet(bulk') : e.id < d.id
      /\ \A s \in {handled, old, buffer, tickBuffer} : \A d \in ToSet(s) : d.id < e.id
      /\ \A i \in dropped : i < e.id
  BY NextOfMessage
<1>. HIDE DEF e
<1>2. buffer' \in Seq(LiveEvent) /\ ToSet(buffer') = ToSet(buffer) \cup {e}
  BY <1>1, LiveTypes, AppendMembers DEF e
<1>3. Increasing(buffer')
  BY <1>1, LiveTypes, IncreasingAppend DEF LiveInv, LiveOrdered, e
<1>4. LiveTyped'
  BY <1>1, <1>2 DEF LiveInv, LiveTyped, e
<1>5. LiveOrdered'
  <2>1. \A events \in {handled, old, buffer', tickBuffer} : Before(events, bulk')
    BY <1>1, <1>2 DEF LiveInv, LiveOrdered, Before
  <2>2. \A events \in {handled, old, buffer', tickBuffer, bulk'} : \A i \in Ids(events) : i <= sent
    BY <1>1, <1>2 DEF LiveInv, LiveOrdered, Ids
  <2>3. \A d \in ToSet(handled) :
           IF Forward(d) THEN \A x \in ToSet(tickBuffer) : d.id < x.id
           ELSE \A x \in ToSet(old) \cup ToSet(buffer') : d.id < x.id
    BY <1>1, <1>2 DEF LiveInv, LiveOrdered
  <2>4. Before(old, buffer')
    BY <1>1, <1>2 DEF LiveInv, LiveOrdered, Before
  <2>. QED BY <1>1, <1>3, <2>1, <2>2, <2>3, <2>4 DEF LiveInv, LiveOrdered
<1>6. LiveApart'
  <2>. USE LiveTypes
  <2>1. \A s \in {handled, old, tickBuffer} : \A d \in ToSet(s) : d.id # e.id
    BY <1>1
  <2>2. \A events \in {old, buffer', tickBuffer} : Apart(handled, events)
    BY <1>2, <2>1 DEF LiveInv, LiveApart, Apart
  <2>3. Apart(old, tickBuffer) /\ Apart(buffer', tickBuffer)
    BY <1>2, <2>1 DEF LiveInv, LiveApart, Apart
  <2>4. \A events \in {handled, old, buffer', tickBuffer} : dropped \cap Ids(events) = {}
    <3>1. e.id \notin dropped
      BY <1>1
    <3>. QED BY <1>2, <3>1 DEF LiveInv, LiveApart, Ids
  <2>5. \A i \in dropped : i <= sent /\ \A d \in ToSet(bulk') : i < d.id
    BY <1>1 DEF LiveInv, LiveApart
  <2>6. pc = "apply" => taken \subseteq Ids(IF held = "old" THEN old ELSE buffer')
    BY <1>2 DEF LiveInv, LiveApart, Ids
  <2>. QED BY <2>2, <2>3, <2>4, <2>5, <2>6 DEF LiveInv, LiveApart
<1>. QED BY <1>4, <1>5, <1>6 DEF LiveInv

LEMMA AddEventLive ==
    ASSUME LiveInv, AddEvent
    PROVE  LiveInv'
<1>1. bulk # <<>> /\ UNCHANGED <<pc, sent, taken, handled>>
  BY DEF AddEvent, control
<1>2. CASE bulk' = <<>> /\ UNCHANGED <<buffer, tickBuffer, held, old, dropped>>
  BY <1>1, <1>2, MessageShrinks, EmptySeq, EmptyMembers DEF Increasing
<1>3. CASE Malformed(Head(bulk)) /\ Head(bulk).request.bulk
  <2>1. bulk' = <<>> /\ UNCHANGED tickBuffer /\ ResetBuffer
    BY <1>3 DEF AddEvent
  <2>2. CASE held = "current"
    BY <1>1, <2>1, <2>2, HeldBufferReplaced DEF ResetBuffer
  <2>3. CASE held # "current"
    BY <1>1, <2>1, <2>3, BufferDropped DEF ResetBuffer, Ids
  <2>. QED BY <2>2, <2>3
<1>4. CASE ~ Malformed(Head(bulk)) /\ Forward(Head(bulk))
  BY <1>1, <1>4, TickEventQueued DEF AddEvent, Forward
<1>5. CASE ~ Malformed(Head(bulk)) /\ ~ Forward(Head(bulk))
  BY <1>1, <1>5, EventQueued DEF AddEvent, Forward
<1>6. Malformed(Head(bulk)) /\ ~ Head(bulk).request.bulk =>
        bulk' = <<>> /\ UNCHANGED <<buffer, tickBuffer, held, old, dropped>>
  BY DEF AddEvent
<1>. QED BY <1>2, <1>3, <1>4, <1>5, <1>6

(* The main thread takes the buffer: what is in it will be handled.        *)
LEMMA TakeBufferLive ==
    ASSUME LiveInv, TakeBuffer
    PROVE  LiveInv'
<1>1. /\ pc = "events" /\ pc' = "apply" /\ held' = "current" /\ taken' = Ids(buffer)
      /\ UNCHANGED <<buffer, tickBuffer, old, bulk, sent, dropped, handled>>
  BY DEF TakeBuffer, Ids
<1>2. old = <<>>
  BY <1>1 DEF LiveInv, LiveTyped
<1>. QED BY <1>1, <1>2 DEF LiveInv, LiveTyped, LiveOrdered, LiveApart, Trading, Before, Apart,
                           Increasing, InOrderByKind

(* The list the main thread holds is handled; what came to the buffer that *)
(* replaced it stays.                                                      *)
LEMMA HandleAllEventsLive ==
    ASSUME LiveInv, HandleAllEvents
    PROVE  LiveInv'
<1>. DEFINE events == IF held = "old" THEN old ELSE buffer
            later == IF held = "old" THEN buffer ELSE <<>>
<1>1. /\ pc = "apply" /\ pc' = "tick" /\ held' = "none" /\ old' = <<>>
      /\ handled' = handled \o events /\ buffer' = later
      /\ UNCHANGED <<tickBuffer, bulk, sent, taken, dropped>>
  BY DEF HandleAllEvents
<1>2. /\ events \in Seq(LiveEvent) /\ later \in Seq(LiveEvent)
      /\ ToSet(later) \subseteq ToSet(buffer) /\ Increasing(later)
      /\ events \in {old, buffer} /\ Increasing(events)
      /\ \A d \in ToSet(events), e \in ToSet(later) : d.id < e.id
      /\ \A e \in ToSet(events) \cup ToSet(later) : ~ Forward(e)
      /\ taken \subseteq Ids(events)
  <2>1. CASE held = "old"
    BY <1>1, <2>1, LiveTypes DEF LiveInv, LiveTyped, LiveOrdered, LiveApart, Before
  <2>2. CASE held # "old"
    BY <1>1, <2>2, LiveTypes, EmptyMembers, EmptySeq
       DEF LiveInv, LiveTyped, LiveOrdered, LiveApart, Increasing
  <2>. QED BY <2>1, <2>2
<1>. HIDE DEF events, later
<1>3. handled' \in Seq(LiveEvent) /\ ToSet(handled') = ToSet(handled) \cup ToSet(events)
  BY <1>1, <1>2, LiveTypes, ConcatMembers
<1>4. /\ \A d \in ToSet(events) : d.id <= sent /\ d.id \in Nat
      /\ \A d \in ToSet(events), e \in ToSet(bulk) : d.id < e.id
      /\ \A d \in ToSet(events), e \in ToSet(tickBuffer) : d.id # e.id
      /\ dropped \cap Ids(events) = {}
  BY <1>2, LiveTypes DEF LiveInv, LiveOrdered, LiveApart, Before, Apart
<1>5. InOrderByKind(handled')
  <2>1. \A d \in ToSet(handled), e \in ToSet(events) : Forward(d) = Forward(e) => d.id < e.id
    BY <1>2 DEF LiveInv, LiveOrdered
  <2>. QED BY <1>1, <1>2, <2>1, LiveTypes, HandledInOrder DEF LiveInv, LiveOrdered
<1>6. LiveTyped'
  <2>1. {handled', <<>>, later, tickBuffer, bulk} \subseteq Seq(LiveEvent)
    BY <1>2, <1>3, LiveTypes, EmptySeq
  <2>2. \A e \in ToSet(<<>>) \cup ToSet(later) : ~ Forward(e)
    BY <1>2, EmptyMembers
  <2>. QED BY <1>1, <2>1, <2>2 DEF LiveInv, LiveTyped
<1>7. LiveOrdered'
  <2>1. \A s \in {handled', <<>>, later, tickBuffer} : Before(s, bulk)
    BY <1>2, <1>3, <1>4, EmptyMembers DEF LiveInv, LiveOrdered, Before
  <2>2. \A s \in {handled', <<>>, later, tickBuffer, bulk} : \A i \in Ids(s) : i <= sent
    BY <1>2, <1>3, <1>4, EmptyMembers DEF LiveInv, LiveOrdered, Ids
  <2>3. \A d \in ToSet(handled') :
           IF Forward(d) THEN \A e \in ToSet(tickBuffer) : d.id < e.id
           ELSE \A e \in ToSet(<<>>) \cup ToSet(later) : d.id < e.id
    BY <1>2, <1>3, EmptyMembers DEF LiveInv, LiveOrdered
  <2>4. Increasing(<<>>) /\ Before(<<>>, later)
    BY EmptyMembers DEF Increasing, Before
  <2>. QED BY <1>1, <1>2, <1>5, <2>1, <2>2, <2>3, <2>4 DEF LiveInv, LiveOrdered
<1>8. LiveApart'
  <2>1. \A d \in ToSet(events), e \in ToSet(later) : d.id # e.id
    <3>1. \A e \in ToSet(later) : e.id \in Nat
      BY <1>2, LiveTypes
    <3>. QED BY <1>2, <1>4, <3>1
  <2>2. \A s \in {<<>>, later, tickBuffer} : Apart(handled', s)
    BY <1>2, <1>3, <1>4, <2>1, EmptyMembers DEF LiveInv, LiveApart, Apart
  <2>3. Apart(<<>>, tickBuffer) /\ Apart(later, tickBuffer)
    BY <1>2, EmptyMembers DEF LiveInv, LiveApart, Apart
  <2>4. \A s \in {handled', <<>>, later, tickBuffer} : dropped \cap Ids(s) = {}
    <3>1. dropped \cap Ids(handled) = {} /\ dropped \cap Ids(buffer) = {}
          /\ dropped \cap Ids(tickBuffer) = {}
      BY DEF LiveInv, LiveApart
    <3>2. Ids(handled') = Ids(handled) \cup Ids(events) /\ Ids(later) \subseteq Ids(buffer)
          /\ Ids(<<>>) = {}
      BY <1>2, <1>3, EmptyMembers DEF Ids
    <3>. QED BY <1>4, <3>1, <3>2
  <2>5. taken \subseteq Ids(handled')
    BY <1>2, <1>3 DEF Ids
  <2>. QED BY <1>1, <2>2, <2>3, <2>4, <2>5 DEF LiveInv, LiveApart
<1>. QED BY <1>6, <1>7, <1>8 DEF LiveInv

(* The forward events of the tick are handled, or one of them raises.      *)
LEMMA HandleTickEventsLive ==
    ASSUME LiveInv, HandleTickEvents
    PROVE  LiveInv'
<1>1. /\ pc = "tick_events" /\ pc' # "apply"
      /\ UNCHANGED <<buffer, held, old, bulk, sent, taken, dropped>>
  BY DEF HandleTickEvents, NextTick
<1>2. CASE UNCHANGED <<tickBuffer, handled>>
  BY <1>1, <1>2, LiveUntouched DEF live, Trading
<1>3. CASE tickBuffer' = <<>> /\ handled' = handled \o tickBuffer
  <2>1. handled' \in Seq(LiveEvent) /\ ToSet(handled') = ToSet(handled) \cup ToSet(tickBuffer)
    BY <1>3, LiveTypes, ConcatMembers
  <2>2. InOrderByKind(handled')
    <3>1. \A d \in ToSet(handled), e \in ToSet(tickBuffer) : Forward(d) = Forward(e) => d.id < e.id
      BY DEF LiveInv, LiveTyped, LiveOrdered
    <3>. QED BY <1>3, <3>1, LiveTypes, HandledInOrder DEF LiveInv, LiveOrdered
  <2>3. old = <<>>
    BY <1>1 DEF LiveInv, LiveTyped
  <2>4. LiveTyped'
    <3>1. {handled', old, buffer, <<>>, bulk} \subseteq Seq(LiveEvent)
      BY <2>1, LiveTypes, EmptySeq
    <3>. QED BY <1>1, <1>3, <3>1, EmptyMembers DEF LiveInv, LiveTyped
  <2>5. LiveOrdered'
    <3>1. \A s \in {handled', old, buffer, <<>>} : Before(s, bulk)
      BY <2>1, EmptyMembers DEF LiveInv, LiveOrdered, Before
    <3>2. \A s \in {handled', old, buffer, <<>>, bulk} : \A i \in Ids(s) : i <= sent
      BY <2>1, EmptyMembers DEF LiveInv, LiveOrdered, Ids
    <3>3. \A d \in ToSet(handled') :
             IF Forward(d) THEN \A e \in ToSet(<<>>) : d.id < e.id
             ELSE \A e \in ToSet(old) \cup ToSet(buffer) : d.id < e.id
      BY <2>1, EmptyMembers DEF LiveInv, LiveTyped, LiveOrdered
    <3>4. Increasing(<<>>)
      BY DEF Increasing
    <3>. QED BY <1>1, <1>3, <2>2, <3>1, <3>2, <3>3, <3>4 DEF LiveInv, LiveOrdered
  <2>6. LiveApart'
    <3>1. \A s \in {old, buffer, <<>>} : Apart(handled', s)
      BY <2>1, EmptyMembers DEF LiveInv, LiveApart, Apart
    <3>2. Apart(old, <<>>) /\ Apart(buffer, <<>>)
      BY EmptyMembers DEF Apart
    <3>3. \A s \in {handled', old, buffer, <<>>} : dropped \cap Ids(s) = {}
      BY <2>1, EmptyMembers DEF LiveInv, LiveApart, Ids
    <3>4. taken \subseteq Ids(handled')
      BY <1>1, <2>1 DEF LiveInv, LiveApart, Trading, Ids
    <3>. QED BY <1>1, <1>3, <3>1, <3>2, <3>3, <3>4 DEF LiveInv, LiveApart
  <2>. QED BY <2>4, <2>5, <2>6 DEF LiveInv
<1>. QED BY <1>2, <1>3 DEF HandleTickEvents

LEMMA LiveInit == Init => LiveInv
<1>. SUFFICES ASSUME Init PROVE LiveInv
  OBVIOUS
<1>. USE EmptyMembers
<1>1. LiveTyped
  BY EmptySeq DEF Init, LiveTyped
<1>2. LiveOrdered
  BY DEF Init, LiveOrdered, InOrderByKind, Increasing, Before, Ids
<1>3. LiveApart
  BY DEF Init, LiveApart, Apart, Ids, Trading
<1>. QED BY <1>1, <1>2, <1>3 DEF LiveInv

LEMMA LiveStep == LiveInv /\ [Next]_vars => LiveInv'
<1>. SUFFICES ASSUME LiveInv, [Next]_vars PROVE LiveInv'
  OBVIOUS
<1>1. CASE ActivateAreas \/ CycleAllMarkets
  BY <1>1, LiveUntouched DEF ActivateAreas, CycleAllMarkets, Trading
<1>2. CASE TickAndDispatch
  BY <1>2, LiveUntouched DEF TickAndDispatch, Trading
<1>3. CASE UNCHANGED vars
  BY <1>3, LiveUntouched DEF vars, control
<1>. QED
  BY <1>1, <1>2, <1>3, SendMessageLive, AddEventLive, TakeBufferLive, HandleAllEventsLive,
     HandleTickEventsLive DEF Next

(* However the Redis thread interleaves with the main thread, live events  *)
(* are handled once, those of a market cycle and those of a tick each in   *)
(* the order in which they came; no event that was thrown away is handled; *)
(* and what is in the buffer when the main thread turns to it is handled   *)
(* before the slot is traded.                                              *)
THEOREM EventsHandledInOrderTheorem == Spec => []EventsHandledInOrder
<1>1. LiveInv => EventsHandledInOrder
  <2>. SUFFICES ASSUME LiveInv PROVE EventsHandledInOrder
    OBVIOUS
  <2>1. ToSet(buffer \o old \o tickBuffer) = ToSet(buffer) \cup ToSet(old) \cup ToSet(tickBuffer)
    <3>. DEFINE first == buffer \o old
    <3>1. first \in Seq(LiveEvent) /\ ToSet(first) = ToSet(buffer) \cup ToSet(old)
      BY LiveTypes, ConcatMembers, Zenon
    <3>. HIDE DEF first
    <3>2. tickBuffer \in Seq(LiveEvent)
      BY LiveTypes
    <3>3. ToSet(first \o tickBuffer) = ToSet(first) \cup ToSet(tickBuffer)
      BY <3>1, <3>2, ConcatMembers, SMT
    <3>. QED BY <3>1, <3>3 DEF first
  <2>2. Ids(handled) \cap (dropped \cup {e.id : e \in ToSet(buffer \o old \o tickBuffer)}) = {}
    BY <2>1 DEF LiveInv, LiveApart, Apart, Ids
  <2>3. \A i, j \in DOMAIN handled :
           i < j /\ (handled[i].request.kind = "forward") = (handled[j].request.kind = "forward")
             => handled[i].id < handled[j].id
    BY DEF LiveInv, LiveOrdered, InOrderByKind, Forward
  <2>4. pc \in Trading => taken \subseteq Ids(handled)
    BY DEF LiveInv, LiveApart
  <2>. QED BY <2>2, <2>3, <2>4 DEF EventsHandledInOrder, Ids
<1>. QED BY <1>1, LiveInit, LiveStep, PTL DEF Spec
=============================================================================
