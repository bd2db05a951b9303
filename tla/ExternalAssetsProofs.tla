------------------------ MODULE ExternalAssetsProofs ------------------------
(***************************************************************************)
(* Proofs about the two threads of ExternalAssets, for any number of       *)
(* aggregators, batches, requests, slots and ticks, whatever the batches   *)
(* and requests ask for: commands are executed and answered once, requests *)
(* are answered in order, and the main thread fails only if it was         *)
(* disturbed.                                                              *)
(***************************************************************************)
EXTENDS ExternalAssets, EnergySumsProofs, SequenceTheorems, FiniteSetTheorems, TLAPS
-----------------------------------------------------------------------------
(* Queues: sequences whatever their elements are. *)

IsQueue(q) == \E S : q \in Seq(S)

LEMMA QueueShape ==
    ASSUME NEW q, IsQueue(q)
    PROVE  /\ Len(q) \in Nat /\ DOMAIN q = 1 .. Len(q)
           /\ \A i \in 1 .. Len(q) : q[i] \in ToSet(q)
           /\ \A e \in ToSet(q) : \E i \in 1 .. Len(q) : e = q[i]
           /\ q = <<>> <=> Len(q) = 0
<1>1. PICK S : q \in Seq(S)
  BY DEF IsQueue
<1>2. Len(q) \in Nat /\ DOMAIN q = 1 .. Len(q) /\ (q = <<>> <=> Len(q) = 0)
  BY <1>1, EmptySeq, LenProperties
<1>. QED BY <1>2 DEF ToSet

LEMMA QueueEmpty == IsQueue(<<>>) /\ Len(<<>>) = 0 /\ ToSet(<<>>) = {}
<1>1. <<>> \in Seq({}) /\ Len(<<>>) = 0 /\ DOMAIN <<>> = {}
  OBVIOUS
<1>. QED BY <1>1 DEF IsQueue, ToSet

(* A function on 1 .. n is a queue. *)
LEMMA QueueFunction ==
    ASSUME NEW n \in Nat, NEW f, f = [i \in 1 .. n |-> f[i]]
    PROVE  IsQueue(f) /\ Len(f) = n
<1>. DEFINE S == {f[i] : i \in 1 .. n}
<1>1. f \in [1 .. n -> S]
  OBVIOUS
<1>. HIDE DEF S
<1>2. f \in Seq(S)
  BY <1>1, IsASeq
<1>3. Len(f) = n
  BY <1>1, <1>2, LenProperties
<1>. QED BY <1>2, <1>3 DEF IsQueue

LEMMA QueueAppend ==
    ASSUME NEW q, IsQueue(q), NEW x
    PROVE  /\ IsQueue(Append(q, x)) /\ Len(Append(q, x)) = Len(q) + 1
           /\ \A i \in 1 .. Len(q) : Append(q, x)[i] = q[i]
           /\ Append(q, x)[Len(q) + 1] = x
           /\ ToSet(Append(q, x)) = ToSet(q) \cup {x}
<1>1. PICK S : q \in Seq(S)
  BY DEF IsQueue
<1>2. q \in Seq(S \cup {x}) /\ x \in S \cup {x}
  BY <1>1
<1>3. /\ Append(q, x) \in Seq(S \cup {x}) /\ Len(Append(q, x)) = Len(q) + 1
      /\ \A i \in 1 .. Len(q) : Append(q, x)[i] = q[i]
      /\ Append(q, x)[Len(q) + 1] = x
  BY <1>2, AppendProperties
<1>4. IsQueue(Append(q, x))
  BY <1>3 DEF IsQueue
<1>5. Len(q) \in Nat /\ DOMAIN q = 1 .. Len(q) /\ DOMAIN Append(q, x) = 1 .. Len(q) + 1
  BY <1>3, <1>4, QueueShape
<1>6. ToSet(Append(q, x)) = ToSet(q) \cup {x}
  BY <1>3, <1>5 DEF ToSet
<1>. QED BY <1>3, <1>4, <1>6

LEMMA QueueConcat ==
    ASSUME NEW q, NEW r, IsQueue(q), IsQueue(r)
    PROVE  /\ IsQueue(q \o r) /\ Len(q \o r) = Len(q) + Len(r)
           /\ \A i \in 1 .. Len(q) : (q \o r)[i] = q[i]
           /\ \A i \in 1 .. Len(r) : (q \o r)[Len(q) + i] = r[i]
           /\ \A i \in 1 .. Len(q) + Len(r) : i <= Len(q) \/ i - Len(q) \in 1 .. Len(r)
           /\ ToSet(q \o r) = ToSet(q) \cup ToSet(r)
<1>1. PICK S : q \in Seq(S)
  BY DEF IsQueue
<1>2. PICK T : r \in Seq(T)
  BY DEF IsQueue
<1>3. q \in Seq(S \cup T) /\ r \in Seq(S \cup T)
  BY <1>1, <1>2
<1>4. /\ q \o r \in Seq(S \cup T) /\ Len(q \o r) = Len(q) + Len(r)
      /\ \A i \in 1 .. Len(q) + Len(r) :
            (q \o r)[i] = IF i <= Len(q) THEN q[i] ELSE r[i - Len(q)]
  BY <1>3, ConcatProperties
<1>5. IsQueue(q \o r)
  BY <1>4 DEF IsQueue
<1>6. /\ Len(q) \in Nat /\ Len(r) \in Nat /\ DOMAIN q = 1 .. Len(q) /\ DOMAIN r = 1 .. Len(r)
      /\ DOMAIN (q \o r) = 1 .. Len(q) + Len(r)
  BY <1>4, <1>5, QueueShape
<1>7. \A i \in 1 .. Len(q) : (q \o r)[i] = q[i]
  BY <1>4, <1>6
<1>8. \A i \in 1 .. Len(r) : (q \o r)[Len(q) + i] = r[i]
  <2>1. \A i \in 1 .. Len(r) : /\ Len(q) + i \in 1 .. Len(q) + Len(r)
                               /\ ~ (Len(q) + i <= Len(q)) /\ (Len(q) + i) - Len(q) = i
    BY <1>6
  <2>. QED BY <2>1, <1>4
<1>9. \A i \in 1 .. Len(q) + Len(r) : i <= Len(q) \/ i - Len(q) \in 1 .. Len(r)
  BY <1>6
<1>10. ToSet(q \o r) = ToSet(q) \cup ToSet(r)
  <2>1. ASSUME NEW e \in ToSet(q \o r) PROVE e \in ToSet(q) \cup ToSet(r)
    <3>1. PICK i \in 1 .. Len(q) + Len(r) : e = (q \o r)[i]
      BY <1>6 DEF ToSet
    <3>2. CASE i <= Len(q)
      BY <1>6, <1>7, <3>1, <3>2 DEF ToSet
    <3>3. CASE ~ (i <= Len(q))
      BY <1>4, <1>6, <1>9, <3>1, <3>3 DEF ToSet
    <3>. QED BY <3>2, <3>3
  <2>2. \A i \in 1 .. Len(q) : q[i] \in ToSet(q \o r)
    BY <1>6, <1>7 DEF ToSet
  <2>3. \A i \in 1 .. Len(r) : r[i] \in ToSet(q \o r)
    <3>1. \A i \in 1 .. Len(r) : Len(q) + i \in DOMAIN (q \o r)
      BY <1>6
    <3>. QED BY <3>1, <1>8 DEF ToSet
  <2>. QED BY <1>6, <2>1, <2>2, <2>3 DEF ToSet
<1>. QED BY <1>4, <1>5, <1>7, <1>8, <1>9, <1>10

LEMMA QueueTail ==
    ASSUME NEW q, IsQueue(q), q # <<>>
    PROVE  /\ Len(q) >= 1 /\ Head(q) = q[1]
           /\ IsQueue(Tail(q)) /\ Len(Tail(q)) = Len(q) - 1
           /\ \A i \in 1 .. Len(q) - 1 : Tail(q)[i] = q[i + 1]
<1>1. PICK S : q \in Seq(S)
  BY DEF IsQueue
<1>2. /\ Head(q) = q[1] /\ Tail(q) \in Seq(S) /\ Len(Tail(q)) = Len(q) - 1
      /\ \A i \in 1 .. Len(Tail(q)) : Tail(q)[i] = q[i + 1]
  BY <1>1, HeadTailProperties
<1>3. Len(q) \in Nat /\ Len(q) # 0
  BY QueueShape
<1>. QED BY <1>2, <1>3 DEF IsQueue

LEMMA QueuePrefix ==
    ASSUME NEW q, IsQueue(q), NEW n \in 0 .. Len(q)
    PROVE  /\ IsQueue(SubSeq(q, 1, n)) /\ Len(SubSeq(q, 1, n)) = n
           /\ \A i \in 1 .. n : SubSeq(q, 1, n)[i] = q[i]
<1>1. PICK S : q \in Seq(S)
  BY DEF IsQueue
<1>2. Len(q) \in Nat
  BY QueueShape
<1>3. \A i \in 1 .. n : q[i] \in S
  BY <1>1, <1>2
<1>4. /\ SubSeq(q, 1, n) \in Seq(S) /\ Len(SubSeq(q, 1, n)) = n
      /\ \A i \in 1 .. n : SubSeq(q, 1, n)[i] = q[i]
  BY <1>1, <1>2, <1>3
<1>. QED BY <1>4 DEF IsQueue
-----------------------------------------------------------------------------
(* The elements of a queue that are in a set: they keep their order, and   *)
(* none is left out.                                                       *)

IsThose(f, q, S, n) ==
    f = [i \in 0 .. n |-> IF i = 0 THEN <<>>
                          ELSE IF q[i] \in S THEN Append(f[i - 1], q[i]) ELSE f[i - 1]]

LEMMA ThoseExists ==
    ASSUME NEW n \in Nat, NEW q, NEW S
    PROVE  \E f : IsThose(f, q, S, n)
<1>. DEFINE Good(m) == \E f : IsThose(f, q, S, m)
            Bad == {m \in 0 .. n : ~Good(m)}
<1>1. SUFFICES ASSUME Bad # {} PROVE FALSE
  <2>1. Bad = {} => \A m \in 0 .. n : Good(m)
    OBVIOUS
  <2>2. n \in 0 .. n
    OBVIOUS
  <2>3. Good(n) => \E f : IsThose(f, q, S, n)
    OBVIOUS
  <2>. HIDE DEF Good, Bad
  <2>. QED BY <2>1, <2>2, <2>3
<1>2. Bad \subseteq Nat
  OBVIOUS
<1>3. \E m \in Bad : \A k \in Bad : m <= k
  <2>. HIDE DEF Bad
  <2>. QED BY <1>1, <1>2, LeastElement
<1>4. PICK m \in Bad : \A k \in Bad : m <= k
  BY <1>3
<1>5. m # 0
  <2>1. IsThose([i \in {0} |-> <<>>], q, S, 0)
    BY DEF IsThose
  <2>. QED BY <2>1
<1>6. Good(m - 1)
  BY <1>4, <1>5
<1>7. PICK f : IsThose(f, q, S, m - 1)
  BY <1>6
<1>. DEFINE last == IF q[m] \in S THEN Append(f[m - 1], q[m]) ELSE f[m - 1]
            g == [i \in 0 .. m |-> IF i = m THEN last ELSE f[i]]
<1>8. IsThose(g, q, S, m)
  <2>1. \A i \in 0 .. (m - 1) :
            f[i] = IF i = 0 THEN <<>> ELSE IF q[i] \in S THEN Append(f[i - 1], q[i]) ELSE f[i - 1]
    BY <1>7 DEF IsThose
  <2>2. m \in Nat \ {0}
    BY <1>4, <1>5
  <2>. HIDE DEF last
  <2>3. ASSUME NEW i \in 0 .. m
        PROVE  g[i] = IF i = 0 THEN <<>>
                      ELSE IF q[i] \in S THEN Append(g[i - 1], q[i]) ELSE g[i - 1]
    <3>1. CASE i = m
      <4>1. g[m] = last /\ g[m - 1] = f[m - 1]
        BY <2>2
      <4>. QED BY <2>2, <3>1, <4>1 DEF last
    <3>2. CASE i = 0
      BY <2>1, <2>2, <3>2
    <3>3. CASE i # m /\ i # 0
      <4>1. i \in 0 .. (m - 1) /\ i - 1 \in 0 .. m /\ i - 1 # m
        BY <2>2, <3>3
      <4>2. g[i] = f[i] /\ g[i - 1] = f[i - 1]
        BY <3>3, <4>1
      <4>. QED BY <2>1, <3>3, <4>1, <4>2
    <3>. QED BY <3>1, <3>2, <3>3
  <2>4. g = [i \in 0 .. m |-> g[i]]
    OBVIOUS
  <2>. HIDE DEF g
  <2>. QED BY <2>3, <2>4 DEF IsThose
<1>9. Good(m)
  BY <1>8
<1>. QED BY <1>4, <1>9

(* r consists of the elements of q in S, where h says which they are. *)
Embeds(r, q, S, n, h) ==
    /\ h \in [1 .. Len(r) -> 1 .. n]
    /\ \A i, j \in 1 .. Len(r) : i < j => h[i] < h[j]
    /\ \A i \in 1 .. Len(r) : r[i] = q[h[i]] /\ r[i] \in S
    /\ \A k \in 1 .. n : q[k] \in S => \E i \in 1 .. Len(r) : h[i] = k

LEMMA EmbedsStep ==
    ASSUME NEW r, NEW q, NEW S, NEW n \in Nat, NEW h, IsQueue(r), Embeds(r, q, S, n, h),
           q[n + 1] \in S
    PROVE  \E g : Embeds(Append(r, q[n + 1]), q, S, n + 1, g)
<1>. DEFINE s == Append(r, q[n + 1])
            g == [i \in 1 .. Len(r) + 1 |-> IF i <= Len(r) THEN h[i] ELSE n + 1]
<1>1. /\ Len(r) \in Nat /\ Len(s) = Len(r) + 1 /\ s[Len(r) + 1] = q[n + 1]
      /\ \A i \in 1 .. Len(r) : s[i] = r[i]
  BY QueueShape, QueueAppend
<1>. HIDE DEF s
<1>2. h \in [1 .. Len(r) -> 1 .. n]
  BY DEF Embeds
<1>3. /\ g \in [1 .. Len(s) -> 1 .. (n + 1)] /\ g[Len(s)] = n + 1
      /\ \A i \in 1 .. Len(r) : g[i] = h[i] /\ h[i] <= n
  BY <1>1, <1>2
<1>. HIDE DEF g
<1>4. \A i \in 1 .. Len(s) : i \in 1 .. Len(r) \/ i = Len(s)
  BY <1>1
<1>5. \A i, j \in 1 .. Len(s) : i < j => g[i] < g[j]
  <2>1. ASSUME NEW i \in 1 .. Len(s), NEW j \in 1 .. Len(s), i < j PROVE g[i] < g[j]
    <3>1. i \in 1 .. Len(r)
      BY <1>1, <2>1
    <3>2. g[i] = h[i] /\ h[i] \in 1 .. n
      BY <1>2, <1>3, <3>1
    <3>3. CASE j = Len(s)
      BY <1>3, <3>2, <3>3
    <3>4. CASE j \in 1 .. Len(r)
      BY <1>3, <2>1, <3>1, <3>2, <3>4 DEF Embeds
    <3>. QED BY <1>4, <3>3, <3>4
  <2>. QED BY <2>1
<1>6. \A i \in 1 .. Len(s) : s[i] = q[g[i]] /\ s[i] \in S
  BY <1>1, <1>3, <1>4 DEF Embeds
<1>7. ASSUME NEW k \in 1 .. (n + 1), q[k] \in S PROVE \E i \in 1 .. Len(s) : g[i] = k
  <2>1. CASE k = n + 1
    <3>1. Len(s) \in 1 .. Len(s)
      BY <1>1
    <3>. QED BY <1>3, <2>1, <3>1
  <2>2. CASE k \in 1 .. n
    <3>1. PICK i \in 1 .. Len(r) : h[i] = k
      BY <1>7, <2>2 DEF Embeds
    <3>2. i \in 1 .. Len(s)
      BY <1>1
    <3>. QED BY <1>3, <3>1, <3>2
  <2>. QED BY <2>1, <2>2
<1>8. Embeds(s, q, S, n + 1, g)
  BY <1>3, <1>5, <1>6, <1>7 DEF Embeds
<1>. QED BY <1>8 DEF s

LEMMA ThoseEmbeds ==
    ASSUME NEW n \in Nat, NEW q, NEW S, NEW f, IsThose(f, q, S, n)
    PROVE  \A m \in 0 .. n : IsQueue(f[m]) /\ \E h : Embeds(f[m], q, S, m, h)
<1>. DEFINE Good(m) == IsQueue(f[m]) /\ \E h : Embeds(f[m], q, S, m, h)
            Bad == {m \in 0 .. n : ~Good(m)}
<1>1. SUFFICES ASSUME Bad # {} PROVE FALSE
  OBVIOUS
<1>2. Bad \subseteq Nat
  OBVIOUS
<1>3. \E m \in Bad : \A k \in Bad : m <= k
  <2>. HIDE DEF Bad
  <2>. QED BY <1>1, <1>2, LeastElement
<1>4. PICK m \in Bad : \A k \in Bad : m <= k
  BY <1>3
<1>5. \A i \in 0 .. n :
          f[i] = IF i = 0 THEN <<>> ELSE IF q[i] \in S THEN Append(f[i - 1], q[i]) ELSE f[i - 1]
  BY DEF IsThose
<1>6. m # 0
  <2>1. f[0] = <<>>
    BY <1>5
  <2>2. Embeds(<<>>, q, S, 0, <<>>)
    BY QueueEmpty DEF Embeds
  <2>. QED BY <2>1, <2>2, QueueEmpty
<1>7. Good(m - 1)
  BY <1>4, <1>6
<1>8. PICK h : Embeds(f[m - 1], q, S, m - 1, h)
  BY <1>7
<1>9. m - 1 \in Nat /\ (m - 1) + 1 = m /\ m \in 0 .. n /\ m \in 1 .. n
  BY <1>4, <1>6
<1>10. CASE q[m] \in S
  <2>1. f[m] = Append(f[m - 1], q[m]) /\ IsQueue(f[m])
    <3>. DEFINE r == f[m - 1]
                x == q[m]
    <3>1. m # 0 /\ m \in 0 .. n /\ IsQueue(r)
      BY <1>6, <1>7, <1>9
    <3>2. f[m] = Append(r, x)
      BY <1>5, <1>10, <3>1, Zenon
    <3>. HIDE DEF r, x
    <3>3. IsQueue(Append(r, x))
      BY <3>1, QueueAppend
    <3>4. f[m] = Append(r, x) /\ IsQueue(f[m])
      BY <3>2, <3>3
    <3>. QED BY <3>4 DEF r, x
  <2>2. \E g : Embeds(Append(f[m - 1], q[(m - 1) + 1]), q, S, (m - 1) + 1, g)
    BY <1>7, <1>8, <1>9, <1>10, EmbedsStep
  <2>. QED BY <1>4, <1>9, <2>1, <2>2
<1>11. CASE q[m] \notin S
  <2>1. f[m] = f[m - 1]
    BY <1>5, <1>9, <1>11
  <2>2. Embeds(f[m], q, S, m, h)
    <3>1. h \in [1 .. Len(f[m]) -> 1 .. (m - 1)]
      BY <1>8, <2>1 DEF Embeds
    <3>2. h \in [1 .. Len(f[m]) -> 1 .. m]
      BY <3>1, <1>9
    <3>3. \A k \in 1 .. m : q[k] \in S => k \in 1 .. (m - 1)
      BY <1>9, <1>11
    <3>. QED BY <1>8, <2>1, <3>2, <3>3 DEF Embeds
  <2>. QED BY <1>4, <1>7, <2>1, <2>2
<1>. QED BY <1>10, <1>11

LEMMA ThoseProperties ==
    ASSUME NEW q, IsQueue(q), NEW S
    PROVE  /\ IsQueue(Those(q, S))
           /\ \E h : Embeds(Those(q, S), q, S, Len(q), h)
<1>1. Len(q) \in Nat
  BY QueueShape
<1>. DEFINE f == CHOOSE g : IsThose(g, q, S, Len(q))
<1>2. IsThose(f, q, S, Len(q))
  BY <1>1, ThoseExists
<1>3. Those(q, S) = f[Len(q)]
  BY DEF Those, IsThose
<1>. HIDE DEF f
<1>. QED BY <1>1, <1>2, <1>3, ThoseEmbeds

(* A finite set as a queue: each of its elements once. *)
LEMMA SetAsQueue ==
    ASSUME NEW S, IsFiniteSet(S)
    PROVE  /\ IsQueue(SetToSeq(S)) /\ ToSet(SetToSeq(S)) = S
           /\ \A i, j \in 1 .. Len(SetToSeq(S)) : SetToSeq(S)[i] = SetToSeq(S)[j] => i = j
<1>. DEFINE n == Cardinality(S)
            f == SetToSeq(S)
<1>1. n \in Nat /\ ExistsBijection(1 .. n, S)
  BY FS_CardinalityType
<1>. HIDE DEF n
<1>2. PICK g : g \in Bijection(1 .. n, S)
  BY <1>1 DEF ExistsBijection
<1>3. g \in [1 .. n -> S] /\ IsInjective(g)
  BY <1>2 DEF Bijection, Injection, IsInjective
<1>4. f \in [1 .. n -> S] /\ IsInjective(f)
  BY <1>3 DEF SetToSeq, n
<1>. HIDE DEF f
<1>5. \A i, j \in 1 .. n : f[i] = f[j] => i = j
  BY <1>4 DEF IsInjective
<1>6. f \in Injection(1 .. n, S)
  BY <1>4, <1>5 DEF Injection
<1>7. Cardinality(1 .. n) = Cardinality(S)
  BY <1>1, FS_Interval DEF n
<1>8. f \in Surjection(1 .. n, S)
  BY <1>6, <1>7, FS_Injection
<1>9. \A e \in S : \E i \in 1 .. n : f[i] = e
  BY <1>8 DEF Surjection
<1>10. IsQueue(f) /\ Len(f) = n
  <2>1. f = [i \in 1 .. n |-> f[i]]
    BY <1>4
  <2>. QED BY <1>1, <2>1, QueueFunction
<1>11. DOMAIN f = 1 .. n
  BY <1>4
<1>12. ToSet(f) = S
  BY <1>4, <1>9, <1>11 DEF ToSet
<1>. QED BY <1>5, <1>10, <1>12 DEF f
-----------------------------------------------------------------------------
(* Where the main thread can be with what. *)

Typed ==
    /\ IsQueue(pending) /\ IsQueue(processing) /\ IsQueue(executed) /\ IsQueue(replies)
    /\ IsQueue(requests) /\ IsQueue(answered) /\ IsQueue(todo)
    /\ admin \in Nat /\ batches \in Nat /\ asked \in Nat /\ seen \in Nat
    /\ IsFiniteSet(responses)

Places ==
    /\ todo # <<>> => pc \in {"approve", "match", "consume", "finish"}
    /\ checked => todo # <<>>
    /\ pc \in {"cycle", "rejecting", "approve", "deactivate", "finish"} => processing = <<>>
    /\ pc \in {"rejecting", "forecast"} => seen <= Len(requests)

(* Numbers of batches grow along the queues, from those that were taken    *)
(* for execution to those that are pending.                                *)
Taken(t) == t \in Nat /\ t <= batches /\ \A b \in ToSet(pending) : t < b.t
Ordered(queue) == \A i, j \in 1 .. Len(queue) : i < j => queue[i].t < queue[j].t

Numbered ==
    /\ \A b \in ToSet(pending) : b.t \in Nat /\ b.t <= batches
    /\ Ordered(pending) /\ Ordered(processing)
    /\ \A b \in ToSet(processing) : Taken(b.t)
    /\ \A e \in ToSet(executed) : Taken(e.t)
    /\ \A r \in ToSet(replies) : Taken(r.t)

(* What was executed is no longer in the batch, and there is at most one   *)
(* response for it, which is not a reply yet while the batch is there.     *)
Responding ==
    /\ \A e \in ToSet(executed), b \in ToSet(processing) :
           e.t = b.t => e.from = b.from /\ e.area \notin DOMAIN b.commands
    /\ \A r \in responses : \E b \in ToSet(processing) : b.t = r.t /\ b.from = r.to
    /\ \A r, s \in responses : r.t = s.t => r = s
    /\ \A r \in ToSet(replies), b \in ToSet(processing) : r.t # b.t

(* Requests have growing numbers, and what was answered came before what   *)
(* waits, forecasts and other requests apart.                              *)
Rising(queue) == \A i, j \in 1 .. Len(queue) : i < j => queue[i].id < queue[j].id
Waiting ==
    /\ \A q \in ToSet(requests) : q.id \in Nat /\ q.id <= asked
    /\ Rising(requests)
    /\ \A k \in ToSet(answered) : k[1] \in Nat /\ k[1] <= asked
    /\ \A k \in ToSet(answered), q \in ToSet(requests) : k[2] = IsForecast(q) => k[1] < q.id

(* What holds before any message, and what one message about aggregators   *)
(* or registrations cannot break.                                          *)
Unused ==
    /\ batches = 0 => pending = <<>> /\ processing = <<>>
    /\ asked = 0 => requests = <<>>
Undisturbed ==
    /\ admin = 0 => DOMAIN device_of = {} /\ ~ connected /\ ~ registered["asset"] /\ ~ checked
    /\ admin <= 1 =>
           /\ \A x \in DOMAIN device_of : device_of[x] \in DOMAIN devices
           /\ checked => IsControlled(Head(todo).area)
           /\ connected => registered["asset"]
           /\ (pc \notin {"cycle", "rejecting", "failed"} /\ ShouldUseDefaultStrategy) => priced
-----------------------------------------------------------------------------
(* Types. *)

(* The values of a function on a finite set are finitely many. *)
LEMMA FiniteImage ==
    ASSUME NEW S, IsFiniteSet(S), NEW f, f = [x \in S |-> f[x]]
    PROVE  IsFiniteSet({f[x] : x \in S})
<1>. DEFINE T == {f[x] : x \in S}
<1>1. f \in [S -> T]
  OBVIOUS
<1>2. \A y \in T : \E x \in S : f[x] = y
  OBVIOUS
<1>. HIDE DEF T
<1>3. f \in Surjection(S, T)
  BY <1>1, <1>2 DEF Surjection
<1>4. IsFiniteSet(T)
  BY <1>3, FS_Surjection
<1>. QED BY <1>4 DEF T

LEMMA QueueFinite ==
    ASSUME NEW q, IsQueue(q)
    PROVE  IsFiniteSet(ToSet(q))
<1>1. Len(q) \in Nat /\ DOMAIN q = 1 .. Len(q)
  BY QueueShape
<1>2. IsFiniteSet(1 .. Len(q))
  BY <1>1, FS_Interval
<1>3. PICK S : q \in Seq(S)
  BY DEF IsQueue
<1>4. q = [i \in 1 .. Len(q) |-> q[i]]
  BY <1>1, <1>3
<1>5. IsFiniteSet({q[i] : i \in 1 .. Len(q)})
  BY <1>2, <1>4, FiniteImage
<1>. QED BY <1>1, <1>5 DEF ToSet

LEMMA ConsumedShape ==
    ASSUME IsQueue(processing), NEW area
    PROVE  /\ IsQueue(Consumed(area))
           /\ \A b \in ToSet(Consumed(area)) :
                  b \in ToSet(processing) /\ area \in DOMAIN b.commands
           /\ \A b \in ToSet(processing) :
                  area \in DOMAIN b.commands => b \in ToSet(Consumed(area))
           /\ Ordered(processing) => Ordered(Consumed(area))
<1>. DEFINE S == {b \in ToSet(processing) : area \in DOMAIN b.commands}
            C == Those(processing, S)
<1>1. Consumed(area) = C
  BY DEF Consumed
<1>2. \A b : b \in S <=> b \in ToSet(processing) /\ area \in DOMAIN b.commands
  OBVIOUS
<1>. HIDE DEF S
<1>3. IsQueue(C) /\ \E h : Embeds(C, processing, S, Len(processing), h)
  BY ThoseProperties
<1>4. PICK h : Embeds(C, processing, S, Len(processing), h)
  BY <1>3
<1>. HIDE DEF C
<1>5. /\ Len(C) \in Nat /\ \A b \in ToSet(C) : \E i \in 1 .. Len(C) : b = C[i]
      /\ \A i \in 1 .. Len(C) : C[i] \in ToSet(C)
  BY <1>3, QueueShape
<1>6. \A b \in ToSet(C) : b \in S
  BY <1>4, <1>5 DEF Embeds
<1>7. ASSUME NEW b \in S PROVE b \in ToSet(C)
  <2>1. PICK k \in 1 .. Len(processing) : b = processing[k]
    BY <1>2, <1>7, QueueShape
  <2>2. PICK i \in 1 .. Len(C) : h[i] = k
    BY <1>4, <1>7, <2>1 DEF Embeds
  <2>3. C[i] = b
    BY <1>4, <2>1, <2>2 DEF Embeds
  <2>. QED BY <1>5, <2>3
<1>8. ASSUME Ordered(processing) PROVE Ordered(C)
  <2>1. ASSUME NEW i \in 1 .. Len(C), NEW j \in 1 .. Len(C), i < j PROVE C[i].t < C[j].t
    <3>1. /\ h[i] < h[j] /\ C[i] = processing[h[i]] /\ C[j] = processing[h[j]]
          /\ h[i] \in 1 .. Len(processing) /\ h[j] \in 1 .. Len(processing)
      BY <1>4, <2>1 DEF Embeds
    <3>. QED BY <1>8, <3>1 DEF Ordered
  <2>. QED BY <2>1 DEF Ordered
<1>. QED BY <1>1, <1>2, <1>3, <1>6, <1>7, <1>8

LEMMA ResponsesFinite ==
    ASSUME Typed, NEW area
    PROVE  IsFiniteSet(Responses(area))
<1>. DEFINE C == ToSet(Consumed(area))
            Extended(r) == [t |-> r.t, to |-> r.to, areas |-> r.areas \cup {area}]
            Fresh(b) == [t |-> b.t, to |-> b.from, areas |-> {area}]
            R1 == {x \in responses : \E b \in C : b.t = x.t}
            R2 == {x \in C : \A r \in responses : r.t # x.t}
            R3 == {r \in responses : \A b \in C : b.t # r.t}
            f1 == [r \in R1 |-> Extended(r)]
            f2 == [b \in R2 |-> Fresh(b)]
<1>1. IsFiniteSet(C) /\ IsFiniteSet(responses)
  BY ConsumedShape, QueueFinite DEF Typed
<1>2. IsFiniteSet(R1) /\ IsFiniteSet(R2) /\ IsFiniteSet(R3)
  <2>1. R1 \subseteq responses /\ R2 \subseteq C /\ R3 \subseteq responses
    OBVIOUS
  <2>. HIDE DEF R1, R2, R3, C
  <2>. QED BY <1>1, <2>1, FS_Subset
<1>3. Responses(area) = {Extended(r) : r \in R1} \cup {Fresh(b) : b \in R2} \cup R3
  BY DEF Responses
<1>4. {Extended(r) : r \in R1} = {f1[x] : x \in R1} /\ {Fresh(b) : b \in R2} = {f2[x] : x \in R2}
  <2>. HIDE DEF R1, R2, Extended, Fresh
  <2>. QED OBVIOUS
<1>5. f1 = [x \in R1 |-> f1[x]] /\ f2 = [x \in R2 |-> f2[x]]
  <2>. HIDE DEF R1, R2, Extended, Fresh
  <2>. QED OBVIOUS
<1>. HIDE DEF R1, R2, R3, f1, f2, Extended, Fresh
<1>6. IsFiniteSet({f1[x] : x \in R1}) /\ IsFiniteSet({f2[x] : x \in R2})
  BY <1>2, <1>5, FiniteImage
<1>7. IsFiniteSet({f1[x] : x \in R1} \cup {f2[x] : x \in R2})
  BY <1>6, FS_Union
<1>8. IsFiniteSet(({f1[x] : x \in R1} \cup {f2[x] : x \in R2}) \cup R3)
  BY <1>2, <1>7, FS_Union
<1>. QED BY <1>3, <1>4, <1>8

LEMMA TypedInit == Init => Typed /\ Places
BY QueueEmpty, FS_EmptySet DEF Init, Typed, Places

LEMMA EventShape ==
    ASSUME NEW area, NEW type
    PROVE  /\ IsQueue(Event(area, type)) /\ Event(area, type) # <<>>
           /\ Head(Event(area, type)).area = area
<1>. DEFINE e == [area |-> area, type |-> type]
<1>1. <<e>> \in Seq({e}) /\ <<e>> # <<>> /\ Head(<<e>>) = e
  OBVIOUS
<1>2. e.area = area
  OBVIOUS
<1>. QED BY <1>1, <1>2 DEF Event, IsQueue

LEMMA AnswersShape ==
    ASSUME NEW q, IsQueue(q)
    PROVE  /\ IsQueue(Answers(q)) /\ Len(Answers(q)) = Len(q)
           /\ \A i \in 1 .. Len(q) : Answers(q)[i] = <<q[i].id, IsForecast(q[i])>>
<1>1. Len(q) \in Nat
  BY QueueShape
<1>2. /\ Answers(q) = [i \in 1 .. Len(q) |-> Answers(q)[i]]
      /\ \A i \in 1 .. Len(q) : Answers(q)[i] = <<q[i].id, IsForecast(q[i])>>
  BY DEF Answers, IsForecast
<1>. QED BY <1>1, <1>2, QueueFunction

LEMMA SingleShape ==
    ASSUME NEW x
    PROVE  IsQueue(<<x>>) /\ Len(<<x>>) = 1 /\ <<x>>[1] = x /\ ToSet(<<x>>) = {x}
<1>1. <<x>> \in Seq({x}) /\ Len(<<x>>) = 1 /\ <<x>>[1] = x /\ DOMAIN <<x>> = {1}
  OBVIOUS
<1>. QED BY <1>1 DEF IsQueue, ToSet

(* What a message changes. *)
LEMMA RedisTyped ==
    ASSUME Typed, Places, RedisThread
    PROVE  Typed' /\ Places'
<1>1. /\ admin' \in Nat /\ batches' \in Nat /\ asked' \in Nat
      /\ IsQueue(pending') /\ IsQueue(requests')
      /\ Len(requests') >= Len(requests)
  <2>1. CASE AggregatorCallback
    BY <2>1, QueueShape DEF AggregatorCallback, Typed
  <2>2. CASE ReceiveBatchCommands
    BY <2>2, QueueAppend, QueueShape DEF ReceiveBatchCommands, Typed
  <2>3. CASE ChangeRegistration
    BY <2>3, QueueShape DEF ChangeRegistration, Typed
  <2>4. CASE IncomingClientRequest
    <3>1. \E c : requests' = Append(requests, c) \/ requests' = requests
      BY <2>4 DEF IncomingClientRequest
    <3>2. IsQueue(requests) /\ Len(requests) \in Nat
      BY QueueShape DEF Typed
    <3>3. PICK c : requests' = Append(requests, c) \/ requests' = requests
      BY <3>1
    <3>4. ASSUME requests' = Append(requests, c)
          PROVE  IsQueue(requests') /\ Len(requests') >= Len(requests)
      <4>1. IsQueue(Append(requests, c)) /\ Len(Append(requests, c)) = Len(requests) + 1
        BY <3>2, QueueAppend
      <4>2. IsQueue(requests') /\ Len(requests') = Len(requests) + 1
        BY <3>4, <4>1, Zenon
      <4>. QED BY <3>2, <4>2
    <3>5. IsQueue(requests') /\ Len(requests') >= Len(requests)
      BY <3>2, <3>3, <3>4
    <3>. QED BY <2>4, <3>5 DEF IncomingClientRequest, Typed
  <2>. QED BY <2>1, <2>2, <2>3, <2>4 DEF RedisThread
<1>2. UNCHANGED <<processing, executed, replies, answered, todo, seen, responses, pc, checked>>
  BY DEF RedisThread, buffers
<1>3. Len(requests) \in Nat /\ Len(requests') \in Nat
  BY <1>1, QueueShape DEF Typed
<1>. QED BY <1>1, <1>2, <1>3 DEF Typed, Places

(* Publishing what there is. *)
LEMMA PublishTyped ==
    ASSUME Typed, NEW next, Publish(next)
    PROVE  /\ IsQueue(replies') /\ processing' = <<>> /\ responses' = {}
           /\ IsQueue(processing') /\ IsFiniteSet(responses')
<1>1. IsQueue(SetToSeq(responses))
  BY SetAsQueue DEF Typed
<1>2. IsQueue(replies \o SetToSeq(responses))
  BY <1>1, QueueConcat DEF Typed
<1>. QED BY <1>2, QueueEmpty, FS_EmptySet DEF Publish, ClearResponses

(* Commands of an area: what is left of the batches, and what was done. *)
LEMMA ConsumeTyped ==
    ASSUME Typed, NEW area, NEW next, ConsumeArea(area, next)
    PROVE  /\ IsQueue(processing') /\ Len(processing') = Len(processing)
           /\ \A i \in 1 .. Len(processing) : processing'[i] = Pop(processing[i], area)
           /\ IsQueue(executed') /\ IsFiniteSet(responses')
<1>1. Len(processing) \in Nat /\ DOMAIN processing = 1 .. Len(processing)
  BY QueueShape DEF Typed
<1>2. processing' = [i \in 1 .. Len(processing) |-> Pop(processing[i], area)]
  BY <1>1 DEF ConsumeArea
<1>3. /\ IsQueue(processing') /\ Len(processing') = Len(processing)
      /\ \A i \in 1 .. Len(processing) : processing'[i] = Pop(processing[i], area)
  <2>1. processing' = [i \in 1 .. Len(processing) |-> processing'[i]]
    BY <1>2
  <2>. QED BY <1>1, <1>2, <2>1, QueueFunction
<1>. DEFINE C == Consumed(area)
            done == [i \in 1 .. Len(C) |-> [t |-> C[i].t, from |-> C[i].from, area |-> area]]
<1>4. Len(C) \in Nat
  BY ConsumedShape, QueueShape DEF Typed
<1>5. IsQueue(done)
  <2>1. done = [i \in 1 .. Len(C) |-> done[i]]
    OBVIOUS
  <2>. HIDE DEF done
  <2>. QED BY <1>4, <2>1, QueueFunction
<1>6. executed' = executed \o done
  BY DEF ConsumeArea
<1>. HIDE DEF done
<1>7. IsQueue(executed')
  BY <1>5, <1>6, QueueConcat DEF Typed
<1>8. IsFiniteSet(responses')
  BY ResponsesFinite DEF ConsumeArea
<1>. QED BY <1>3, <1>7, <1>8

LEMMA MainTyped ==
    ASSUME Typed, Places, Main
    PROVE  Typed' /\ Places'
<1>. USE DEF Goto, Fail, redis, clock, asset, buffers
<1>0. /\ Len(requests) \in Nat /\ Len(processing) \in Nat
      /\ processing = <<>> <=> Len(processing) = 0
  BY QueueShape DEF Typed
<1>1. CASE CheckControlled
  <2>1. todo # <<>> => IsQueue(Tail(todo))
    BY QueueTail DEF Typed
  <2>. QED BY <1>1, <2>1 DEF CheckControlled, Typed, Places
<1>2. CASE AddBatchEvent
  <2>1. todo # <<>> => IsQueue(Tail(todo))
    BY QueueTail DEF Typed
  <2>2. IsQueue(todo')
    BY <1>2, <2>1, QueueEmpty DEF AddBatchEvent, Typed
  <2>3. Typed'
    BY <1>2, <2>2 DEF AddBatchEvent, Typed
  <2>4. Places'
    BY <1>2 DEF AddBatchEvent, Places
  <2>. QED BY <2>3, <2>4
<1>3. CASE StartCycle
  BY <1>0, <1>3 DEF StartCycle, Typed, Places
<1>4. CASE RejectFails
  BY <1>4 DEF RejectFails, Typed, Places
<1>5. CASE EventMarketCycle
  <2>1. /\ todo' = (IF slot > 0 THEN Event("grid", "market") ELSE <<>>) \o Event("asset", "market")
        /\ IsQueue(IF slot > 0 THEN Event("grid", "market") ELSE <<>>)
    BY <1>5, QueueEmpty, EventShape DEF EventMarketCycle
  <2>2. IsQueue(todo') /\ todo' # <<>>
    <3>1. Len(Event("asset", "market")) >= 1
      BY EventShape, QueueShape
    <3>2. IsQueue(todo') /\ Len(todo') >= 1
      BY <2>1, <3>1, EventShape, QueueConcat, QueueShape
    <3>. QED BY <3>2, QueueEmpty
  <2>3. IsQueue(answered')
    <3>1. seen \in 0 .. Len(requests)
      BY <1>0, <1>5 DEF EventMarketCycle, Typed, Places
    <3>2. IsQueue(Answers(SubSeq(requests, 1, seen)))
      BY <3>1, QueuePrefix, AnswersShape DEF Typed
    <3>. QED BY <1>5, <3>2, QueueConcat DEF EventMarketCycle, Typed
  <2>4. Typed'
    BY <1>5, <2>2, <2>3, QueueEmpty DEF EventMarketCycle, Typed
  <2>5. Places'
    BY <1>5, <2>2 DEF EventMarketCycle, Places
  <2>. QED BY <2>4, <2>5
<1>6. CASE ApproveBatchCommands
  BY <1>0, <1>6, QueueEmpty DEF ApproveBatchCommands, Approve, Typed, Places
<1>7. CASE ForecastTickFails
  BY <1>7 DEF ForecastTickFails, Typed, Places
<1>8. CASE ForecastTick
  <2>. DEFINE queue == SubSeq(requests, 1, seen)
              handled == Those(queue, ForecastsIn(queue))
  <2>1. seen \in 0 .. Len(requests)
    BY <1>0, <1>8 DEF ForecastTick, Typed, Places
  <2>2. IsQueue(queue)
    BY <2>1, QueuePrefix DEF Typed
  <2>3. answered' = answered \o Answers(handled)
    BY <1>8 DEF ForecastTick
  <2>. HIDE DEF queue
  <2>4. IsQueue(handled)
    BY <2>2, ThoseProperties
  <2>. HIDE DEF handled
  <2>5. IsQueue(answered')
    BY <2>3, <2>4, AnswersShape, QueueConcat DEF Typed
  <2>6. IsQueue(requests')
    BY <1>8, ThoseProperties DEF ForecastTick, Typed
  <2>. QED BY <1>8, <2>5, <2>6 DEF ForecastTick, Typed, Places
<1>9. CASE TemplateTick
  BY <1>9 DEF TemplateTick, Typed, Places
<1>10. CASE HandleRequest
  <2>1. IsQueue(requests') /\ requests' = Tail(requests)
    BY <1>10, QueueTail DEF HandleRequest, NextRequest, Typed
  <2>. DEFINE new == Answers(<<Head(requests)>>)
  <2>2. answered' = answered \/ answered' = answered \o new
    BY <1>10 DEF HandleRequest, NextRequest
  <2>a. IsQueue(new)
    BY SingleShape, AnswersShape
  <2>. HIDE DEF new
  <2>3. IsQueue(answered')
    BY <2>2, <2>a, QueueConcat DEF Typed
  <2>4. pc' \in {"failed", "requests"} /\ todo' = todo /\ pc = "requests"
    BY <1>10 DEF HandleRequest
  <2>. QED BY <1>10, <2>1, <2>3, <2>4 DEF HandleRequest, Typed, Places
<1>11. CASE RequestsHandled
  <2>1. IsQueue(todo')
    BY <1>11, QueueEmpty, EventShape DEF RequestsHandled
  <2>. QED BY <1>11, <2>1 DEF RequestsHandled, Typed, Places
<1>12. CASE MatchOrders
  <2>1. IsQueue(todo') /\ (todo' = <<>> \/ todo' = Event("asset", "trade"))
    BY <1>12, EventShape DEF MatchOrders, Typed
  <2>. QED BY <1>12, <2>1 DEF MatchOrders, Typed, Places
<1>13. CASE ConsumeGrid
  <2>1. /\ pc' = "consume_asset" /\ todo = <<>>
        /\ UNCHANGED <<redis, clock, asset, replies, todo, checked, requests, seen, answered>>
    BY <1>13 DEF ConsumeGrid, ConsumeArea
  <2>2. IsQueue(processing') /\ IsQueue(executed') /\ IsFiniteSet(responses')
    <3>1. ConsumeArea("grid", "consume_asset") \/ UNCHANGED <<processing, responses, executed>>
      BY <1>13 DEF ConsumeGrid
    <3>. QED BY <3>1, ConsumeTyped DEF Typed
  <2>. QED BY <2>1, <2>2 DEF Typed, Places
<1>14. CASE ConsumeAsset
  <2>1. /\ pc = "consume_asset" /\ pc' \in {"publish", "failed"}
        /\ UNCHANGED <<redis, clock, replies, todo, checked, requests, seen, answered>>
    BY <1>14 DEF ConsumeAsset, ConsumeArea
  <2>2. IsQueue(processing') /\ IsQueue(executed') /\ IsFiniteSet(responses')
    <3>1. ConsumeArea("asset", "publish") \/ UNCHANGED <<processing, responses, executed>>
      BY <1>14 DEF ConsumeAsset
    <3>. QED BY <3>1, ConsumeTyped DEF Typed
  <2>. QED BY <2>1, <2>2 DEF Typed, Places
<1>15. CASE NextTick
  <2>1. PICK next : Publish(next) /\ next \in {"approve", "cycle", "deactivate"}
    BY <1>15 DEF NextTick
  <2>2. pc = "publish" /\ pc' \in {"approve", "cycle", "deactivate"}
    BY <1>15, <2>1 DEF NextTick, Publish
  <2>3. /\ IsQueue(replies') /\ processing' = <<>>
        /\ IsQueue(processing') /\ IsFiniteSet(responses')
    BY <2>1, PublishTyped
  <2>. QED BY <1>15, <2>2, <2>3 DEF NextTick, Typed, Places
<1>16. CASE Deactivate
  <2>1. IsQueue(Event("grid", "finish")) /\ IsQueue(Event("asset", "finish"))
    BY EventShape
  <2>2. IsQueue(todo')
    BY <1>16, <2>1, QueueConcat DEF Deactivate
  <2>. QED BY <1>16, <2>2 DEF Deactivate, Typed, Places
<1>17. CASE Finish
  <2>1. /\ IsQueue(replies') /\ processing' = <<>>
        /\ IsQueue(processing') /\ IsFiniteSet(responses')
    BY <1>17, PublishTyped DEF Finish
  <2>2. pc = "finish" /\ pc' = "done" /\ todo = <<>>
    BY <1>17 DEF Finish, Publish
  <2>. QED BY <1>17, <2>1, <2>2 DEF Finish, Typed, Places
<1>. QED BY <1>1, <1>2, <1>3, <1>4, <1>5, <1>6, <1>7, <1>8, <1>9, <1>10, <1>11, <1>12, <1>13,
            <1>14, <1>15, <1>16, <1>17 DEF Main

LEMMA TypedStep ==
    ASSUME Typed, Places, [Next]_vars
    PROVE  Typed' /\ Places'
<1>1. CASE UNCHANGED vars
  BY <1>1 DEF vars, redis, clock, asset, buffers, Typed, Places
<1>. QED BY <1>1, RedisTyped, MainTyped DEF Next
-----------------------------------------------------------------------------
(* Commands and their answers.  Of all steps, four change a batch or what  *)
(* became of it.                                                           *)

Arrives == \E b : /\ b.t = batches + 1 /\ pending' = Append(pending, b) /\ batches' = batches + 1
                  /\ UNCHANGED <<processing, responses, executed, replies>>
IsTaken == /\ processing = <<>> /\ Approve
           /\ UNCHANGED <<responses, executed, replies, batches>>
IsConsumed == \E area, next : ConsumeArea(area, next) /\ UNCHANGED <<pending, replies, batches>>
IsPublished == \E next : Publish(next) /\ UNCHANGED <<pending, executed, batches>>
BatchesStand == UNCHANGED <<pending, processing, responses, executed, replies, batches>>

LEMMA BatchSteps ==
    ASSUME Places, [Next]_vars
    PROVE  Arrives \/ IsTaken \/ IsConsumed \/ IsPublished \/ BatchesStand
<1>. USE DEF redis, clock, asset, buffers, BatchesStand
<1>1. CASE UNCHANGED vars
  BY <1>1 DEF vars
<1>2. CASE RedisThread
  <2>1. CASE ReceiveBatchCommands
    <3>1. \E a, commands :
              pending' = Append(pending, [t |-> batches + 1, from |-> a, commands |-> commands])
      BY <2>1, Zenon DEF ReceiveBatchCommands
    <3>2. PICK a, commands :
              pending' = Append(pending, [t |-> batches + 1, from |-> a, commands |-> commands])
      BY <3>1
    <3>3. [t |-> batches + 1, from |-> a, commands |-> commands].t = batches + 1
      OBVIOUS
    <3>4. /\ batches' = batches + 1
          /\ UNCHANGED <<processing, responses, executed, replies>>
      BY <1>2, <2>1 DEF RedisThread, ReceiveBatchCommands
    <3>. QED BY <3>2, <3>3, <3>4, Zenon DEF Arrives
  <2>2. CASE AggregatorCallback \/ ChangeRegistration \/ IncomingClientRequest
    BY <1>2, <2>2 DEF RedisThread, AggregatorCallback, ChangeRegistration, IncomingClientRequest
  <2>. QED BY <1>2, <2>1, <2>2 DEF RedisThread
<1>3. CASE ApproveBatchCommands
  BY <1>3 DEF ApproveBatchCommands, Approve, IsTaken, Places
<1>4. CASE ConsumeGrid
  BY <1>4 DEF ConsumeGrid, IsConsumed
<1>5. CASE ConsumeAsset
  BY <1>5 DEF ConsumeAsset, IsConsumed
<1>6. CASE NextTick
  BY <1>6 DEF NextTick, IsPublished
<1>7. CASE Finish
  BY <1>7 DEF Finish, IsPublished
<1>8. CASE CheckControlled \/ AddBatchEvent
  BY <1>8 DEF CheckControlled, AddBatchEvent
<1>9. CASE StartCycle \/ RejectFails \/ EventMarketCycle
  BY <1>9 DEF StartCycle, RejectFails, EventMarketCycle
<1>10. CASE ForecastTickFails \/ ForecastTick \/ TemplateTick
  BY <1>10 DEF ForecastTickFails, ForecastTick, TemplateTick
<1>11. CASE HandleRequest \/ RequestsHandled \/ MatchOrders \/ Deactivate
  BY <1>11 DEF HandleRequest, RequestsHandled, MatchOrders, Deactivate
<1>. QED BY <1>1, <1>2, <1>3, <1>4, <1>5, <1>6, <1>7, <1>8, <1>9, <1>10, <1>11 DEF Next, Main

(* What ConsumeArea does to the sets of what is there. *)
Entries(area) == {[t |-> b.t, from |-> b.from, area |-> area] : b \in ToSet(Consumed(area))}

LEMMA ConsumeEffect ==
    ASSUME Typed, Numbered, Responding, NEW area, NEW next, ConsumeArea(area, next)
    PROVE  /\ \A b \in ToSet(processing') : \E c \in ToSet(processing) : b = Pop(c, area)
           /\ \A c \in ToSet(processing) : Pop(c, area) \in ToSet(processing')
           /\ Ordered(processing')
           /\ ToSet(executed') = ToSet(executed) \cup Entries(area)
           /\ (\A i, j \in DOMAIN executed : executed[i] = executed[j] => i = j)
              => (\A i, j \in DOMAIN executed' : executed'[i] = executed'[j] => i = j)
<1>1. /\ IsQueue(processing') /\ Len(processing') = Len(processing)
      /\ \A i \in 1 .. Len(processing) : processing'[i] = Pop(processing[i], area)
      /\ IsQueue(executed')
  BY ConsumeTyped
<1>2. IsQueue(processing)
  BY DEF Typed
<1>3. \A b \in ToSet(processing') : \E c \in ToSet(processing) : b = Pop(c, area)
  BY <1>1, <1>2, QueueShape
<1>4. \A c \in ToSet(processing) : Pop(c, area) \in ToSet(processing')
  BY <1>1, <1>2, QueueShape
<1>5. Ordered(processing')
  <2>1. \A c : Pop(c, area).t = c.t
    BY DEF Pop
  <2>2. \A i \in 1 .. Len(processing) : processing'[i].t = processing[i].t
    BY <1>1, <2>1
  <2>. QED BY <1>1, <2>2 DEF Numbered, Ordered
<1>. DEFINE C == Consumed(area)
            Record(b) == [t |-> b.t, from |-> b.from, area |-> area]
            done == [i \in 1 .. Len(C) |-> [t |-> C[i].t, from |-> C[i].from, area |-> area]]
<1>6. executed' = executed \o done
  BY DEF ConsumeArea
<1>7. /\ IsQueue(C) /\ Len(C) \in Nat /\ Ordered(C)
      /\ \A b \in ToSet(C) : b \in ToSet(processing) /\ area \in DOMAIN b.commands
      /\ \A i \in 1 .. Len(C) : C[i] \in ToSet(C)
      /\ \A b \in ToSet(C) : \E i \in 1 .. Len(C) : b = C[i]
  BY <1>2, ConsumedShape, QueueShape DEF Numbered
<1>8. \A i \in 1 .. Len(C) : done[i] = Record(C[i])
  OBVIOUS
<1>9. IsQueue(done) /\ Len(done) = Len(C) /\ DOMAIN done = 1 .. Len(C)
  <2>1. done = [i \in 1 .. Len(C) |-> done[i]]
    OBVIOUS
  <2>. HIDE DEF done
  <2>2. IsQueue(done) /\ Len(done) = Len(C)
    BY <1>7, <2>1, QueueFunction
  <2>. QED BY <2>2, QueueShape
<1>10. ToSet(done) = Entries(area)
  BY <1>7, <1>9 DEF ToSet, Entries
<1>. HIDE DEF done
<1>11. ToSet(executed') = ToSet(executed) \cup Entries(area)
  BY <1>6, <1>9, <1>10, QueueConcat DEF Typed
<1>12. ASSUME \A i, j \in DOMAIN executed : executed[i] = executed[j] => i = j,
              NEW i \in DOMAIN executed', NEW j \in DOMAIN executed', i < j
       PROVE  executed'[i] # executed'[j]
  <2>. DEFINE n == Len(executed)
              m == Len(C)
  <2>1. /\ n \in Nat /\ m \in Nat /\ DOMAIN executed = 1 .. n /\ DOMAIN executed' = 1 .. n + m
        /\ \A k \in 1 .. n : executed'[k] = executed[k] /\ executed[k] \in ToSet(executed)
        /\ \A k \in 1 .. m : executed'[n + k] = done[k]
        /\ \A k \in 1 .. n + m : k <= n \/ k - n \in 1 .. m
    <3>1. IsQueue(executed)
      BY DEF Typed
    <3>2. /\ n \in Nat /\ m \in Nat /\ DOMAIN executed = 1 .. n
          /\ \A k \in 1 .. n : executed[k] \in ToSet(executed)
          /\ DOMAIN executed' = 1 .. Len(executed')
      BY <1>1, <1>7, <3>1, QueueShape
    <3>3. /\ Len(executed') = n + m
          /\ \A k \in 1 .. n : executed'[k] = executed[k]
          /\ \A k \in 1 .. m : executed'[n + k] = done[k]
          /\ \A k \in 1 .. n + m : k <= n \/ k - n \in 1 .. m
      <4>1. /\ Len(executed \o done) = Len(executed) + Len(done)
            /\ \A k \in 1 .. Len(executed) : (executed \o done)[k] = executed[k]
            /\ \A k \in 1 .. Len(done) : (executed \o done)[Len(executed) + k] = done[k]
            /\ \A k \in 1 .. Len(executed) + Len(done) :
                   k <= Len(executed) \/ k - Len(executed) \in 1 .. Len(done)
        BY <1>9, <3>1, QueueConcat
      <4>2. Len(done) = m
        BY <1>9
      <4>. QED BY <1>6, <4>1, <4>2
    <3>. QED BY <3>2, <3>3
  <2>. HIDE DEF n, m
  <2>2. CASE j <= n
    BY <1>12, <2>1, <2>2
  <2>3. CASE i <= n /\ ~ (j <= n)
    <3>. DEFINE k == j - n
    <3>1. k \in 1 .. m /\ n + k = j /\ i \in 1 .. n
      BY <1>12, <2>1, <2>3
    <3>. HIDE DEF k
    <3>2. C[k] \in ToSet(processing) /\ area \in DOMAIN C[k].commands /\ executed'[j] = Record(C[k])
      BY <1>7, <1>8, <2>1, <3>1 DEF m
    <3>3. executed[i] \in ToSet(executed) /\ executed'[i] = executed[i]
      BY <2>1, <3>1
    <3>4. SUFFICES ASSUME executed[i] = Record(C[k]) PROVE FALSE
      BY <3>2, <3>3
    <3>5. executed[i].t = C[k].t /\ executed[i].area = area
      BY <3>4
    <3>. QED BY <3>2, <3>3, <3>5 DEF Responding
  <2>4. CASE ~ (i <= n)
    <3>. DEFINE k == i - n
                l == j - n
    <3>1. k \in 1 .. m /\ l \in 1 .. m /\ n + k = i /\ n + l = j /\ k < l
      BY <1>12, <2>1, <2>4
    <3>. HIDE DEF k, l
    <3>2. executed'[i] = Record(C[k]) /\ executed'[j] = Record(C[l])
      BY <1>8, <2>1, <3>1 DEF m
    <3>3. C[k].t < C[l].t
      BY <1>7, <3>1 DEF Ordered, m
    <3>4. C[k].t \in Nat /\ C[l].t \in Nat
      BY <1>7, <3>1 DEF Numbered, Taken, m
    <3>5. Record(C[k]).t = C[k].t /\ Record(C[l]).t = C[l].t
      OBVIOUS
    <3>. QED BY <3>2, <3>3, <3>4, <3>5
  <2>. QED BY <2>2, <2>3, <2>4
<1>13. ASSUME \A i, j \in DOMAIN executed : executed[i] = executed[j] => i = j,
              NEW i \in DOMAIN executed', NEW j \in DOMAIN executed', executed'[i] = executed'[j]
       PROVE  i = j
  <2>1. i \in Nat /\ j \in Nat
    BY <1>1, QueueShape
  <2>. QED BY <1>12, <1>13, <2>1
<1>. QED BY <1>3, <1>4, <1>5, <1>11, <1>13

(* What publishing does to the set of replies. *)
LEMMA PublishEffect ==
    ASSUME Typed, NEW next, Publish(next)
    PROVE  /\ processing' = <<>> /\ responses' = {}
           /\ ToSet(replies') = ToSet(replies) \cup responses
<1>1. IsQueue(SetToSeq(responses)) /\ ToSet(SetToSeq(responses)) = responses
  BY SetAsQueue DEF Typed
<1>. QED BY <1>1, QueueConcat DEF Typed, Publish, ClearResponses

LEMMA TakenOn ==
    ASSUME Arrives, Typed, NEW t, Taken(t)
    PROVE  Taken(t)'
<1>1. PICK b : b.t = batches + 1 /\ pending' = Append(pending, b) /\ batches' = batches + 1
  BY DEF Arrives
<1>2. ToSet(pending') = ToSet(pending) \cup {b}
  BY <1>1, QueueAppend DEF Typed
<1>. QED BY <1>1, <1>2 DEF Taken, Typed

LEMMA NumberedStep ==
    ASSUME Typed, Places, Numbered, Responding, [Next]_vars
    PROVE  Numbered'
<1>1. CASE BatchesStand
  BY <1>1 DEF BatchesStand, Numbered, Taken, Ordered
<1>2. CASE Arrives
  <2>1. PICK b : b.t = batches + 1 /\ pending' = Append(pending, b) /\ batches' = batches + 1
    BY <1>2 DEF Arrives
  <2>2. /\ ToSet(pending') = ToSet(pending) \cup {b} /\ Len(pending') = Len(pending) + 1
        /\ \A i \in 1 .. Len(pending) : pending'[i] = pending[i] /\ pending[i] \in ToSet(pending)
        /\ pending'[Len(pending) + 1] = b /\ Len(pending) \in Nat
    BY <2>1, QueueAppend, QueueShape DEF Typed
  <2>3. Ordered(pending')
    <3>1. ASSUME NEW i \in 1 .. Len(pending'), NEW j \in 1 .. Len(pending'), i < j
          PROVE  pending'[i].t < pending'[j].t
      <4>1. i \in 1 .. Len(pending) /\ pending'[i] = pending[i] /\ pending[i] \in ToSet(pending)
        BY <2>2, <3>1
      <4>2. CASE j = Len(pending) + 1
        BY <2>1, <2>2, <4>1, <4>2 DEF Numbered, Typed
      <4>3. CASE j \in 1 .. Len(pending)
        BY <2>2, <3>1, <4>1, <4>3 DEF Numbered, Ordered
      <4>. QED BY <2>2, <4>2, <4>3
    <3>. QED BY <3>1 DEF Ordered
  <2>4. \A c \in ToSet(pending') : c.t \in Nat /\ c.t <= batches'
    BY <2>1, <2>2 DEF Numbered, Typed
  <2>5. UNCHANGED <<processing, executed, replies>>
    BY <1>2 DEF Arrives
  <2>6. /\ \A c \in ToSet(processing') : Taken(c.t)'
        /\ \A e \in ToSet(executed') : Taken(e.t)'
        /\ \A r \in ToSet(replies') : Taken(r.t)'
    BY <1>2, <2>5, TakenOn DEF Numbered
  <2>. QED BY <2>3, <2>4, <2>5, <2>6 DEF Numbered, Ordered
<1>3. CASE IsTaken
  <2>1. /\ processing' = pending /\ pending' = <<>> /\ ToSet(pending') = {}
        /\ UNCHANGED <<executed, replies, batches>> /\ Len(pending') = 0
    BY <1>3, QueueEmpty DEF IsTaken, Approve
  <2>2. Ordered(pending') /\ Ordered(processing')
    BY <2>1 DEF Numbered, Ordered
  <2>. QED BY <2>1, <2>2 DEF Numbered, Taken
<1>4. CASE IsConsumed
  <2>1. PICK area, next : ConsumeArea(area, next) /\ UNCHANGED <<pending, replies, batches>>
    BY <1>4 DEF IsConsumed
  <2>2. /\ \A b \in ToSet(processing') : \E c \in ToSet(processing) : b = Pop(c, area)
        /\ Ordered(processing')
        /\ ToSet(executed') = ToSet(executed) \cup Entries(area)
    BY <2>1, ConsumeEffect
  <2>3. \A t : Taken(t)' = Taken(t)
    BY <2>1 DEF Taken
  <2>4. \A b \in ToSet(processing') : Taken(b.t)
    <3>1. \A c : Pop(c, area).t = c.t
      BY DEF Pop
    <3>. QED BY <2>2, <3>1 DEF Numbered
  <2>5. \A e \in ToSet(executed') : Taken(e.t)
    <3>1. \A e \in Entries(area) : \E b \in ToSet(processing) : e.t = b.t
      BY ConsumedShape DEF Entries, Typed
    <3>. QED BY <2>2, <3>1 DEF Numbered
  <2>6. Ordered(pending')
    BY <2>1 DEF Numbered, Ordered
  <2>. QED BY <2>1, <2>2, <2>3, <2>4, <2>5, <2>6 DEF Numbered
<1>5. CASE IsPublished
  <2>1. PICK next : Publish(next) /\ UNCHANGED <<pending, executed, batches>>
    BY <1>5 DEF IsPublished
  <2>2. processing' = <<>> /\ ToSet(replies') = ToSet(replies) \cup responses
    BY <2>1, PublishEffect
  <2>3. \A t : Taken(t)' = Taken(t)
    BY <2>1 DEF Taken
  <2>4. \A r \in responses : Taken(r.t)
    BY DEF Responding, Numbered
  <2>5. Ordered(processing') /\ Ordered(pending') /\ ToSet(processing') = {}
    BY <2>1, <2>2, QueueEmpty DEF Numbered, Ordered
  <2>. QED BY <2>1, <2>2, <2>3, <2>4, <2>5 DEF Numbered
<1>. QED BY <1>1, <1>2, <1>3, <1>4, <1>5, BatchSteps

LEMMA RespondingStep ==
    ASSUME Typed, Places, Numbered, Responding, [Next]_vars
    PROVE  Responding'
<1>1. CASE BatchesStand \/ Arrives
  BY <1>1 DEF BatchesStand, Arrives, Responding
<1>2. CASE IsTaken
  <2>1. /\ processing' = pending /\ ToSet(processing) = {}
        /\ UNCHANGED <<responses, executed, replies>>
    BY <1>2, QueueEmpty DEF IsTaken, Approve
  <2>2. /\ \A e \in ToSet(executed), b \in ToSet(pending) : e.t # b.t
        /\ \A r \in ToSet(replies), b \in ToSet(pending) : r.t # b.t
    BY DEF Numbered, Taken
  <2>. QED BY <2>1, <2>2 DEF Responding
<1>3. CASE IsPublished
  <2>1. PICK next : Publish(next)
    BY <1>3 DEF IsPublished
  <2>2. ToSet(processing') = {} /\ responses' = {}
    BY <2>1, PublishEffect, QueueEmpty
  <2>. QED BY <2>2 DEF Responding
<1>4. CASE IsConsumed
  <2>1. PICK area, next : ConsumeArea(area, next) /\ UNCHANGED <<pending, replies, batches>>
    BY <1>4 DEF IsConsumed
  <2>2. /\ \A b \in ToSet(processing') : \E c \in ToSet(processing) : b = Pop(c, area)
        /\ \A c \in ToSet(processing) : Pop(c, area) \in ToSet(processing')
        /\ ToSet(executed') = ToSet(executed) \cup Entries(area)
    BY <2>1, ConsumeEffect
  <2>3. \A c : /\ Pop(c, area).t = c.t /\ Pop(c, area).from = c.from
               /\ DOMAIN Pop(c, area).commands = DOMAIN c.commands \ {area}
    BY DEF Pop
  <2>4. \A c, d \in ToSet(processing) : c.t = d.t => c = d
    <3>1. ASSUME NEW c \in ToSet(processing), NEW d \in ToSet(processing), c.t = d.t PROVE c = d
      <4>1. PICK i \in 1 .. Len(processing), j \in 1 .. Len(processing) :
                c = processing[i] /\ d = processing[j]
        BY QueueShape DEF Typed
      <4>2. c.t \in Nat /\ d.t \in Nat
        BY DEF Numbered, Taken
      <4>. QED BY <3>1, <4>1, <4>2 DEF Numbered, Ordered
    <3>. QED BY <3>1
  <2>. DEFINE C == ToSet(Consumed(area))
  <2>5. \A b \in C : b \in ToSet(processing) /\ area \in DOMAIN b.commands
    BY ConsumedShape DEF Typed
  <2>6. responses' = Responses(area)
    BY <2>1 DEF ConsumeArea
  <2>7. \A e \in Entries(area) : \E b \in C : e.t = b.t /\ e.from = b.from /\ e.area = area
    BY DEF Entries
  <2>8. \A s \in responses' :
            \/ s \in responses /\ \A b \in C : b.t # s.t
            \/ \E r \in responses : s = [t |-> r.t, to |-> r.to, areas |-> r.areas \cup {area}]
                                    /\ \E b \in C : b.t = r.t
            \/ \E b \in C : s = [t |-> b.t, to |-> b.from, areas |-> {area}]
                            /\ \A r \in responses : r.t # b.t
    BY <2>6 DEF Responses
  <2>. HIDE DEF C
  <2>9. ASSUME NEW e \in ToSet(executed'), NEW b \in ToSet(processing'), e.t = b.t
        PROVE  e.from = b.from /\ e.area \notin DOMAIN b.commands
    <3>1. PICK c \in ToSet(processing) : b = Pop(c, area)
      BY <2>2
    <3>2. CASE e \in ToSet(executed)
      BY <2>3, <2>9, <3>1, <3>2 DEF Responding
    <3>3. CASE e \in Entries(area)
      <4>1. PICK d \in C : e.t = d.t /\ e.from = d.from /\ e.area = area
        BY <2>7, <3>3
      <4>2. d = c
        BY <2>3, <2>4, <2>5, <2>9, <3>1, <4>1
      <4>. QED BY <2>3, <3>1, <4>1, <4>2
    <3>. QED BY <2>2, <3>2, <3>3
  <2>10. ASSUME NEW s \in responses'
         PROVE  \E b \in ToSet(processing') : b.t = s.t /\ b.from = s.to
    <3>1. \E c \in ToSet(processing) : c.t = s.t /\ c.from = s.to
      <4>1. CASE s \in responses
        BY <4>1 DEF Responding
      <4>2. CASE \E r \in responses : s = [t |-> r.t, to |-> r.to, areas |-> r.areas \cup {area}]
        BY <4>2 DEF Responding
      <4>3. CASE \E b \in C : s = [t |-> b.t, to |-> b.from, areas |-> {area}]
        BY <2>5, <4>3
      <4>. QED BY <2>8, <4>1, <4>2, <4>3
    <3>. QED BY <2>2, <2>3, <3>1
  <2>11. ASSUME NEW r \in responses', NEW s \in responses', r.t = s.t PROVE r = s
    <3>. DEFINE Old(x) == x \in responses /\ \A b \in C : b.t # x.t
                Extended(x, y) == /\ x = [t |-> y.t, to |-> y.to, areas |-> y.areas \cup {area}]
                                  /\ \E b \in C : b.t = y.t
                Fresh(x, b) == /\ x = [t |-> b.t, to |-> b.from, areas |-> {area}]
                               /\ \A y \in responses : y.t # b.t
    <3>1. /\ Old(r) \/ (\E y \in responses : Extended(r, y)) \/ (\E b \in C : Fresh(r, b))
          /\ Old(s) \/ (\E y \in responses : Extended(s, y)) \/ (\E b \in C : Fresh(s, b))
      BY <2>8
    <3>2. \A x, y : Extended(x, y) => x.t = y.t
      OBVIOUS
    <3>3. \A x, b : Fresh(x, b) => x.t = b.t
      OBVIOUS
    <3>4. CASE Old(r)
      <4>1. CASE Old(s)
        BY <2>11, <3>4, <4>1 DEF Responding
      <4>2. CASE \E y \in responses : Extended(s, y)
        BY <2>11, <3>2, <3>4, <4>2
      <4>3. CASE \E b \in C : Fresh(s, b)
        BY <2>11, <3>3, <3>4, <4>3
      <4>. QED BY <3>1, <4>1, <4>2, <4>3
    <3>5. CASE \E y \in responses : Extended(r, y)
      <4>0. PICK y \in responses : Extended(r, y)
        BY <3>5
      <4>1. CASE Old(s)
        BY <2>11, <3>2, <4>0, <4>1
      <4>2. CASE \E z \in responses : Extended(s, z)
        <5>1. PICK z \in responses : Extended(s, z)
          BY <4>2
        <5>2. y = z
          BY <2>11, <3>2, <4>0, <5>1 DEF Responding
        <5>. QED BY <4>0, <5>1, <5>2
      <4>3. CASE \E b \in C : Fresh(s, b)
        BY <2>11, <3>2, <3>3, <4>0, <4>3
      <4>. QED BY <3>1, <4>1, <4>2, <4>3
    <3>6. CASE \E b \in C : Fresh(r, b)
      <4>0. PICK b \in C : Fresh(r, b)
        BY <3>6
      <4>1. CASE Old(s)
        BY <2>11, <3>3, <4>0, <4>1
      <4>2. CASE \E z \in responses : Extended(s, z)
        BY <2>11, <3>2, <3>3, <4>0, <4>2
      <4>3. CASE \E c \in C : Fresh(s, c)
        <5>1. PICK c \in C : Fresh(s, c)
          BY <4>3
        <5>2. b = c
          BY <2>4, <2>5, <2>11, <3>3, <4>0, <5>1
        <5>. QED BY <4>0, <5>1, <5>2
      <4>. QED BY <3>1, <4>1, <4>2, <4>3
    <3>. QED BY <3>1, <3>4, <3>5, <3>6
  <2>12. \A r \in ToSet(replies'), b \in ToSet(processing') : r.t # b.t
    BY <2>1, <2>2, <2>3 DEF Responding
  <2>. QED BY <2>9, <2>10, <2>11, <2>12 DEF Responding
<1>. QED BY <1>1, <1>2, <1>3, <1>4, BatchSteps

(* The parts of RepliesMatchExecution. *)
Once(queue) == \A i, j \in DOMAIN queue : queue[i] = queue[j] => i = j
OneEach(queue) == \A i, j \in DOMAIN queue : queue[i].t = queue[j].t => i = j
Covers(r, done) ==
    {[t |-> r.t, from |-> r.to, area |-> a] : a \in r.areas} = {e \in done : e.t = r.t}

LEMMA MatchParts ==
    RepliesMatchExecution <=>
        /\ Once(executed) /\ OneEach(replies)
        /\ \A r \in ToSet(replies) \cup responses : Covers(r, ToSet(executed))
        /\ \A e \in ToSet(executed) : \E r \in ToSet(replies) \cup responses : r.t = e.t
BY Zenon DEF RepliesMatchExecution, Once, OneEach, Covers

LEMMA MatchStep ==
    ASSUME Typed, Places, Numbered, Responding, RepliesMatchExecution, [Next]_vars
    PROVE  RepliesMatchExecution'
<1>0. /\ Once(executed) /\ OneEach(replies)
      /\ \A r \in ToSet(replies) \cup responses : Covers(r, ToSet(executed))
      /\ \A e \in ToSet(executed) : \E r \in ToSet(replies) \cup responses : r.t = e.t
  BY MatchParts
<1>a. SUFFICES
        /\ Once(executed') /\ OneEach(replies')
        /\ \A r \in ToSet(replies') \cup responses' : Covers(r, ToSet(executed'))
        /\ \A e \in ToSet(executed') : \E r \in ToSet(replies') \cup responses' : r.t = e.t
  BY Zenon DEF RepliesMatchExecution, Once, OneEach, Covers
<1>1. CASE BatchesStand \/ Arrives \/ IsTaken
  BY <1>0, <1>1 DEF BatchesStand, Arrives, IsTaken
<1>2. CASE IsPublished
  <2>1. PICK next : Publish(next) /\ UNCHANGED executed
    BY <1>2 DEF IsPublished
  <2>2. responses' = {} /\ ToSet(replies') = ToSet(replies) \cup responses
    BY <2>1, PublishEffect
  <2>3. OneEach(replies')
    <3>. DEFINE q == SetToSeq(responses)
    <3>1. /\ IsQueue(q) /\ ToSet(q) = responses
          /\ \A i, j \in 1 .. Len(q) : q[i] = q[j] => i = j
      BY SetAsQueue DEF Typed
    <3>2. replies' = replies \o q
      BY <2>1 DEF Publish
    <3>. HIDE DEF q
    <3>3. /\ Len(replies) \in Nat /\ DOMAIN replies = 1 .. Len(replies)
          /\ \A i \in 1 .. Len(replies) : replies[i] \in ToSet(replies)
          /\ Len(q) \in Nat /\ \A i \in 1 .. Len(q) : q[i] \in responses
      BY <3>1, QueueShape DEF Typed
    <3>4. /\ IsQueue(replies') /\ Len(replies') = Len(replies) + Len(q)
          /\ \A i \in 1 .. Len(replies) : replies'[i] = replies[i]
          /\ \A i \in 1 .. Len(q) : replies'[Len(replies) + i] = q[i]
          /\ \A i \in 1 .. Len(replies) + Len(q) : i <= Len(replies) \/ i - Len(replies) \in 1 .. Len(q)
      BY <3>1, <3>2, QueueConcat DEF Typed
    <3>5. DOMAIN replies' = 1 .. Len(replies) + Len(q)
      BY <3>4, QueueShape
    <3>6. \A r \in ToSet(replies), s \in responses : r.t # s.t
      BY DEF Responding
    <3>7. ASSUME NEW i \in DOMAIN replies', NEW j \in DOMAIN replies', i < j
          PROVE  replies'[i].t # replies'[j].t
      <4>1. CASE j <= Len(replies)
        <5>1. i \in DOMAIN replies /\ j \in DOMAIN replies /\ i # j
          BY <3>3, <3>5, <3>7, <4>1
        <5>2. replies'[i] = replies[i] /\ replies'[j] = replies[j]
          BY <3>3, <3>4, <5>1
        <5>. QED BY <1>0, <5>1, <5>2 DEF OneEach
      <4>2. CASE i <= Len(replies) /\ ~ (j <= Len(replies))
        <5>. DEFINE k == j - Len(replies)
        <5>1. i \in 1 .. Len(replies) /\ k \in 1 .. Len(q) /\ Len(replies) + k = j
          BY <3>3, <3>4, <3>5, <3>7, <4>2
        <5>. HIDE DEF k
        <5>2. replies'[i] \in ToSet(replies) /\ replies'[j] \in responses
          BY <3>3, <3>4, <5>1
        <5>. QED BY <3>6, <5>2
      <4>3. CASE ~ (i <= Len(replies))
        <5>. DEFINE k == i - Len(replies)
                    l == j - Len(replies)
        <5>1. /\ k \in 1 .. Len(q) /\ Len(replies) + k = i
              /\ l \in 1 .. Len(q) /\ Len(replies) + l = j /\ k # l
          BY <3>3, <3>4, <3>5, <3>7, <4>3
        <5>. HIDE DEF k, l
        <5>2. /\ replies'[i] = q[k] /\ q[k] \in responses
              /\ replies'[j] = q[l] /\ q[l] \in responses /\ q[k] # q[l]
          BY <3>1, <3>3, <3>4, <5>1
        <5>. QED BY <5>2 DEF Responding
      <4>. QED BY <4>1, <4>2, <4>3
    <3>8. \A i \in DOMAIN replies' : i \in Nat
      BY <3>5
    <3>9. ASSUME NEW i \in DOMAIN replies', NEW j \in DOMAIN replies', replies'[i].t = replies'[j].t
          PROVE  i = j
      BY <3>7, <3>8, <3>9
    <3>. QED BY <3>9 DEF OneEach
  <2>. QED BY <1>0, <2>1, <2>2, <2>3
<1>3. CASE IsConsumed
  <2>1. PICK area, next : ConsumeArea(area, next) /\ UNCHANGED <<pending, replies, batches>>
    BY <1>3 DEF IsConsumed
  <2>2. ToSet(executed') = ToSet(executed) \cup Entries(area)
    BY <2>1, ConsumeEffect
  <2>3. Once(executed')
    BY <1>0, <2>1, ConsumeEffect DEF Once
  <2>4. \A c, d \in ToSet(processing) : c.t = d.t => c = d
    <3>1. ASSUME NEW c \in ToSet(processing), NEW d \in ToSet(processing), c.t = d.t PROVE c = d
      <4>1. PICK i \in 1 .. Len(processing), j \in 1 .. Len(processing) :
                c = processing[i] /\ d = processing[j]
        BY QueueShape DEF Typed
      <4>2. c.t \in Nat /\ d.t \in Nat
        BY DEF Numbered, Taken
      <4>. QED BY <3>1, <4>1, <4>2 DEF Numbered, Ordered
    <3>. QED BY <3>1
  <2>. DEFINE C == ToSet(Consumed(area))
              Record(b) == [t |-> b.t, from |-> b.from, area |-> area]
              Extended(r) == [t |-> r.t, to |-> r.to, areas |-> r.areas \cup {area}]
              Fresh(b) == [t |-> b.t, to |-> b.from, areas |-> {area}]
  <2>5. \A b \in C : b \in ToSet(processing) /\ area \in DOMAIN b.commands
    BY ConsumedShape DEF Typed
  <2>6. responses' = Responses(area)
    BY <2>1 DEF ConsumeArea
  <2>7. Entries(area) = {Record(b) : b \in C}
    BY DEF Entries
  <2>8. /\ \A s \in responses' :
            \/ s \in responses /\ \A b \in C : b.t # s.t
            \/ \E r \in responses : s = Extended(r) /\ \E b \in C : b.t = r.t
            \/ \E b \in C : s = Fresh(b) /\ \A r \in responses : r.t # b.t
        /\ \A s \in responses : (\A b \in C : b.t # s.t) => s \in responses'
        /\ \A r \in responses : (\E b \in C : b.t = r.t) => Extended(r) \in responses'
        /\ \A b \in C : (\A r \in responses : r.t # b.t) => Fresh(b) \in responses'
    BY <2>6 DEF Responses
  <2>9. /\ \A b : Record(b).t = b.t /\ Record(b).from = b.from /\ Record(b).area = area
        /\ \A r : Extended(r).t = r.t /\ Extended(r).to = r.to /\ Extended(r).areas = r.areas \cup {area}
        /\ \A b : Fresh(b).t = b.t /\ Fresh(b).to = b.from /\ Fresh(b).areas = {area}
    OBVIOUS
  <2>. DEFINE E == ToSet(executed)
              Of(r) == {[t |-> r.t, from |-> r.to, area |-> a] : a \in r.areas}
  (* An answer to a batch that executed nothing now covers what it did. *)
  <2>10. ASSUME NEW r, \A b \in C : b.t # r.t, Covers(r, E) PROVE Covers(r, ToSet(executed'))
    <3>1. \A e \in Entries(area) : e.t # r.t
      BY <2>7, <2>9, <2>10
    <3>2. {e \in ToSet(executed') : e.t = r.t} = {e \in E : e.t = r.t}
      BY <2>2, <3>1
    <3>. QED BY <2>10, <3>2 DEF Covers
  <2>. HIDE DEF C, Record, Extended, Fresh
  (* What a batch executed is what it had executed and the commands of     *)
  (* this area.                                                            *)
  <2>11. ASSUME NEW b \in C
         PROVE  {e \in ToSet(executed') : e.t = b.t} = {e \in E : e.t = b.t} \cup {Record(b)}
    <3>1. \A c \in C : c.t = b.t => c = b
      BY <2>4, <2>5
    <3>2. {e \in Entries(area) : e.t = b.t} = {Record(b)}
      BY <2>7, <2>9, <3>1
    <3>. QED BY <2>2, <3>2
  <2>12. ASSUME NEW s \in responses' PROVE Covers(s, ToSet(executed'))
    <3>1. CASE s \in responses /\ \A b \in C : b.t # s.t
      BY <1>0, <2>10, <3>1
    <3>2. CASE \E r \in responses : s = Extended(r) /\ \E b \in C : b.t = r.t
      <4>1. PICK r \in responses : s = Extended(r) /\ \E b \in C : b.t = r.t
        BY <3>2
      <4>2. PICK b \in C : b.t = r.t
        BY <4>1
      <4>3. PICK c \in ToSet(processing) : c.t = r.t /\ c.from = r.to
        BY DEF Responding
      <4>4. b = c
        BY <2>4, <2>5, <4>2, <4>3
      <4>5. Record(b) = [t |-> r.t, from |-> r.to, area |-> area]
        BY <4>2, <4>3, <4>4 DEF Record
      <4>6. s.t = r.t /\ s.to = r.to /\ s.areas = r.areas \cup {area}
        BY <2>9, <4>1
      <4>7. Of(s) = Of(r) \cup {Record(b)}
        BY <4>5, <4>6
      <4>8. Of(r) = {e \in E : e.t = r.t}
        BY <1>0 DEF Covers
      <4>9. Of(s) = {e \in ToSet(executed') : e.t = s.t}
        BY <2>11, <4>2, <4>6, <4>7, <4>8
      <4>. QED BY <4>9 DEF Covers
    <3>3. CASE \E b \in C : s = Fresh(b) /\ \A r \in responses : r.t # b.t
      <4>1. PICK b \in C : s = Fresh(b) /\ \A r \in responses : r.t # b.t
        BY <3>3
      <4>2. b \in ToSet(processing)
        BY <2>5
      <4>3. {e \in E : e.t = b.t} = {}
        BY <1>0, <4>1, <4>2 DEF Responding
      <4>4. s.t = b.t /\ s.to = b.from /\ s.areas = {area}
        BY <2>9, <4>1
      <4>5. Of(s) = {Record(b)}
        BY <4>4 DEF Record
      <4>6. Of(s) = {e \in ToSet(executed') : e.t = s.t}
        BY <2>11, <4>3, <4>4, <4>5
      <4>. QED BY <4>6 DEF Covers
    <3>. QED BY <2>8, <3>1, <3>2, <3>3
  <2>13. ASSUME NEW r \in ToSet(replies') PROVE Covers(r, ToSet(executed'))
    <3>1. r \in ToSet(replies)
      BY <2>1
    <3>2. \A b \in C : b.t # r.t
      BY <2>5, <3>1 DEF Responding
    <3>. QED BY <1>0, <2>10, <3>1, <3>2
  <2>14. ASSUME NEW e \in ToSet(executed')
         PROVE  \E r \in ToSet(replies') \cup responses' : r.t = e.t
    <3>1. CASE \E b \in C : b.t = e.t
      <4>1. PICK b \in C : b.t = e.t
        BY <3>1
      <4>2. CASE \E r \in responses : r.t = b.t
        <5>1. PICK r \in responses : r.t = b.t
          BY <4>2
        <5>2. Extended(r) \in responses' /\ Extended(r).t = e.t
          BY <2>8, <2>9, <4>1, <5>1
        <5>. QED BY <5>2
      <4>3. CASE \A r \in responses : r.t # b.t
        <5>1. Fresh(b) \in responses' /\ Fresh(b).t = e.t
          BY <2>8, <2>9, <4>1, <4>3
        <5>. QED BY <5>1
      <4>. QED BY <4>2, <4>3
    <3>2. CASE \A b \in C : b.t # e.t
      <4>1. e \in E
        BY <2>2, <2>7, <2>9, <3>2
      <4>2. PICK r \in ToSet(replies) \cup responses : r.t = e.t
        BY <1>0, <4>1
      <4>3. CASE r \in ToSet(replies)
        BY <2>1, <4>2, <4>3
      <4>4. CASE r \in responses
        BY <2>8, <3>2, <4>2, <4>4
      <4>. QED BY <4>2, <4>3, <4>4
    <3>. QED BY <3>1, <3>2
  <2>15. OneEach(replies')
    BY <1>0, <2>1
  <2>. QED BY <2>3, <2>12, <2>13, <2>14, <2>15
<1>. QED BY <1>1, <1>2, <1>3, BatchSteps
-----------------------------------------------------------------------------
(* Requests and their answers. *)

(* Answering part of the queue, in its order. *)
LEMMA Answering ==
    ASSUME Typed, Waiting, AnsweredInOrder, NEW q, IsQueue(q), Rising(q),
           \A r \in ToSet(q) : r \in ToSet(requests),
           answered' = answered \o Answers(q)
    PROVE  /\ AnsweredInOrder'
           /\ \A k \in ToSet(answered') :
                  \/ k \in ToSet(answered)
                  \/ \E r \in ToSet(q) : k[1] = r.id /\ k[2] = IsForecast(r)
<1>. DEFINE n == Len(answered)
            m == Len(q)
            new == Answers(q)
<1>1. /\ IsQueue(new) /\ Len(new) = m
      /\ \A i \in 1 .. m : new[i][1] = q[i].id /\ new[i][2] = IsForecast(q[i])
  BY AnswersShape
<1>2. answered' = answered \o new
  OBVIOUS
<1>. HIDE DEF new
<1>3. /\ IsQueue(answered') /\ Len(answered') = n + m
      /\ \A i \in 1 .. n : answered'[i] = answered[i]
      /\ \A i \in 1 .. m : answered'[n + i] = new[i]
      /\ \A i \in 1 .. n + m : i <= n \/ i - n \in 1 .. m
      /\ ToSet(answered') = ToSet(answered) \cup ToSet(new)
  <2>1. IsQueue(answered)
    BY DEF Typed
  <2>2. /\ IsQueue(answered \o new) /\ Len(answered \o new) = n + Len(new)
        /\ \A i \in 1 .. n : (answered \o new)[i] = answered[i]
        /\ \A i \in 1 .. Len(new) : (answered \o new)[n + i] = new[i]
        /\ \A i \in 1 .. n + Len(new) : i <= n \/ i - n \in 1 .. Len(new)
        /\ ToSet(answered \o new) = ToSet(answered) \cup ToSet(new)
    BY <1>1, <2>1, QueueConcat
  <2>. QED BY <1>1, <1>2, <2>2
<1>4. /\ n \in Nat /\ m \in Nat /\ DOMAIN answered = 1 .. n /\ DOMAIN answered' = 1 .. n + m
      /\ \A i \in 1 .. n : answered[i] \in ToSet(answered)
      /\ \A i \in 1 .. m : q[i] \in ToSet(q)
  BY <1>3, QueueShape DEF Typed
<1>5. \A k \in ToSet(new) : \E r \in ToSet(q) : k[1] = r.id /\ k[2] = IsForecast(r)
  <2>1. \A k \in ToSet(new) : \E i \in 1 .. m : k = new[i]
    BY <1>1, QueueShape
  <2>2. ASSUME NEW k \in ToSet(new)
        PROVE  \E r \in ToSet(q) : k[1] = r.id /\ k[2] = IsForecast(r)
    <3>1. PICK i \in 1 .. m : k = new[i]
      BY <2>1
    <3>2. q[i] \in ToSet(q) /\ k[1] = q[i].id /\ k[2] = IsForecast(q[i])
      BY <1>1, <1>4, <3>1
    <3>. QED BY <3>2
  <2>. QED BY <2>2
<1>. HIDE DEF n, m
<1>6. ASSUME NEW i \in DOMAIN answered', NEW j \in DOMAIN answered',
             i < j, answered'[i][2] = answered'[j][2]
      PROVE  answered'[i][1] < answered'[j][1]
  <2>1. CASE j <= n
    <3>1. i \in 1 .. n /\ j \in 1 .. n
      BY <1>4, <1>6, <2>1
    <3>. QED BY <1>3, <1>4, <1>6, <3>1 DEF AnsweredInOrder
  <2>2. CASE i <= n /\ ~ (j <= n)
    <3>. DEFINE l == j - n
    <3>1. i \in 1 .. n /\ l \in 1 .. m /\ n + l = j
      BY <1>3, <1>4, <1>6, <2>2
    <3>. HIDE DEF l
    <3>2. /\ answered'[i] \in ToSet(answered) /\ q[l] \in ToSet(requests)
          /\ answered'[j][1] = q[l].id /\ answered'[j][2] = IsForecast(q[l])
      BY <1>1, <1>3, <1>4, <3>1
    <3>. QED BY <1>6, <3>2 DEF Waiting
  <2>3. CASE ~ (i <= n)
    <3>. DEFINE k == i - n
                l == j - n
    <3>1. k \in 1 .. m /\ n + k = i /\ l \in 1 .. m /\ n + l = j /\ k < l
      BY <1>3, <1>4, <1>6, <2>3
    <3>. HIDE DEF k, l
    <3>2. answered'[i][1] = q[k].id /\ answered'[j][1] = q[l].id
      BY <1>1, <1>3, <3>1
    <3>. QED BY <3>1, <3>2 DEF Rising, m
  <2>. QED BY <2>1, <2>2, <2>3
<1>7. AnsweredInOrder'
  BY <1>6 DEF AnsweredInOrder
<1>. QED BY <1>3, <1>5, <1>7

(* What is left of a queue that rises rises. *)
LEMMA ThoseRise ==
    ASSUME NEW q, IsQueue(q), Rising(q), NEW S
    PROVE  /\ IsQueue(Those(q, S)) /\ Rising(Those(q, S))
           /\ \A r \in ToSet(Those(q, S)) : r \in ToSet(q) /\ r \in S
<1>. DEFINE p == Those(q, S)
<1>1. IsQueue(p) /\ \E h : Embeds(p, q, S, Len(q), h)
  BY ThoseProperties
<1>2. PICK h : Embeds(p, q, S, Len(q), h)
  BY <1>1
<1>. HIDE DEF p
<1>3. \A i \in 1 .. Len(p) : h[i] \in 1 .. Len(q) /\ p[i] = q[h[i]] /\ p[i] \in S
  BY <1>2 DEF Embeds
<1>4. \A r \in ToSet(p) : r \in ToSet(q) /\ r \in S
  BY <1>1, <1>3, QueueShape
<1>5. \A i, j \in 1 .. Len(p) : i < j => h[i] < h[j]
  BY <1>2 DEF Embeds
<1>6. Rising(p)
  BY <1>3, <1>5 DEF Rising
<1>. QED BY <1>1, <1>4, <1>6 DEF p

RequestsStand == UNCHANGED <<requests, answered, asked>>
IsAsked == /\ asked' = asked + 1 /\ UNCHANGED answered
           /\ requests' = requests
              \/ \E c : requests' = Append(requests, [id |-> asked + 1, c |-> c])

LEMMA RequestSteps ==
    ASSUME [Next]_vars
    PROVE  IsAsked \/ EventMarketCycle \/ ForecastTick \/ HandleRequest \/ RequestsStand
<1>. USE DEF redis, clock, asset, buffers, RequestsStand
<1>1. CASE UNCHANGED vars
  BY <1>1 DEF vars
<1>2. CASE RedisThread
  <2>1. CASE IncomingClientRequest
    <3>1. requests' = requests \/ \E c : requests' = Append(requests, [id |-> asked + 1, c |-> c])
      BY <2>1, Zenon DEF IncomingClientRequest
    <3>2. asked' = asked + 1 /\ UNCHANGED answered
      BY <1>2, <2>1 DEF IncomingClientRequest, RedisThread
    <3>. QED BY <3>1, <3>2, Zenon DEF IsAsked
  <2>2. CASE AggregatorCallback \/ ChangeRegistration \/ ReceiveBatchCommands
    BY <1>2, <2>2 DEF RedisThread, AggregatorCallback, ChangeRegistration, ReceiveBatchCommands
  <2>. QED BY <1>2, <2>1, <2>2 DEF RedisThread
<1>3. CASE CheckControlled \/ AddBatchEvent \/ StartCycle \/ RejectFails \/ ForecastTickFails
  BY <1>3 DEF CheckControlled, AddBatchEvent, StartCycle, RejectFails, ForecastTickFails
<1>4. CASE ApproveBatchCommands \/ TemplateTick \/ RequestsHandled \/ MatchOrders
  BY <1>4 DEF ApproveBatchCommands, TemplateTick, RequestsHandled, MatchOrders
<1>5. CASE ConsumeGrid
  BY <1>5, Zenon DEF ConsumeGrid
<1>6. CASE ConsumeAsset \/ NextTick \/ Deactivate \/ Finish
  BY <1>6 DEF ConsumeAsset, NextTick, Deactivate, Finish
<1>. QED BY <1>1, <1>2, <1>3, <1>4, <1>5, <1>6 DEF Next, Main

LEMMA WaitingStep ==
    ASSUME Typed, Places, Waiting, AnsweredInOrder, [Next]_vars
    PROVE  Waiting' /\ AnsweredInOrder'
<1>0. /\ IsQueue(requests) /\ IsQueue(answered) /\ Len(requests) \in Nat /\ asked \in Nat
      /\ \A i \in 1 .. Len(requests) : requests[i] \in ToSet(requests)
  BY QueueShape DEF Typed
<1>1. CASE RequestsStand
  BY <1>1 DEF RequestsStand, Waiting, Rising, AnsweredInOrder
<1>2. CASE IsAsked
  <2>1. UNCHANGED answered /\ asked' = asked + 1
    BY <1>2 DEF IsAsked
  <2>2. CASE requests' = requests
    BY <1>0, <2>1, <2>2 DEF Waiting, Rising, AnsweredInOrder
  <2>3. CASE \E c : requests' = Append(requests, [id |-> asked + 1, c |-> c])
    <3>1. PICK c : requests' = Append(requests, [id |-> asked + 1, c |-> c])
      BY <2>3
    <3>. DEFINE q == [id |-> asked + 1, c |-> c]
    <3>2. q.id = asked + 1 /\ requests' = Append(requests, q)
      BY <3>1
    <3>. HIDE DEF q
    <3>3. /\ ToSet(requests') = ToSet(requests) \cup {q} /\ Len(requests') = Len(requests) + 1
          /\ \A i \in 1 .. Len(requests) : requests'[i] = requests[i]
          /\ requests'[Len(requests) + 1] = q
      BY <1>0, <3>2, QueueAppend
    <3>4. Rising(requests')
      <4>1. ASSUME NEW i \in 1 .. Len(requests'), NEW j \in 1 .. Len(requests'), i < j
            PROVE  requests'[i].id < requests'[j].id
        <5>1. i \in 1 .. Len(requests) /\ requests'[i] = requests[i] /\ requests[i] \in ToSet(requests)
          BY <1>0, <3>3, <4>1
        <5>2. CASE j = Len(requests) + 1
          BY <1>0, <3>2, <3>3, <5>1, <5>2 DEF Waiting
        <5>3. CASE j \in 1 .. Len(requests)
          BY <3>3, <4>1, <5>1, <5>3 DEF Waiting, Rising
        <5>. QED BY <1>0, <3>3, <5>2, <5>3
      <4>. QED BY <4>1 DEF Rising
    <3>5. \A r \in ToSet(requests') : r.id \in Nat /\ r.id <= asked'
      BY <1>0, <2>1, <3>2, <3>3 DEF Waiting
    <3>6. \A k \in ToSet(answered) : k[1] \in Nat /\ k[1] <= asked /\ k[1] < q.id
      BY <1>0, <3>2 DEF Waiting
    <3>7. \A k \in ToSet(answered'), r \in ToSet(requests') : k[2] = IsForecast(r) => k[1] < r.id
      BY <2>1, <3>3, <3>6 DEF Waiting
    <3>8. \A k \in ToSet(answered') : k[1] \in Nat /\ k[1] <= asked'
      BY <1>0, <2>1, <3>6
    <3>9. AnsweredInOrder'
      BY <2>1 DEF AnsweredInOrder
    <3>. QED BY <3>4, <3>5, <3>7, <3>8, <3>9 DEF Waiting, Rising, IsForecast
  <2>. QED BY <1>2, <2>2, <2>3 DEF IsAsked
<1>3. CASE EventMarketCycle
  <2>. DEFINE q == SubSeq(requests, 1, seen)
  <2>1. /\ requests' = <<>> /\ asked' = asked /\ answered' = answered \o Answers(q)
        /\ seen \in 0 .. Len(requests)
    BY <1>0, <1>3 DEF EventMarketCycle, redis, Typed, Places
  <2>2. IsQueue(q) /\ Len(q) = seen /\ \A i \in 1 .. seen : q[i] = requests[i]
    BY <1>0, <2>1, QueuePrefix
  <2>. HIDE DEF q
  <2>3. /\ Rising(q) /\ \A r \in ToSet(q) : r \in ToSet(requests)
    <3>1. \A i \in 1 .. seen : i \in 1 .. Len(requests)
      BY <1>0, <2>1
    <3>2. Rising(requests)
      BY DEF Waiting
    <3>3. Rising(q)
      BY <2>2, <3>1, <3>2 DEF Rising
    <3>4. \A i \in 1 .. seen : q[i] \in ToSet(requests)
      BY <1>0, <2>2, <3>1
    <3>. QED BY <2>2, <3>3, <3>4, QueueShape
  <2>4. /\ AnsweredInOrder'
        /\ \A k \in ToSet(answered') :
               \/ k \in ToSet(answered) \/ \E r \in ToSet(q) : k[1] = r.id /\ k[2] = IsForecast(r)
    BY <2>1, <2>2, <2>3, Answering
  <2>5. \A k \in ToSet(answered') : k[1] \in Nat /\ k[1] <= asked'
    BY <2>1, <2>3, <2>4 DEF Waiting
  <2>6. ToSet(requests') = {} /\ Rising(requests')
    BY <2>1, QueueEmpty DEF Rising
  <2>. QED BY <2>4, <2>5, <2>6 DEF Waiting
<1>4. CASE ForecastTick
  <2>. DEFINE p == SubSeq(requests, 1, seen)
              q == Those(p, ForecastsIn(p))
              S == ToSet(requests) \ ForecastsIn(requests)
  <2>1. /\ requests' = Those(requests, S) /\ asked' = asked /\ answered' = answered \o Answers(q)
        /\ seen \in 0 .. Len(requests)
    BY <1>0, <1>4 DEF ForecastTick, redis, Typed, Places
  <2>2. IsQueue(p) /\ Len(p) = seen /\ \A i \in 1 .. seen : p[i] = requests[i]
    BY <1>0, <2>1, QueuePrefix
  <2>3. \A r \in ForecastsIn(p) : IsForecast(r)
    BY DEF ForecastsIn
  <2>4. \A r \in S : r \in ToSet(requests) /\ ~ IsForecast(r)
    BY DEF ForecastsIn
  <2>. HIDE DEF p, S
  <2>5. /\ Rising(p) /\ \A r \in ToSet(p) : r \in ToSet(requests)
    <3>1. \A i \in 1 .. seen : i \in 1 .. Len(requests)
      BY <1>0, <2>1
    <3>2. Rising(requests)
      BY DEF Waiting
    <3>3. Rising(p)
      BY <2>2, <3>1, <3>2 DEF Rising
    <3>4. \A i \in 1 .. seen : p[i] \in ToSet(requests)
      BY <1>0, <2>2, <3>1
    <3>. QED BY <2>2, <3>3, <3>4, QueueShape
  <2>6. /\ IsQueue(q) /\ Rising(q)
        /\ \A r \in ToSet(q) : r \in ToSet(requests) /\ IsForecast(r)
    BY <2>2, <2>3, <2>5, ThoseRise
  <2>. HIDE DEF q
  <2>7. /\ Rising(requests')
        /\ \A r \in ToSet(requests') : r \in ToSet(requests) /\ ~ IsForecast(r)
    BY <1>0, <2>1, <2>4, ThoseRise DEF Waiting
  <2>8. /\ AnsweredInOrder'
        /\ \A k \in ToSet(answered') :
               \/ k \in ToSet(answered) \/ \E r \in ToSet(q) : k[1] = r.id /\ k[2] = IsForecast(r)
    BY <2>1, <2>6, Answering
  <2>9. \A k \in ToSet(answered') : k[1] \in Nat /\ k[1] <= asked'
    BY <2>1, <2>6, <2>8 DEF Waiting
  <2>10. ASSUME NEW k \in ToSet(answered'), NEW r \in ToSet(requests'), k[2] = IsForecast(r)
         PROVE  k[1] < r.id
    <3>1. CASE k \in ToSet(answered)
      BY <2>7, <2>10, <3>1 DEF Waiting
    <3>2. CASE \E s \in ToSet(q) : k[1] = s.id /\ k[2] = IsForecast(s)
      <4>1. PICK s \in ToSet(q) : k[2] = IsForecast(s)
        BY <3>2
      <4>2. IsForecast(s) /\ ~ IsForecast(r) /\ IsForecast(s) = IsForecast(r)
        BY <2>6, <2>7, <2>10, <4>1
      <4>. QED BY <4>2
    <3>. QED BY <2>8, <3>1, <3>2
  <2>11. \A r \in ToSet(requests') : r.id \in Nat /\ r.id <= asked'
    BY <2>1, <2>7 DEF Waiting
  <2>. QED BY <2>7, <2>8, <2>9, <2>10, <2>11 DEF Waiting, Rising, IsForecast
<1>5. CASE HandleRequest
  <2>. DEFINE h == Head(requests)
              q == <<h>>
  <2>1. requests # <<>> /\ requests' = Tail(requests) /\ asked' = asked
        /\ (answered' = answered \/ answered' = answered \o Answers(q))
    BY <1>5 DEF HandleRequest, NextRequest, redis
  <2>2. /\ Len(requests) >= 1 /\ h = requests[1] /\ h \in ToSet(requests)
        /\ IsQueue(requests') /\ Len(requests') = Len(requests) - 1
        /\ \A i \in 1 .. Len(requests) - 1 : requests'[i] = requests[i + 1]
    BY <1>0, <2>1, QueueTail
  <2>. HIDE DEF h
  <2>3. IsQueue(q) /\ Rising(q) /\ ToSet(q) = {h}
    BY SingleShape DEF Rising
  <2>. HIDE DEF q
  <2>4. Rising(requests')
    <3>1. Rising(requests)
      BY DEF Waiting
    <3>2. ASSUME NEW i \in 1 .. Len(requests'), NEW j \in 1 .. Len(requests'), i < j
          PROVE  requests'[i].id < requests'[j].id
      <4>1. i + 1 \in 1 .. Len(requests) /\ j + 1 \in 1 .. Len(requests) /\ i + 1 < j + 1
        BY <1>0, <2>2, <3>2
      <4>2. requests'[i] = requests[i + 1] /\ requests'[j] = requests[j + 1]
        BY <1>0, <2>2
      <4>. QED BY <3>1, <4>1, <4>2 DEF Rising
    <3>. QED BY <3>2 DEF Rising
  <2>5. \A r \in ToSet(requests') : r \in ToSet(requests) /\ h.id < r.id
    <3>1. ASSUME NEW i \in 1 .. Len(requests')
          PROVE  requests'[i] \in ToSet(requests) /\ h.id < requests'[i].id
      <4>1. i + 1 \in 1 .. Len(requests) /\ 1 \in 1 .. Len(requests) /\ 1 < i + 1
        BY <1>0, <2>2
      <4>. QED BY <1>0, <2>2, <4>1 DEF Rising, Waiting
    <3>. QED BY <2>2, <3>1, QueueShape
  <2>6. /\ AnsweredInOrder'
        /\ \A k \in ToSet(answered') :
               \/ k \in ToSet(answered) \/ \E r \in ToSet(q) : k[1] = r.id /\ k[2] = IsForecast(r)
    <3>1. CASE answered' = answered
      BY <3>1 DEF AnsweredInOrder
    <3>2. CASE answered' = answered \o Answers(q)
      BY <2>2, <2>3, <3>2, Answering
    <3>. QED BY <2>1, <3>1, <3>2
  <2>7. \A k \in ToSet(answered') : k[1] \in Nat /\ k[1] <= asked'
    BY <2>1, <2>2, <2>3, <2>6 DEF Waiting
  <2>8. \A k \in ToSet(answered'), r \in ToSet(requests') : k[2] = IsForecast(r) => k[1] < r.id
    BY <2>3, <2>5, <2>6 DEF Waiting
  <2>9. \A r \in ToSet(requests') : r.id \in Nat /\ r.id <= asked'
    BY <2>1, <2>5 DEF Waiting
  <2>. QED BY <2>4, <2>6, <2>7, <2>8, <2>9 DEF Waiting, Rising, IsForecast
<1>. QED BY <1>1, <1>2, <1>3, <1>4, <1>5, RequestSteps
-----------------------------------------------------------------------------
(* Failures. *)

(* Nothing is left of an empty queue. *)
LEMMA ThoseOfNone ==
    ASSUME NEW S
    PROVE  Those(<<>>, S) = <<>>
<1>. DEFINE p == Those(<<>>, S)
<1>1. IsQueue(p) /\ \E h : Embeds(p, <<>>, S, 0, h)
  BY QueueEmpty, ThoseProperties
<1>2. PICK h : h \in [1 .. Len(p) -> 1 .. 0]
  BY <1>1 DEF Embeds
<1>. HIDE DEF p
<1>3. Len(p) \in Nat /\ (p = <<>> <=> Len(p) = 0)
  BY <1>1, QueueShape
<1>4. Len(p) = 0
  <2>1. SUFFICES ASSUME Len(p) # 0 PROVE FALSE
    OBVIOUS
  <2>2. 1 \in 1 .. Len(p)
    BY <1>3, <2>1
  <2>3. h[1] \in 1 .. 0
    BY <1>2, <2>2
  <2>. QED BY <2>3
<1>. QED BY <1>3, <1>4 DEF p

LEMMA NoCommands ==
    ASSUME processing = <<>>
    PROVE  AssetCommands.status = "ready"
<1>. DEFINE queue == Consumed("asset")
            Next1(g, i) == FoldLeft(ExecuteCommand, g[i - 1], queue[i].commands["asset"])
            IsOutcome(g) == g = [i \in 0 .. 0 |-> IF i = 0 THEN Accept(book) ELSE Next1(g, i)]
            f == CHOOSE g : IsOutcome(g)
<1>1. queue = <<>> /\ Len(queue) = 0
  BY ThoseOfNone, QueueEmpty DEF Consumed
<1>2. AssetCommands = f[0]
  BY <1>1 DEF AssetCommands
<1>. HIDE DEF queue, Next1
<1>3. IsOutcome([i \in 0 .. 0 |-> Accept(book)])
  OBVIOUS
<1>4. IsOutcome(f)
  BY <1>3
<1>. HIDE DEF f
<1>5. f[0] = Accept(book)
  BY <1>4
<1>. QED BY <1>2, <1>5 DEF Accept, Outcome

LEMMA UnusedStep ==
    ASSUME Typed, Places, Unused, [Next]_vars
    PROVE  Unused'
<1>1. batches' = 0 => pending' = <<>> /\ processing' = <<>>
  <2>1. CASE BatchesStand
    BY <2>1 DEF BatchesStand, Unused
  <2>2. CASE Arrives
    BY <2>2 DEF Arrives, Typed
  <2>3. CASE IsTaken
    BY <2>3 DEF IsTaken, Approve, Unused
  <2>4. CASE IsConsumed
    <3>1. PICK area, next : ConsumeArea(area, next) /\ UNCHANGED <<pending, batches>>
      BY <2>4 DEF IsConsumed
    <3>2. IsQueue(processing') /\ Len(processing') = Len(processing)
      BY <3>1, ConsumeTyped
    <3>3. processing = <<>> => processing' = <<>>
      BY <3>2, QueueShape DEF Typed
    <3>. QED BY <3>1, <3>3 DEF Unused
  <2>5. CASE IsPublished
    BY <2>5 DEF IsPublished, Publish, Unused
  <2>. QED BY <2>1, <2>2, <2>3, <2>4, <2>5, BatchSteps
<1>2. asked' = 0 => requests' = <<>>
  <2>1. CASE RequestsStand
    BY <2>1 DEF RequestsStand, Unused
  <2>2. CASE IsAsked
    BY <2>2 DEF IsAsked, Typed
  <2>3. CASE EventMarketCycle
    BY <2>3 DEF EventMarketCycle
  <2>4. CASE ForecastTick
    <3>1. asked' = asked /\ \E S : requests' = Those(requests, S)
      BY <2>4 DEF ForecastTick, redis
    <3>. QED BY <3>1, ThoseOfNone DEF Unused
  <2>5. CASE HandleRequest
    BY <2>5 DEF HandleRequest, Unused, redis
  <2>. QED BY <2>1, <2>2, <2>3, <2>4, <2>5, RequestSteps
<1>. QED BY <1>1, <1>2 DEF Unused

(* One message more. *)
LEMMA RedisUndisturbed ==
    ASSUME Typed, Undisturbed, RedisThread
    PROVE  Undisturbed'
<1>0. UNCHANGED <<pc, checked, todo, connected, priced>> /\ admin \in Nat
  BY DEF RedisThread, asset, Typed
<1>1. CASE AggregatorCallback
  <2>1. admin' = admin + 1 /\ UNCHANGED registered
    BY <1>1 DEF AggregatorCallback
  <2>2. CASE admin # 0
    <3>1. ~ (admin' <= 1) /\ admin' # 0
      BY <1>0, <2>1, <2>2
    <3>. QED BY <3>1 DEF Undisturbed
  <2>3. CASE admin = 0
    <3>1. /\ DOMAIN device_of = {} /\ ~ connected /\ ~ checked /\ admin' # 0
          /\ pc \notin {"cycle", "rejecting", "failed"} => priced
      BY <2>1, <2>3 DEF Undisturbed, ShouldUseDefaultStrategy, IsControlled
    <3>2. PICK a : \/ CreateAggregator(a) \/ DeleteAggregator(a)
                   \/ \E area : SelectAggregator(a, area) \/ UnselectAggregator(a, area)
      BY <1>1 DEF AggregatorCallback
    <3>3. \A x \in DOMAIN device_of' : device_of'[x] \in DOMAIN devices'
      <4>1. CASE CreateAggregator(a)
        BY <3>1, <4>1 DEF CreateAggregator
      <4>2. CASE DeleteAggregator(a)
        BY <3>1, <4>2 DEF DeleteAggregator
      <4>3. ASSUME NEW area, SelectAggregator(a, area)
            PROVE  \A x \in DOMAIN device_of' : device_of'[x] \in DOMAIN devices'
        <5>1. device_of' = Put(device_of, area, a) /\ a \in DOMAIN devices'
          <6>1. CASE a \notin DOMAIN devices
            BY <4>3, <6>1 DEF SelectAggregator, Put
          <6>2. CASE a \in DOMAIN devices
            BY <3>1, <4>3, <6>2 DEF SelectAggregator
          <6>. QED BY <6>1, <6>2
        <5>2. DOMAIN device_of' = {area} /\ device_of'[area] = a
          BY <3>1, <5>1 DEF Put
        <5>. QED BY <5>1, <5>2
      <4>4. ASSUME NEW area, UnselectAggregator(a, area)
            PROVE  \A x \in DOMAIN device_of' : device_of'[x] \in DOMAIN devices'
        BY <3>1, <4>4 DEF UnselectAggregator
      <4>. QED BY <3>2, <4>1, <4>2, <4>3, <4>4
    <3>. QED BY <1>0, <3>1, <3>3 DEF Undisturbed
  <2>. QED BY <2>2, <2>3
<1>2. CASE ChangeRegistration
  <2>1. admin' = admin + 1 /\ UNCHANGED <<devices, device_of>>
    BY <1>2 DEF ChangeRegistration
  <2>2. CASE admin # 0
    <3>1. ~ (admin' <= 1) /\ admin' # 0
      BY <1>0, <2>1, <2>2
    <3>. QED BY <3>1 DEF Undisturbed
  <2>3. CASE admin = 0
    <3>1. /\ DOMAIN device_of = {} /\ ~ connected /\ ~ checked /\ admin' # 0
          /\ pc \notin {"cycle", "rejecting", "failed"} => priced
      BY <2>1, <2>3 DEF Undisturbed, ShouldUseDefaultStrategy, IsControlled
    <3>. QED BY <1>0, <2>1, <3>1 DEF Undisturbed
  <2>. QED BY <2>2, <2>3
<1>3. CASE ReceiveBatchCommands \/ IncomingClientRequest
  <2>1. UNCHANGED <<admin, devices, device_of, registered>>
    BY <1>3 DEF ReceiveBatchCommands, IncomingClientRequest
  <2>. QED BY <1>0, <2>1 DEF Undisturbed, ShouldUseDefaultStrategy, IsControlled
<1>. QED BY <1>1, <1>2, <1>3 DEF RedisThread

(* The steps of the main thread; most leave the mappings and the           *)
(* connection alone.                                                       *)
LEMMA MainUndisturbed ==
    ASSUME Typed, Places, Undisturbed, Main
    PROVE  Undisturbed'
<1>. USE DEF redis, clock, asset, buffers
<1>. DEFINE Same == UNCHANGED <<admin, devices, device_of, registered, connected>>
<1>1. CASE CheckControlled
  <2>1. Same /\ UNCHANGED <<pc, priced>>
    BY <1>1 DEF CheckControlled
  <2>2. checked' => IsControlled(Head(todo).area) /\ todo' = todo
    BY <1>1 DEF CheckControlled
  <2>. QED BY <2>1, <2>2 DEF Undisturbed, IsControlled, ShouldUseDefaultStrategy
<1>2. CASE AddBatchEvent
  <2>1. Same /\ UNCHANGED priced /\ ~ checked' /\ (pc' = pc \/ pc' = "failed")
    BY <1>2 DEF AddBatchEvent, Fail
  <2>. QED BY <2>1 DEF Undisturbed, IsControlled, ShouldUseDefaultStrategy
<1>3. CASE StartCycle \/ RejectFails \/ ForecastTickFails
  <2>1. Same /\ UNCHANGED <<priced, checked, todo>> /\ pc' \in {"rejecting", "failed"}
    BY <1>3 DEF StartCycle, RejectFails, ForecastTickFails, Goto, Fail
  <2>. QED BY <2>1 DEF Undisturbed, IsControlled, ShouldUseDefaultStrategy
<1>4. CASE EventMarketCycle
  <2>1. /\ UNCHANGED <<admin, devices, registered, checked>> /\ pc = "rejecting"
        /\ connected' = registered["asset"]
        /\ device_of' = IF connected /\ ~ registered["asset"]
                        THEN [x \in DOMAIN device_of \ {"asset"} |-> device_of[x]] ELSE device_of
        /\ priced' = (~ connected' /\ "asset" \notin DOMAIN device_of')
    BY <1>4 DEF EventMarketCycle, UpdateConnectionStatus
  <2>2. ~ checked
    BY <2>1 DEF Places
  <2>3. /\ DOMAIN device_of' \subseteq DOMAIN device_of
        /\ \A x \in DOMAIN device_of' : device_of'[x] = device_of[x]
    BY <2>1
  <2>4. ShouldUseDefaultStrategy' => priced'
    BY <2>1 DEF ShouldUseDefaultStrategy, IsControlled
  <2>. QED BY <2>1, <2>2, <2>3, <2>4 DEF Undisturbed
<1>5. CASE ApproveBatchCommands \/ RequestsHandled \/ Deactivate
  <2>1. Same /\ UNCHANGED <<priced, checked>> /\ pc \in {"approve", "requests", "deactivate"} /\ todo = <<>>
    <3>1. pc = "deactivate" => todo = <<>>
      BY DEF Places
    <3>2. pc = "requests" => todo = <<>>
      BY DEF Places
    <3>. QED BY <1>5, <3>1, <3>2 DEF ApproveBatchCommands, RequestsHandled, Deactivate
  <2>2. ~ checked'
    BY <2>1 DEF Places
  <2>. QED BY <2>1, <2>2 DEF Undisturbed, IsControlled, ShouldUseDefaultStrategy
<1>6. CASE ForecastTick \/ TemplateTick \/ HandleRequest
  <2>1. /\ Same /\ UNCHANGED <<priced, checked, todo>>
        /\ pc \in {"forecast", "requests"}
    BY <1>6 DEF ForecastTick, TemplateTick, HandleRequest
  <2>. QED BY <2>1 DEF Undisturbed, IsControlled, ShouldUseDefaultStrategy
<1>7. CASE MatchOrders
  <2>1. Same /\ UNCHANGED <<priced, checked>> /\ pc = "match" /\ todo = <<>>
    BY <1>7 DEF MatchOrders
  <2>2. ~ checked'
    BY <2>1 DEF Places
  <2>. QED BY <2>1, <2>2 DEF Undisturbed, IsControlled, ShouldUseDefaultStrategy
<1>8. CASE ConsumeGrid
  <2>1. Same /\ UNCHANGED <<priced, checked, todo>> /\ pc = "consume"
    BY <1>8, Zenon DEF ConsumeGrid
  <2>. QED BY <2>1 DEF Undisturbed, IsControlled, ShouldUseDefaultStrategy
<1>9. CASE ConsumeAsset \/ NextTick \/ Finish
  <2>1. /\ Same /\ UNCHANGED <<priced, checked, todo>>
        /\ pc \in {"consume_asset", "publish", "finish"}
    BY <1>9 DEF ConsumeAsset, NextTick, Finish
  <2>. QED BY <2>1 DEF Undisturbed, IsControlled, ShouldUseDefaultStrategy
<1>. QED BY <1>1, <1>2, <1>3, <1>4, <1>5, <1>6, <1>7, <1>8, <1>9 DEF Main

LEMMA UndisturbedStep ==
    ASSUME Typed, Places, Undisturbed, [Next]_vars
    PROVE  Undisturbed'
<1>1. CASE UNCHANGED vars
  BY <1>1 DEF vars, redis, clock, asset, buffers, Undisturbed, IsControlled, ShouldUseDefaultStrategy
<1>. QED BY <1>1, RedisUndisturbed, MainUndisturbed DEF Next

LEMMA SumsGrow ==
    ASSUME NEW a \in Nat, NEW b \in Nat, NEW c \in Nat, NEW d \in Nat, c >= a, d >= b
    PROVE  /\ c + d >= a + b /\ (a + b >= 1 => c + d >= 1)
           /\ (c >= 1 \/ d >= 1) => c + d >= 1
OBVIOUS

(* A step that fails had a cause. *)
LEMMA FailsStep ==
    ASSUME Typed, Places, Unused, Undisturbed, FailsOnlyWhenDisturbed, [Next]_vars
    PROVE  FailsOnlyWhenDisturbed'
<1>. USE DEF redis, clock, asset, buffers
<1>0. admin \in Nat /\ batches \in Nat /\ asked \in Nat /\ seen \in Nat
  BY DEF Typed
<1>a. ASSUME UNCHANGED failed, admin' >= admin, asked' >= asked, batches' >= batches,
             admin' \in Nat, asked' \in Nat, batches' \in Nat
      PROVE  FailsOnlyWhenDisturbed'
  <2>1. failed' \in {"lookup", "price"} => admin' >= 2
    BY <1>0, <1>a DEF FailsOnlyWhenDisturbed
  <2>2. failed' = "queue" => asked' >= 1
    BY <1>0, <1>a DEF FailsOnlyWhenDisturbed
  <2>3. failed' = "command" => batches' + asked' >= 1
    <3>1. failed' = "command" => batches + asked >= 1
      BY <1>a DEF FailsOnlyWhenDisturbed
    <3>2. batches + asked >= 1 => batches' + asked' >= 1
      BY <1>0, <1>a, SumsGrow
    <3>. QED BY <3>1, <3>2
  <2>. QED BY <2>1, <2>2, <2>3 DEF FailsOnlyWhenDisturbed
<1>b. /\ admin' >= admin /\ asked' >= asked /\ batches' >= batches
      /\ admin' \in Nat /\ asked' \in Nat /\ batches' \in Nat
  <2>1. CASE RedisThread
    BY <1>0, <2>1 DEF RedisThread, AggregatorCallback, ReceiveBatchCommands, ChangeRegistration,
                      IncomingClientRequest
  <2>2. CASE UNCHANGED vars
    BY <1>0, <2>2 DEF vars
  <2>3. CASE Main
    <3>1. UNCHANGED <<admin, asked, batches>>
      <4>1. CASE CheckControlled \/ AddBatchEvent \/ StartCycle \/ RejectFails \/ EventMarketCycle
        BY <4>1 DEF CheckControlled, AddBatchEvent, StartCycle, RejectFails, EventMarketCycle
      <4>2. CASE ApproveBatchCommands \/ ForecastTickFails \/ ForecastTick \/ TemplateTick
        BY <4>2 DEF ApproveBatchCommands, ForecastTickFails, ForecastTick, TemplateTick
      <4>3. CASE HandleRequest \/ RequestsHandled \/ MatchOrders \/ ConsumeAsset
        BY <4>3 DEF HandleRequest, RequestsHandled, MatchOrders, ConsumeAsset
      <4>4. CASE ConsumeGrid
        BY <4>4, Zenon DEF ConsumeGrid
      <4>5. CASE NextTick \/ Deactivate \/ Finish
        BY <4>5 DEF NextTick, Deactivate, Finish
      <4>. QED BY <2>3, <4>1, <4>2, <4>3, <4>4, <4>5 DEF Main
    <3>. QED BY <1>0, <3>1
  <2>. QED BY <2>1, <2>2, <2>3 DEF Next
<1>1. CASE RedisThread
  BY <1>1, <1>a, <1>b DEF RedisThread
<1>2. CASE UNCHANGED vars
  BY <1>2, <1>a, <1>b DEF vars
<1>3. CASE AddBatchEvent
  <2>. DEFINE e == Head(todo)
  <2>1. CASE admin <= 1
    <3>1. checked /\ UNCHANGED admin
      BY <1>3 DEF AddBatchEvent
    <3>2. IsControlled(e.area) /\ device_of[e.area] \in DOMAIN devices
      BY <2>1, <3>1 DEF Undisturbed, IsControlled
    <3>3. UNCHANGED failed
      BY <1>3, <3>2 DEF AddBatchEvent, DeleteNotOwnedDevices
    <3>. QED BY <1>a, <1>b, <3>3
  <2>2. CASE ~ (admin <= 1)
    <3>1. admin' >= 2
      BY <1>0, <1>b, <2>2
    <3>2. UNCHANGED failed \/ failed' = "lookup"
      BY <1>3 DEF AddBatchEvent, Fail
    <3>3. CASE failed' = "lookup"
      BY <3>1, <3>3 DEF FailsOnlyWhenDisturbed
    <3>. QED BY <1>a, <1>b, <3>2, <3>3
  <2>. QED BY <2>1, <2>2
<1>4. CASE TemplateTick
  <2>1. CASE admin <= 1
    <3>1. pc = "requests" /\ ShouldUseDefaultStrategy
      BY <1>4 DEF TemplateTick
    <3>2. priced
      BY <2>1, <3>1 DEF Undisturbed
    <3>3. UNCHANGED failed
      BY <1>4, <3>2 DEF TemplateTick, Goto
    <3>. QED BY <1>a, <1>b, <3>3
  <2>2. CASE ~ (admin <= 1)
    <3>1. admin' >= 2
      BY <1>0, <1>b, <2>2
    <3>2. UNCHANGED failed \/ failed' = "price"
      BY <1>4 DEF TemplateTick, Goto, Fail
    <3>3. CASE failed' = "price"
      BY <3>1, <3>3 DEF FailsOnlyWhenDisturbed
    <3>. QED BY <1>a, <1>b, <3>2, <3>3
  <2>. QED BY <2>1, <2>2
<1>5. CASE RejectFails \/ ForecastTickFails
  <2>1. Len(requests) > seen /\ failed' = "queue"
    BY <1>5 DEF RejectFails, ForecastTickFails, Fail
  <2>2. requests # <<>>
    BY <1>0, <2>1, QueueEmpty
  <2>3. asked' >= 1
    BY <1>0, <1>b, <2>2 DEF Unused
  <2>. QED BY <2>1, <2>3 DEF FailsOnlyWhenDisturbed
<1>6. CASE HandleRequest
  <2>1. requests # <<>> /\ (UNCHANGED failed \/ failed' = "command")
    BY <1>6 DEF HandleRequest, Goto, Fail
  <2>2. asked' >= 1
    BY <1>0, <1>b, <2>1 DEF Unused
  <2>3. CASE failed' = "command"
    <3>1. batches' + asked' >= 1
      BY <1>0, <1>b, <2>2, SumsGrow
    <3>. QED BY <2>3, <3>1 DEF FailsOnlyWhenDisturbed
  <2>. QED BY <1>a, <1>b, <2>1, <2>3
<1>7. CASE ConsumeAsset
  <2>1. \/ UNCHANGED failed
        \/ failed' = "command" /\ AssetCommands.status = "raises"
    BY <1>7 DEF ConsumeAsset, ConsumeArea, Goto, Fail
  <2>2. CASE failed' = "command" /\ AssetCommands.status = "raises"
    <3>1. processing # <<>>
      BY <2>2, NoCommands
    <3>2. batches' >= 1
      BY <1>0, <1>b, <3>1 DEF Unused
    <3>3. batches' + asked' >= 1
      BY <1>0, <1>b, <3>2, SumsGrow
    <3>. QED BY <2>2, <3>3 DEF FailsOnlyWhenDisturbed
  <2>. QED BY <1>a, <1>b, <2>1, <2>2
<1>8. CASE CheckControlled \/ StartCycle \/ EventMarketCycle \/ ApproveBatchCommands
  <2>1. UNCHANGED failed
    BY <1>8 DEF CheckControlled, StartCycle, EventMarketCycle, ApproveBatchCommands, Goto
  <2>. QED BY <1>a, <1>b, <2>1
<1>9. CASE ForecastTick \/ RequestsHandled \/ MatchOrders \/ Deactivate
  <2>1. UNCHANGED failed
    BY <1>9 DEF ForecastTick, RequestsHandled, MatchOrders, Deactivate, Goto
  <2>. QED BY <1>a, <1>b, <2>1
<1>10. CASE ConsumeGrid
  <2>1. UNCHANGED failed
    BY <1>10, Zenon DEF ConsumeGrid, ConsumeArea, Goto
  <2>. QED BY <1>a, <1>b, <2>1
<1>11. CASE NextTick \/ Finish
  <2>1. UNCHANGED failed
    BY <1>11 DEF NextTick, Finish, Publish, Goto
  <2>. QED BY <1>a, <1>b, <2>1
<1>. QED BY <1>1, <1>2, <1>3, <1>4, <1>5, <1>6, <1>7, <1>8, <1>9, <1>10, <1>11 DEF Next, Main
-----------------------------------------------------------------------------
(* The theorems. *)

ClientsInv ==
    /\ Typed /\ Places
    /\ Numbered /\ Responding /\ RepliesMatchExecution
    /\ Waiting /\ AnsweredInOrder
    /\ Unused /\ Undisturbed /\ FailsOnlyWhenDisturbed

LEMMA ClientsInit == Init => ClientsInv
<1>. SUFFICES ASSUME Init PROVE ClientsInv
  OBVIOUS
<1>1. Typed /\ Places
  BY TypedInit
<1>2. Numbered /\ Responding /\ RepliesMatchExecution
  BY QueueEmpty DEF Init, Numbered, Ordered, Responding, RepliesMatchExecution
<1>3. Waiting /\ AnsweredInOrder
  BY QueueEmpty DEF Init, Waiting, Rising, AnsweredInOrder
<1>4. Unused /\ Undisturbed /\ FailsOnlyWhenDisturbed
  BY QueueEmpty DEF Init, Unused, Undisturbed, FailsOnlyWhenDisturbed, Areas, IsControlled
<1>. QED BY <1>1, <1>2, <1>3, <1>4 DEF ClientsInv

LEMMA ClientsStep == ClientsInv /\ [Next]_vars => ClientsInv'
BY TypedStep, NumberedStep, RespondingStep, MatchStep, WaitingStep, UnusedStep, UndisturbedStep,
   FailsStep DEF ClientsInv

LEMMA ClientsAlways == Spec => []ClientsInv
BY ClientsInit, ClientsStep, PTL DEF Spec

(* Whatever aggregators select, unselect or send while the main thread     *)
(* runs, no command is executed twice, and every answer goes once to the   *)
(* aggregator that sent the batch and covers the areas that executed it    *)
(* (AggregatorHandler.consume_all_area_commands and                        *)
(* publish_all_commands_responses).                                        *)
THEOREM RepliesMatchExecutionTheorem == Spec => []RepliesMatchExecution
<1>1. ClientsInv => RepliesMatchExecution
  BY DEF ClientsInv
<1>. QED BY <1>1, ClientsAlways, PTL

(* Requests that arrive on the Redis thread at any moment are answered in  *)
(* the order they came, forecasts and other requests apart (pending_requests *)
(* in event_tick and _reject_all_pending_requests).                        *)
THEOREM AnsweredInOrderTheorem == Spec => []AnsweredInOrder
<1>1. ClientsInv => AnsweredInOrder
  BY DEF ClientsInv
<1>. QED BY <1>1, ClientsAlways, PTL

(* The main thread finds the aggregator of a device and the prices of its  *)
(* template unless two messages about aggregators or registrations came,   *)
(* and its loops over the queue of requests end unless there was a request *)
(* (add_batch_tick_event, increment_update_counter and                     *)
(* _reject_all_pending_requests).                                          *)
THEOREM FailsOnlyWhenDisturbedTheorem == Spec => []FailsOnlyWhenDisturbed
<1>1. ClientsInv => FailsOnlyWhenDisturbed
  BY DEF ClientsInv
<1>. QED BY <1>1, ClientsAlways, PTL
=============================================================================
