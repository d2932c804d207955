------------------------- MODULE SubscriptionsProofs -------------------------
(***************************************************************************)
(* Theorems about Subscriptions for any ids, nodes, intervals, requests,   *)
(* restores and bounds.                                                    *)
(***************************************************************************)
EXTENDS Subscriptions, FiniteSetTheorems, Induction, TLAPS

-----------------------------------------------------------------------------
(***************************************************************************)
(* Maps.                                                                   *)
(***************************************************************************)

LEMMA PutProps ==
  ASSUME NEW f, NEW k, NEW v
  PROVE  /\ DOMAIN Put(f, k, v) = DOMAIN f \cup {k} /\ Put(f, k, v)[k] = v
         /\ \A x \in DOMAIN f \ {k} : Put(f, k, v)[x] = f[x]
BY DEF Put

LEMMA WithoutProps ==
  ASSUME NEW f, NEW S
  PROVE  /\ DOMAIN Without(f, S) = DOMAIN f \ S
         /\ \A x \in DOMAIN f \ S : Without(f, S)[x] = f[x]
BY DEF Without, Restrict

LEMMA UpdateProps ==
  ASSUME NEW f, NEW g
  PROVE  /\ DOMAIN Update(f, g) = DOMAIN f \cup DOMAIN g
         /\ \A x \in DOMAIN g : Update(f, g)[x] = g[x]
         /\ \A x \in DOMAIN f \ DOMAIN g : Update(f, g)[x] = f[x]
BY DEF Update

LEMMA EmptyProps == DOMAIN Empty = {} /\ \A D, R : IsMap(Empty, D, R)
BY DEF Empty, IsMap

\* A map keeps its type when it gains a typed entry, loses entries, or is
\* updated with a map of the same type.
LEMMA MapTypes ==
  ASSUME NEW f, NEW D, NEW R, IsMap(f, D, R)
  PROVE  /\ \A k \in D, v \in R : IsMap(Put(f, k, v), D, R)
         /\ \A S : IsMap(Without(f, S), D, R)
         /\ \A g : IsMap(g, D, R) => IsMap(Update(f, g), D, R)
<1>1. ASSUME NEW k \in D, NEW v \in R
      PROVE  IsMap(Put(f, k, v), D, R)
  BY DEF IsMap, Put
<1>2. ASSUME NEW S
      PROVE  IsMap(Without(f, S), D, R)
  BY DEF IsMap, Without, Restrict
<1>3. ASSUME NEW g, IsMap(g, D, R)
      PROVE  IsMap(Update(f, g), D, R)
  BY <1>3 DEF IsMap, Update
<1>4. QED
  BY <1>1, <1>2, <1>3

-----------------------------------------------------------------------------
(***************************************************************************)
(* The helpers of subscribeInternal.                                       *)
(***************************************************************************)

\* Accepted returns a list of exactly the nodes that were not rejected.
LEMMA AcceptedProps ==
  ASSUME NEW S, NEW nodes \in Seq(S), NEW rej
  PROVE  /\ Accepted(nodes, rej) \in Seq(S)
         /\ Range(Accepted(nodes, rej)) = Range(nodes) \ rej
<1> DEFINE n == Len(nodes)
           V == Seq(S)
           step == [k \in 1 .. n |-> [t \in V |->
                      IF nodes[k] \in rej THEN t ELSE Append(t, nodes[k])]]
           IsTaken(f) == f = [k \in 0 .. n |->
                           IF k = 0 THEN <<>>
                           ELSE IF nodes[k] \in rej THEN f[k - 1]
                           ELSE Append(f[k - 1], nodes[k])]
           taken == CHOOSE f : IsTaken(f)
<1>1. n \in Nat /\ <<>> \in V /\ \A k \in 1 .. n : nodes[k] \in S
  OBVIOUS
<1>2. step \in [1 .. n -> [V -> V]]
  <2> HIDE DEF n
  <2>1. \A k \in 1 .. n, t \in V :
          (IF nodes[k] \in rej THEN t ELSE Append(t, nodes[k])) \in V
    BY <1>1
  <2> HIDE DEF V
  <2>2. QED
    BY <2>1
<1>3. \E f : IsTaken(f)
  <2>1. PICK f \in [0 .. n -> V] :
          f[0] = <<>> /\ \A k \in 1 .. n : f[k] = step[k][f[k - 1]]
    <3> HIDE DEF step, V, n
    <3>1. IsStep(step, n, V)
      BY <1>2 DEF IsStep
    <3>2. \E f : Recurs(f, n, V, <<>>, step)
      BY <1>1, <3>1, Recursion
    <3>3. QED
      BY <3>2 DEF Recurs
  <2>2. ASSUME NEW k \in 0 .. n
        PROVE  f[k] = IF k = 0 THEN <<>>
                      ELSE IF nodes[k] \in rej THEN f[k - 1]
                      ELSE Append(f[k - 1], nodes[k])
    <3>1. CASE k = 0
      <4> HIDE DEF step, V, n
      <4> QED BY <2>1, <3>1
    <3>2. CASE k # 0
      <4>1. k \in 1 .. n /\ k - 1 \in 0 .. n
        BY <1>1, <3>2
      <4>2. f[k - 1] \in V
        BY <2>1, <4>1
      <4>3. f[k] = step[k][f[k - 1]]
        <5> HIDE DEF step, V, n
        <5> QED BY <2>1, <3>2
      <4>4. step[k][f[k - 1]] = IF nodes[k] \in rej THEN f[k - 1]
                                ELSE Append(f[k - 1], nodes[k])
        <5> HIDE DEF V, n
        <5> QED BY <4>1, <4>2
      <4>5. QED
        BY <3>2, <4>3, <4>4
    <3>3. QED
      BY <3>1, <3>2
  <2>3. f = [k \in 0 .. n |-> f[k]]
    BY <2>1
  <2>4. IsTaken(f)
    <3> HIDE DEF n
    <3> QED BY <2>2, <2>3
  <2>5. QED
    BY <2>4
<1>4. IsTaken(taken)
  <2> HIDE DEF IsTaken
  <2> QED BY <1>3
<1>5. Accepted(nodes, rej) = taken[n]
  BY DEF Accepted
<1>6. /\ taken[0] = <<>>
      /\ \A k \in 1 .. n : taken[k] = IF nodes[k] \in rej THEN taken[k - 1]
                                      ELSE Append(taken[k - 1], nodes[k])
  <2> HIDE DEF taken, n
  <2>1. \A k \in 0 .. n : taken[k] = IF k = 0 THEN <<>>
                                    ELSE IF nodes[k] \in rej THEN taken[k - 1]
                                    ELSE Append(taken[k - 1], nodes[k])
    BY <1>4
  <2>2. 0 \in 0 .. n /\ \A k \in 1 .. n : k \in 0 .. n /\ k # 0
    BY <1>1
  <2>3. QED
    BY <2>1, <2>2
<1> HIDE DEF taken, step
<1> DEFINE Front(k) == {nodes[j] : j \in 1 .. k} \ rej
           Good == {k \in 0 .. n : taken[k] \in Seq(S) /\ Range(taken[k]) = Front(k)}
<1>7. 0 \in Good
  <2>1. Range(<<>>) = {}
    BY DEF Range
  <2>2. Front(0) = {}
    OBVIOUS
  <2>3. QED
    <3> HIDE DEF Front, n
    <3>1. taken[0] = <<>> /\ <<>> \in Seq(S) /\ 0 \in 0 .. n
      BY <1>1, <1>6
    <3>2. QED
      BY <2>1, <2>2, <3>1
<1>8. ASSUME NEW k \in 0 .. n - 1, k \in Good
      PROVE  k + 1 \in Good
  <2>1. k + 1 \in 1 .. n /\ (k + 1) - 1 = k /\ k + 1 \in 0 .. n
    BY <1>1
  <2>2. taken[k] \in Seq(S) /\ Range(taken[k]) = Front(k)
    BY <1>8
  <2>3. taken[k + 1] = IF nodes[k + 1] \in rej THEN taken[k]
                       ELSE Append(taken[k], nodes[k + 1])
    <3> HIDE DEF n
    <3> QED BY <1>6, <2>1
  <2>4. Front(k + 1) = Front(k) \cup ({nodes[k + 1]} \ rej)
    BY <2>1
  <2>5. ASSUME NEW t \in Seq(S), NEW e \in S
        PROVE  Append(t, e) \in Seq(S) /\ Range(Append(t, e)) = Range(t) \cup {e}
    <3>1. /\ Append(t, e) \in Seq(S) /\ DOMAIN Append(t, e) = 1 .. Len(t) + 1
          /\ DOMAIN t = 1 .. Len(t)
          /\ Append(t, e)[Len(t) + 1] = e
          /\ \A j \in 1 .. Len(t) : Append(t, e)[j] = t[j]
      OBVIOUS
    <3>2. QED
      BY <3>1 DEF Range
  <2>6. nodes[k + 1] \in S
    BY <1>1, <2>1
  <2> HIDE DEF Front, n
  <2>7. taken[k + 1] \in Seq(S) /\ Range(taken[k + 1]) = Front(k + 1)
    <3>1. CASE nodes[k + 1] \in rej
      BY <2>2, <2>3, <2>4, <3>1
    <3>2. CASE nodes[k + 1] \notin rej
      <4>1. taken[k + 1] = Append(taken[k], nodes[k + 1])
        BY <2>3, <3>2
      <4>2. {nodes[k + 1]} \ rej = {nodes[k + 1]}
        BY <3>2
      <4>3. QED
        <5> DEFINE t == taken[k]
                   e == nodes[k + 1]
        <5>1. t \in Seq(S) /\ e \in S /\ Range(t) = Front(k)
          BY <2>2, <2>6
        <5> HIDE DEF t, e
        <5>2. Append(t, e) \in Seq(S) /\ Range(Append(t, e)) = Range(t) \cup {e}
          BY <2>5, <5>1
        <5>3. taken[k + 1] = Append(t, e) /\ Front(k + 1) = Front(k) \cup {e}
          BY <2>4, <4>1, <4>2 DEF t, e
        <5>4. QED
          BY <5>1, <5>2, <5>3
    <3>3. QED
      BY <3>1, <3>2
  <2>8. QED
    BY <2>1, <2>7
<1>9. n \in Good
  <2> HIDE DEF Good, n
  <2>1. 0 .. n \subseteq Good /\ n \in 0 .. n
    BY <1>1, <1>7, <1>8, CountingTo
  <2>2. QED
    BY <2>1
<1>10. Front(n) = Range(nodes) \ rej
  BY DEF Range
<1>11. QED
  <2> HIDE DEF Front, n
  <2> QED BY <1>5, <1>9, <1>10

LEMMA ItemsProps ==
  ASSUME nextHandle \in Nat, NEW S, NEW nodes \in Seq(S), NEW rej
  PROVE  /\ DOMAIN Items(nodes, rej) \subseteq
              nextHandle + 1 .. nextHandle + Len(nodes)
         /\ \A h \in DOMAIN Items(nodes, rej) :
              Items(nodes, rej)[h] \in Range(nodes) \ rej
         /\ \A k \in DOMAIN nodes : nodes[k] \notin rej =>
              /\ nextHandle + k \in DOMAIN Items(nodes, rej)
              /\ Items(nodes, rej)[nextHandle + k] = nodes[k]
<1> DEFINE K == {j \in DOMAIN nodes : nodes[j] \notin rej}
<1>1. DOMAIN nodes = 1 .. Len(nodes) /\ Len(nodes) \in Nat
  OBVIOUS
<1>2. Items(nodes, rej) =
        [h \in {nextHandle + k : k \in K} |-> nodes[h - nextHandle]]
  BY DEF Items
<1>3. \A k \in K : /\ k \in 1 .. Len(nodes) /\ (nextHandle + k) - nextHandle = k
                   /\ nodes[k] \in Range(nodes) \ rej
  BY <1>1 DEF Range
<1>4. ASSUME NEW k \in K
      PROVE  /\ nextHandle + k \in DOMAIN Items(nodes, rej)
             /\ Items(nodes, rej)[nextHandle + k] = nodes[k]
  <2> HIDE DEF K
  <2> QED BY <1>2, <1>3
<1>5. ASSUME NEW h \in DOMAIN Items(nodes, rej)
      PROVE  \E k \in K : h = nextHandle + k
  <2> HIDE DEF K
  <2> QED BY <1>2
<1>6. \A h \in DOMAIN Items(nodes, rej) :
        /\ h \in nextHandle + 1 .. nextHandle + Len(nodes)
        /\ Items(nodes, rej)[h] \in Range(nodes) \ rej
  <2> TAKE h \in DOMAIN Items(nodes, rej)
  <2>1. PICK k \in K : h = nextHandle + k
    BY <1>5
  <2> HIDE DEF K
  <2>2. QED
    BY <1>1, <1>3, <1>4, <2>1
<1>7. QED
  BY <1>4, <1>6

\* Each handle in last is that of an item in items for the same node.
Names(last, items) ==
  \A n \in DOMAIN last : last[n] \in DOMAIN items /\ items[last[n]] = n

\* The handle recorded for an accepted node is that of one of its items.
LEMMA LastHandlesProps ==
  ASSUME nextHandle \in Nat, NEW S, NEW nodes \in Seq(S), NEW rej
  PROVE  /\ DOMAIN LastHandles(nodes, rej) = Range(nodes) \ rej
         /\ Names(LastHandles(nodes, rej), Items(nodes, rej))
<1>1. DOMAIN LastHandles(nodes, rej) = Range(nodes) \ rej
  BY DEF LastHandles
<1>2. ASSUME NEW n \in Range(nodes) \ rej
      PROVE  /\ LastHandles(nodes, rej)[n] \in DOMAIN Items(nodes, rej)
             /\ Items(nodes, rej)[LastHandles(nodes, rej)[n]] = n
  <2> DEFINE K == {k \in DOMAIN nodes : nodes[k] = n}
  <2>1. K \in SUBSET Nat /\ K # {} /\ \A k \in K : k <= Len(nodes)
    BY DEF Range
  <2>2. \E k \in K : \A j \in K : j <= k
    <3> HIDE DEF K
    <3>1. Len(nodes) \in Nat
      OBVIOUS
    <3>2. QED
      BY <2>1, <3>1, GreatestNatural
  <2>3. \E k \in K : \A j \in K : k >= j
    <3> HIDE DEF K
    <3> QED BY <2>1, <2>2
  <2>4. Max(K) \in K
    <3> HIDE DEF K
    <3> QED BY <2>3 DEF Max
  <2>5. LastHandles(nodes, rej)[n] = nextHandle + Max(K)
    BY DEF LastHandles
  <2> DEFINE k == Max(K)
  <2>6. k \in DOMAIN nodes /\ nodes[k] = n
    <3> HIDE DEF k
    <3>1. k \in K
      BY <2>4 DEF k
    <3>2. QED
      BY <3>1
  <2> HIDE DEF k
  <2>7. QED
    BY <2>5, <2>6, ItemsProps DEF k
<1>3. QED
  BY <1>1, <1>2 DEF Names

\* The group of i, as it is or new.
LEMMA GroupProps ==
  ASSUME TypeOK, NEW i, i \in DOMAIN groups \/ \E s \in SubIds : IsFresh(s)
  PROVE  /\ IsGroup(Group(i))
         /\ i \in DOMAIN groups => Group(i) = groups[i]
         /\ i \notin DOMAIN groups =>
              /\ IsFresh(Group(i).sub) /\ Group(i).refs = 0
              /\ DOMAIN Group(i).route = {} /\ DOMAIN Group(i).item = {}
<1>1. CASE i \in DOMAIN groups
  BY <1>1 DEF TypeOK, Group
<1>2. CASE i \notin DOMAIN groups
  <2>1. FreshSub \in SubIds /\ IsFresh(FreshSub)
    BY <1>2 DEF FreshSub
  <2>2. /\ Group(i).sub = FreshSub /\ Group(i).refs = 0
        /\ Group(i).route = Empty /\ Group(i).item = Empty
    BY <1>2 DEF Group, NewGroup
  <2>3. QED
    BY <1>2, <2>1, <2>2, EmptyProps DEF IsGroup
<1>3. QED
  BY <1>1, <1>2

\* What the server holds once that group's gopcua Subscription exists.
LEMMA OpenedProps ==
  ASSUME NEW i
  PROVE  /\ i \in DOMAIN groups => Opened(i) = server
         /\ i \notin DOMAIN groups =>
              /\ DOMAIN Opened(i) = DOMAIN server \cup {Group(i).sub}
              /\ Opened(i)[Group(i).sub] = Empty
              /\ \A s \in DOMAIN server \ {Group(i).sub} : Opened(i)[s] = server[s]
<1>1. CASE i \in DOMAIN groups
  BY <1>1 DEF Opened
<1>2. CASE i \notin DOMAIN groups
  <2>1. Opened(i) = Put(server, Group(i).sub, Empty)
    BY <1>2 DEF Opened
  <2>2. QED
    BY <1>2, <2>1 DEF Put
<1>3. QED
  BY <1>1, <1>2

LEMMA ParsesProps ==
  ASSUME NEW nodes \in Seq(Nodes), NEW i, Parses(nodes, i)
  PROVE  nodes \in Seq(Nodes \ Malformed)
BY DEF Parses

-----------------------------------------------------------------------------
(***************************************************************************)
(* Type correctness.                                                       *)
(***************************************************************************)

ServerOK ==
  /\ DOMAIN server \subseteq SubIds
  /\ \A s \in DOMAIN server : IsMap(server[s], 1 .. MaxHandles, Nodes \ Malformed)

GroupsOK ==
  DOMAIN groups \subseteq Intervals /\ \A i \in DOMAIN groups : IsGroup(groups[i])

\* What subscribeInternal changes keeps its type.
LEMMA SubscribeTypes ==
  ASSUME TypeOK, NEW id \in Ids, NEW nodes \in Seq(Nodes), NEW i \in Intervals,
         subscribeInternal(id, nodes, i)
  PROVE  /\ ServerOK' /\ GroupsOK' /\ nextHandle' \in 0 .. MaxHandles
         /\ IsMap(records', Ids, Entry) /\ IsMap(intents', Ids, Entry)
         /\ unsaved' \subseteq Ids /\ faults' \in Nat
<1> DEFINE g == Group(i)
<1>1. /\ i \in DOMAIN groups \/ \E s \in SubIds : IsFresh(s)
      /\ nextHandle + Len(nodes) <= MaxHandles
  BY DEF subscribeInternal
<1>2. /\ IsGroup(g) /\ g.sub \in SubIds
  BY <1>1, GroupProps DEF IsGroup
<1>3. /\ ServerOK /\ GroupsOK /\ nextHandle \in Nat /\ MaxHandles \in Nat
      /\ IsMap(records, Ids, Entry) /\ IsMap(intents, Ids, Entry)
      /\ unsaved \subseteq Ids /\ faults \in Nat /\ Len(nodes) \in Nat
      /\ nextHandle <= MaxHandles
  <2>1. MaxHandles \in Nat /\ nextHandle \in 0 .. MaxHandles /\ Len(nodes) \in Nat
    BY SubscriptionsAssumption DEF TypeOK
  <2>2. nextHandle \in Nat /\ nextHandle <= MaxHandles
    BY <2>1
  <2>3. QED
    BY <2>1, <2>2 DEF TypeOK, ServerOK, GroupsOK
<1>4. /\ DOMAIN Opened(i) \subseteq SubIds
      /\ \A s \in DOMAIN Opened(i) :
           IsMap(Opened(i)[s], 1 .. MaxHandles, Nodes \ Malformed)
  BY <1>2, <1>3, OpenedProps, EmptyProps DEF ServerOK
<1>5. ASSUME groups' = Put(groups, i, g), server' = Opened(i)
      PROVE  ServerOK' /\ GroupsOK'
  <2>1. ServerOK'
    BY <1>4, <1>5 DEF ServerOK
  <2>2. GroupsOK'
    BY <1>2, <1>3, <1>5 DEF GroupsOK, Put
  <2>3. QED
    BY <2>1, <2>2
<1>6. CASE CreateFails(i)
  <2>1. UNCHANGED <<server, records, groups, nextHandle, intents, unsaved>>
    BY <1>6 DEF CreateFails, memory
  <2>2. faults' \in Nat
    BY <1>3, <1>6 DEF CreateFails, Failures
  <2>3. QED
    BY <1>3, <2>1, <2>2, SubscriptionsAssumption DEF ServerOK, GroupsOK, TypeOK
<1>7. CASE ParseFails(nodes, i)
  <2>1. /\ groups' = Put(groups, i, g) /\ server' = Opened(i)
        /\ UNCHANGED <<records, intents, unsaved>> /\ faults' = faults + 0
        /\ \E k \in DOMAIN nodes : nextHandle' = nextHandle + k - 1
    BY <1>7 DEF ParseFails, Failures
  <2>2. \A k \in DOMAIN nodes : nextHandle + k - 1 \in 0 .. MaxHandles
    BY <1>1, <1>3
  <2>3. QED
    BY <1>3, <1>5, <2>1, <2>2
<1>8. CASE MonitorFails(nodes, i)
  <2>1. /\ groups' = Put(groups, i, g) /\ server' = Opened(i)
        /\ UNCHANGED <<records, intents, unsaved>>
        /\ nextHandle' = nextHandle + Len(nodes)
        /\ faults' \in Nat
    BY <1>3, <1>8 DEF MonitorFails, Failures
  <2>2. QED
    BY <1>1, <1>3, <1>5, <2>1
<1>9. CASE NoneAccepted(nodes, i)
  <2>1. /\ UNCHANGED <<records, intents, unsaved>>
        /\ nextHandle' = nextHandle + Len(nodes)
        /\ faults' = faults + 1
        /\ groups' \in {groups, Without(groups, {i})}
        /\ server' \in {server, Opened(i), Without(server, {g.sub})}
    BY <1>9 DEF NoneAccepted, Failures
  <2>2. ServerOK' /\ GroupsOK'
    <3>1. ServerOK'
      BY <1>3, <1>4, <2>1 DEF ServerOK, Without, Restrict
    <3>2. GroupsOK'
      BY <1>3, <2>1 DEF GroupsOK, Without, Restrict
    <3>3. QED
      BY <3>1, <3>2
  <2>3. QED
    BY <1>1, <1>3, <2>1, <2>2
<1>10. CASE SomeAccepted(id, nodes, i)
  <2>1. PICK rej \in SUBSET Range(nodes) :
          LET items == Items(nodes, rej)
              entry == [nodes |-> Accepted(nodes, rej), interval |-> i]
              h == [sub   |-> g.sub,
                    refs  |-> g.refs,
                    route |-> Update(g.route, items),
                    item  |-> Update(g.item, LastHandles(nodes, rej))]
          IN /\ groups' = Put(groups, i, AddRef(h))
             /\ server' = Put(server, g.sub, Update(Opened(i)[g.sub], items))
             /\ records' = Put(records, id, entry)
             /\ intents' \in {intents, Put(intents, id, entry)}
    BY <1>10 DEF SomeAccepted, Save
  <2>2. /\ Parses(nodes, i) /\ g.sub \in DOMAIN Opened(i)
        /\ nextHandle' = nextHandle + Len(nodes)
        /\ unsaved' \in {unsaved \ {id}, unsaved \cup {id}}
        /\ faults' \in {faults, faults + 1, faults + 2}
    BY <1>3, <1>10 DEF SomeAccepted, Failures
  <2> DEFINE items == Items(nodes, rej)
             last == LastHandles(nodes, rej)
             list == Accepted(nodes, rej)
             N == Nodes \ Malformed
             H == 1 .. MaxHandles
  <2>3. nodes \in Seq(N)
    BY <2>2, ParsesProps
  <2>4. Range(nodes) \subseteq N
    BY <2>3 DEF Range
  <2>5. IsMap(items, H, N)
    <3>1. nextHandle + 1 .. nextHandle + Len(nodes) \subseteq H
      BY <1>1, <1>3
    <3> HIDE DEF H
    <3>2. QED
      BY <1>3, <2>4, <3>1, ItemsProps DEF IsMap
  <2>6. IsMap(last, N, H)
    <3> HIDE DEF H
    <3>1. /\ DOMAIN last = Range(nodes) \ rej
          /\ \A n \in DOMAIN last : last[n] \in DOMAIN items
      BY <1>3, LastHandlesProps DEF Names
    <3>2. QED
      BY <2>4, <2>5, <3>1 DEF IsMap
  <2>7. [nodes |-> list, interval |-> i] \in Entry
    <3>1. list \in Seq(N)
      BY <2>3, AcceptedProps
    <3> HIDE DEF list
    <3>2. QED
      BY <3>1 DEF Entry
  <2> HIDE DEF items, last, list, N, H
  <2>8. IsMap(records', Ids, Entry) /\ IsMap(intents', Ids, Entry)
    <3>1. /\ records' = Put(records, id, [nodes |-> list, interval |-> i])
          /\ intents' \in {intents, Put(intents, id, [nodes |-> list, interval |-> i])}
      BY <2>1 DEF list
    <3>2. QED
      BY <1>3, <2>7, <3>1, MapTypes
  <2>9. ServerOK'
    <3>1. IsMap(Opened(i)[g.sub], H, N)
      BY <1>4, <2>2 DEF H, N
    <3>2. IsMap(Update(Opened(i)[g.sub], items), H, N)
      BY <2>5, <3>1, MapTypes
    <3>3. server' = Put(server, g.sub, Update(Opened(i)[g.sub], items))
      BY <2>1 DEF items
    <3>4. QED
      <4> DEFINE u == Update(Opened(i)[g.sub], items)
      <4> HIDE DEF u
      <4>1. IsMap(u, 1 .. MaxHandles, Nodes \ Malformed) /\ server' = Put(server, g.sub, u)
        BY <3>2, <3>3 DEF u, H, N
      <4>2. QED
        BY <1>2, <1>3, <4>1 DEF ServerOK, Put
  <2>10. GroupsOK'
    <3> DEFINE r == Update(g.route, items)
               m == Update(g.item, last)
               h == [sub |-> g.sub, refs |-> g.refs, route |-> r, item |-> m]
    <3>1. IsMap(r, H, N) /\ IsMap(m, N, H)
      BY <1>2, <2>5, <2>6, MapTypes DEF IsGroup, H, N
    <3>2. g.refs \in Nat
      BY <1>2 DEF IsGroup
    <3>3. groups' = Put(groups, i, AddRef(h))
      BY <2>1 DEF items, last
    <3> HIDE DEF r, m
    <3>4. /\ AddRef(h).sub = g.sub /\ AddRef(h).refs = g.refs + 1
          /\ AddRef(h).route = r /\ AddRef(h).item = m
      BY DEF AddRef
    <3>5. IsGroup(AddRef(h))
      BY <1>2, <3>1, <3>2, <3>4 DEF IsGroup, H, N
    <3> HIDE DEF h
    <3>6. QED
      <4> DEFINE a == AddRef(h)
      <4> HIDE DEF a
      <4>1. IsGroup(a) /\ groups' = Put(groups, i, a)
        BY <3>3, <3>5 DEF a
      <4>2. QED
        BY <1>3, <4>1 DEF GroupsOK, Put
  <2>11. QED
    BY <1>1, <1>3, <2>2, <2>8, <2>9, <2>10
<1>11. QED
  BY <1>6, <1>7, <1>8, <1>9, <1>10 DEF subscribeInternal

\* Ids and handles are finite in number, and so is what is counted.
LEMMA CountedFinite ==
  ASSUME TypeOK, NEW i, NEW n
  PROVE  /\ IsFiniteSet(Members(i)) /\ IsFiniteSet(Takers(i, n))
         /\ Takers(i, n) \subseteq Members(i)
<1>1. Members(i) \subseteq Ids /\ Takers(i, n) \subseteq Members(i)
  BY DEF TypeOK, IsMap, Members, Takers
<1>2. QED
  BY <1>1, FS_Subset, SubscriptionsAssumption

LEMMA HandlesFinite ==
  ASSUME NEW g, NEW n, IsMap(g.route, 1 .. MaxHandles, Nodes \ Malformed)
  PROVE  IsFiniteSet(Handles(g, n))
<1>1. IsFiniteSet(1 .. MaxHandles)
  BY FS_Interval, SubscriptionsAssumption
<1>2. Handles(g, n) \subseteq 1 .. MaxHandles
  BY DEF Handles, IsMap
<1>3. QED
  BY <1>1, <1>2, FS_Subset

\* A finite set is at least as large as each of its subsets, and has a
\* cardinality above 0 once it has an element.
LEMMA AtLeast ==
  ASSUME NEW S, NEW T, IsFiniteSet(T), S \subseteq T
  PROVE  /\ Cardinality(S) \in Nat /\ Cardinality(T) \in Nat
         /\ Cardinality(S) <= Cardinality(T)
         /\ S # {} => Cardinality(T) >= 1
<1>1. IsFiniteSet(S) /\ Cardinality(S) <= Cardinality(T)
  BY FS_Subset
<1>2. Cardinality(S) \in Nat /\ Cardinality(T) \in Nat
  BY <1>1, FS_CardinalityType
<1>3. S # {} => Cardinality(S) # 0
  BY <1>1, FS_EmptySet
<1>4. QED
  BY <1>1, <1>2, <1>3

\* The group of a recorded subscription counts it.
LEMMA MemberCounted ==
  ASSUME TypeOK, GroupInv, NEW id \in DOMAIN records
  PROVE  /\ records[id].interval \in DOMAIN groups
         /\ groups[records[id].interval].refs \in Nat \ {0}
<1> DEFINE i == records[id].interval
<1>1. i \in DOMAIN groups /\ groups[i].refs >= Cardinality(Members(i))
  BY DEF GroupInv, Counts
<1>2. groups[i].refs \in Nat
  BY <1>1 DEF TypeOK, IsGroup
<1>3. id \in Members(i)
  BY DEF Members
<1> HIDE DEF i
<1>4. Cardinality(Members(i)) \in Nat /\ Cardinality(Members(i)) >= 1
  BY <1>3, CountedFinite, AtLeast
<1>5. QED
  BY <1>1, <1>2, <1>4 DEF i

LEMMA UnsubscribeTypes ==
  ASSUME TypeOK, GroupInv, NEW id \in Ids, Unsubscribe(id)
  PROVE  /\ ServerOK' /\ GroupsOK'
         /\ IsMap(records', Ids, Entry) /\ IsMap(intents', Ids, Entry)
         /\ unsaved' \subseteq Ids /\ faults' \in Nat
<1> DEFINE i == records[id].interval
           nodes == records[id].nodes
           g == Detach(groups[i], nodes)
<1>1. id \in DOMAIN records /\ i \in DOMAIN groups /\ groups[i].refs \in Nat \ {0}
  BY MemberCounted DEF Unsubscribe
<1>2. PICK releases, deletes \in BOOLEAN :
        /\ groups' = IF LastRef(g) THEN Without(groups, {i}) ELSE Put(groups, i, g)
        /\ server' = IF releases THEN Released(g, Found(groups[i], nodes)) ELSE server
        /\ intents' = IF deletes THEN Without(intents, {id}) ELSE intents
        /\ Failures((IF releases THEN 0 ELSE 1) + (IF deletes THEN 0 ELSE 1))
  BY <1>1 DEF Unsubscribe
<1>3. records' = Without(records, {id}) /\ unsaved' = unsaved \ {id}
  BY DEF Unsubscribe
<1>4. ServerOK /\ GroupsOK /\ UNCHANGED <<>>
  BY DEF TypeOK, ServerOK, GroupsOK
<1>5. faults' \in Nat
  BY <1>2 DEF Failures, TypeOK
<1>6. IsMap(records', Ids, Entry) /\ IsMap(intents', Ids, Entry) /\ unsaved' \subseteq Ids
  BY <1>2, <1>3, MapTypes DEF TypeOK
<1>7. IsGroup(g)
  <2> DEFINE o == groups[i]
             H == 1 .. MaxHandles
             N == Nodes \ Malformed
  <2>1. IsMap(o.route, H, N) /\ IsMap(o.item, N, H) /\ o.sub \in SubIds
    BY <1>1 DEF TypeOK, IsGroup
  <2>2. o.refs - 1 \in Nat
    BY <1>1
  <2>3. /\ g.sub = o.sub /\ g.refs = o.refs - 1
        /\ g.route = Without(o.route, Found(o, nodes))
        /\ g.item = Without(o.item, Range(nodes))
    BY DEF Detach
  <2> HIDE DEF o, g, H, N
  <2>4. IsMap(g.route, H, N) /\ IsMap(g.item, N, H)
    BY <2>1, <2>3, MapTypes
  <2>5. QED
    BY <2>1, <2>2, <2>3, <2>4 DEF IsGroup, H, N
<1> HIDE DEF g, i
<1>8. GroupsOK'
  BY <1>1, <1>2, <1>4, <1>7 DEF GroupsOK, Put, Without, Restrict
<1>9. ServerOK'
  <2> DEFINE F == Found(groups[i], nodes)
             u == Without(server[g.sub], F)
  <2>1. \/ server' = server \/ server' = Without(server, {g.sub})
        \/ g.sub \in DOMAIN server /\ server' = Put(server, g.sub, u)
    BY <1>2 DEF Released
  <2>2. g.sub \in DOMAIN server => IsMap(u, 1 .. MaxHandles, Nodes \ Malformed)
    BY <1>4, MapTypes DEF ServerOK
  <2> HIDE DEF F, u
  <2>3. CASE server' = server
    BY <1>4, <2>3, SubscriptionsAssumption DEF ServerOK
  <2>4. CASE server' = Without(server, {g.sub})
    BY <1>4, <2>4 DEF ServerOK, Without, Restrict
  <2>5. CASE g.sub \in DOMAIN server /\ server' = Put(server, g.sub, u)
    BY <1>4, <2>2, <2>5 DEF ServerOK, Put
  <2>6. QED
    BY <2>1, <2>3, <2>4, <2>5
<1>10. QED
  BY <1>5, <1>6, <1>8, <1>9

\* The parts of TypeOK that are not about what subscribeInternal changes.
LinkOK    == link \in {"down", "up", "stale"} /\ heard \in BOOLEAN /\ changes \in Nat
RecordsOK == IsMap(records, Ids, Entry) /\ unsaved \subseteq Ids
RestoreOK == /\ pc \in [Restorers -> {"idle", "clear", "list", "restore"}]
             /\ \A r \in Restorers : IsMap(todo[r], Ids, Entry)
PumpOK    == /\ notifyCh \in Seq([handle : 1 .. MaxHandles, node : Nodes])
             /\ batch \subseteq [to : Nodes, from : Nodes]

Parts ==
  /\ LinkOK /\ ServerOK /\ RecordsOK /\ GroupsOK /\ RestoreOK /\ PumpOK
  /\ nextHandle \in 0 .. MaxHandles
  /\ IsMap(intents, Ids, Entry) /\ unused \subseteq Ids /\ skipped \subseteq Ids
  /\ running \in BOOLEAN /\ faults \in Nat

LEMMA TypeParts == (TypeOK <=> Parts) /\ (TypeOK' <=> Parts')
BY DEF TypeOK, Parts, LinkOK, ServerOK, RecordsOK, GroupsOK, RestoreOK, PumpOK

\* A part whose variables do not change keeps its type.
LEMMA Unchanged ==
  ASSUME TypeOK
  PROVE  /\ UNCHANGED <<link, heard, changes>> => LinkOK'
         /\ UNCHANGED server => ServerOK'
         /\ UNCHANGED <<records, unsaved>> => RecordsOK'
         /\ UNCHANGED groups => GroupsOK'
         /\ UNCHANGED restore => RestoreOK'
         /\ UNCHANGED pumped => PumpOK'
<1>1. /\ LinkOK /\ ServerOK /\ RecordsOK /\ GroupsOK /\ RestoreOK /\ PumpOK
  BY TypeParts DEF Parts
<1>2. UNCHANGED <<link, heard, changes>> => LinkOK'
  BY <1>1 DEF LinkOK
<1>3. UNCHANGED server => ServerOK'
  BY <1>1 DEF ServerOK
<1>4. UNCHANGED <<records, unsaved>> => RecordsOK'
  BY <1>1 DEF RecordsOK
<1>5. UNCHANGED groups => GroupsOK'
  BY <1>1 DEF GroupsOK
<1>6. UNCHANGED restore => RestoreOK'
  BY <1>1 DEF RestoreOK, restore
<1>7. UNCHANGED pumped => PumpOK'
  BY <1>1 DEF PumpOK, pumped
<1>8. QED
  BY <1>2, <1>3, <1>4, <1>5, <1>6, <1>7

\* What is empty has its type.
LEMMA EmptyTypes ==
  /\ server' = Empty => ServerOK'
  /\ records' = Empty /\ unsaved' \subseteq Ids => RecordsOK'
  /\ groups' = Empty => GroupsOK'
<1>1. server' = Empty => ServerOK'
  BY DEF Empty, ServerOK
<1>2. records' = Empty /\ unsaved' \subseteq Ids => RecordsOK'
  BY EmptyProps DEF RecordsOK
<1>3. groups' = Empty => GroupsOK'
  BY DEF Empty, GroupsOK
<1>4. QED
  BY <1>1, <1>2, <1>3


LEMMA RestoreTypes ==
  ASSUME TypeOK, NEW r \in Restorers, Restoring(r)
  PROVE  TypeOK'
<1> USE TypeParts DEF Parts, memory, pumped, restore, history
<1>1. ASSUME NEW label \in {"idle", "list", "restore"}, Goto(r, label), UNCHANGED todo
      PROVE  RestoreOK'
  BY <1>1 DEF Goto, RestoreOK
<1>2. CASE RestoreClear(r)
  BY <1>1, <1>2, EmptyTypes, Unchanged DEF RestoreClear, Clear
<1>3. CASE RestoreList(r)
  <2>1. /\ todo' = [todo EXCEPT ![r] = intents] /\ Goto(r, "restore")
        /\ UNCHANGED <<link, heard, server, memory, intents, running, pumped, history,
                       changes, faults>>
    BY <1>3 DEF RestoreList
  <2>2. RestoreOK'
    <3>1. \A q \in Restorers : todo'[q] = intents \/ todo'[q] = todo[q]
      BY <2>1
    <3>2. QED
      BY <2>1, <3>1 DEF Goto, RestoreOK
  <2>3. QED
    BY <2>1, <2>2, Unchanged
<1>4. CASE RestoreListFails(r)
  <2>1. running' \in BOOLEAN /\ faults' \in Nat /\ skipped' \subseteq Ids
    BY <1>4 DEF RestoreListFails, Failures, IsMap
  <2>2. QED
    BY <1>1, <1>4, <2>1, Unchanged DEF RestoreListFails
<1>5. CASE RestoreDone(r)
  BY <1>1, <1>5, Unchanged DEF RestoreDone
<1>6. ASSUME NEW id \in Ids, RestoreOne(r, id)
      PROVE  TypeOK'
  <2> DEFINE e == todo[r][id]
  <2>1. id \in DOMAIN todo[r] /\ subscribeInternal(id, e.nodes, e.interval)
    BY <1>6 DEF RestoreOne
  <2>2. e \in Entry
    BY <2>1 DEF RestoreOK, IsMap
  <2>3. e.nodes \in Seq(Nodes) /\ e.interval \in Intervals
    BY <2>2 DEF Entry
  <2>4. /\ ServerOK' /\ GroupsOK' /\ nextHandle' \in 0 .. MaxHandles
        /\ IsMap(records', Ids, Entry) /\ IsMap(intents', Ids, Entry)
        /\ unsaved' \subseteq Ids /\ faults' \in Nat
    <3> HIDE DEF e
    <3> QED BY <2>1, <2>3, SubscribeTypes
  <2>5. RestoreOK'
    <3> DEFINE w == Without(todo[r], {id})
    <3>1. IsMap(w, Ids, Entry)
      BY MapTypes DEF RestoreOK
    <3>2. todo' = [todo EXCEPT ![r] = w] /\ pc' = pc
      BY <1>6 DEF RestoreOne
    <3> HIDE DEF w
    <3>3. \A q \in Restorers : todo'[q] = w \/ todo'[q] = todo[q]
      BY <3>2
    <3>4. QED
      BY <3>1, <3>2, <3>3 DEF RestoreOK
  <2>6. /\ UNCHANGED <<link, heard, running, pumped, unused, changes>>
        /\ skipped' \subseteq Ids
    BY <1>6 DEF RestoreOne
  <2>7. QED
    BY <2>4, <2>5, <2>6, Unchanged DEF RecordsOK
<1>7. QED
  BY <1>2, <1>3, <1>4, <1>5, <1>6 DEF Restoring

LEMMA PumpTypes ==
  ASSUME TypeOK,
         \/ \E s \in SubIds : \E h \in 1 .. MaxHandles : Notify(s, h)
         \/ PumpTake \/ PumpFlush \/ Stop
  PROVE  TypeOK'
<1> USE TypeParts DEF Parts, memory, restore, history
<1> DEFINE N == [handle : 1 .. MaxHandles, node : Nodes]
<1>1. ASSUME PumpOK', running' \in BOOLEAN,
             UNCHANGED <<link, heard, server, memory, intents, restore, history,
                         changes, faults>>
      PROVE  TypeOK'
  BY <1>1, Unchanged
<1>2. ASSUME NEW s \in SubIds, NEW h \in 1 .. MaxHandles, Notify(s, h)
      PROVE  TypeOK'
  <2> DEFINE n == [handle |-> h, node |-> server[s][h]]
  <2>1. n \in N
    BY <1>2 DEF Notify, ServerOK, IsMap
  <2>2. notifyCh' = Append(notifyCh, n) /\ batch' = batch
    BY <1>2 DEF Notify
  <2>3. PumpOK'
    <3> HIDE DEF n, N
    <3>1. notifyCh \in Seq(N)
      BY DEF PumpOK, N
    <3>2. Append(notifyCh, n) \in Seq(N)
      BY <2>1, <3>1
    <3>3. QED
      BY <2>2, <3>2 DEF PumpOK, N
  <2>4. QED
    BY <1>1, <1>2, <2>3 DEF Notify
<1>3. CASE PumpTake
  <2>1. notifyCh \in Seq(N) /\ notifyCh # <<>>
    BY <1>3 DEF PumpTake, PumpOK
  <2>2. Head(notifyCh) \in N /\ Tail(notifyCh) \in Seq(N)
    <3> HIDE DEF N
    <3> QED BY <2>1
  <2>3. \A h : Lookup(h) \subseteq Nodes
    BY DEF Lookup, GroupsOK, IsGroup, IsMap
  <2>4. batch' \subseteq [to : Nodes, from : Nodes]
    <3> DEFINE n == Head(notifyCh)
    <3>1. n.node \in Nodes
      BY <2>2
    <3>2. \/ batch' = batch
          \/ \E to \in Lookup(n.handle) :
               batch' = {e \in batch : e.to # to} \cup {[to |-> to, from |-> n.node]}
      BY <1>3 DEF PumpTake
    <3> HIDE DEF n
    <3>3. QED
      BY <2>3, <3>1, <3>2 DEF PumpOK
  <2>5. QED
    BY <1>1, <1>3, <2>2, <2>4 DEF PumpTake, PumpOK
<1>4. CASE PumpFlush
  BY <1>1, <1>4 DEF PumpFlush, PumpOK
<1>5. CASE Stop
  BY <1>1, <1>5 DEF Stop, PumpOK
<1>6. QED
  BY <1>2, <1>3, <1>4, <1>5

LEMMA LinkTypes ==
  ASSUME TypeOK,
         \/ LoseSession \/ GoDown \/ Connect \/ Restart
         \/ \E r \in Restorers : Reconnect(r)
  PROVE  TypeOK'
<1> USE TypeParts DEF Parts, memory, pumped, restore
<1>1. ASSUME NEW l \in {"down", "up", "stale"}, NEW h \in BOOLEAN, Change(l, h)
      PROVE  /\ LinkOK' /\ ServerOK'
             /\ IsMap(intents', Ids, Entry) /\ unused' \subseteq Ids /\ faults' \in Nat
  <2>1. LinkOK'
    BY <1>1 DEF Change, LinkOK
  <2>2. QED
    BY <1>1, <2>1, EmptyTypes DEF Change
<1>2. CASE LoseSession \/ GoDown \/ Connect
  <2>1. /\ \E l \in {"down", "up", "stale"}, h \in BOOLEAN : Change(l, h)
        /\ UNCHANGED <<memory, running, restore, pumped, unsaved, skipped>>
    BY <1>2 DEF LoseSession, GoDown, Connect, LinkOK
  <2>2. QED
    BY <1>1, <2>1, Unchanged
<1>3. CASE Restart
  <2>1. /\ \E l \in {"down", "up", "stale"}, h \in BOOLEAN : Change(l, h)
        /\ records' = Empty /\ groups' = Empty /\ nextHandle' = 0 /\ running' = TRUE
        /\ notifyCh' = <<>> /\ batch' = {} /\ unsaved' = {} /\ skipped' = {}
    BY <1>3 DEF Restart
  <2>2. RestoreOK'
    BY <1>3, EmptyProps DEF Restart, RestoreOK
  <2>3. PumpOK'
    BY <2>1 DEF PumpOK
  <2>4. 0 \in 0 .. MaxHandles
    BY SubscriptionsAssumption
  <2>5. QED
    BY <1>1, <2>1, <2>2, <2>3, <2>4, EmptyTypes
<1>4. ASSUME NEW r \in Restorers, Reconnect(r)
      PROVE  TypeOK'
  <2>1. /\ Change("up", TRUE) /\ Goto(r, "clear")
        /\ UNCHANGED <<memory, running, todo, pumped, unsaved, skipped>>
    BY <1>4 DEF Reconnect
  <2>2. RestoreOK'
    BY <2>1 DEF Goto, RestoreOK
  <2>3. QED
    BY <1>1, <2>1, <2>2, Unchanged
<1>5. QED
  BY <1>2, <1>3, <1>4

LEMMA InitTypes == Init => TypeOK
<1> SUFFICES ASSUME Init
             PROVE  TypeOK
  OBVIOUS
<1>1. LinkOK /\ ServerOK /\ RecordsOK /\ GroupsOK
  BY EmptyProps DEF Init, LinkOK, ServerOK, RecordsOK, GroupsOK
<1>2. RestoreOK /\ PumpOK
  BY EmptyProps DEF Init, RestoreOK, PumpOK
<1>3. 0 \in 0 .. MaxHandles
  BY SubscriptionsAssumption
<1>4. QED
  BY <1>1, <1>2, <1>3, TypeParts, EmptyProps DEF Init, Parts

LEMMA NextTypes == TypeOK /\ GroupInv /\ [Next]_vars => TypeOK'
<1> SUFFICES ASSUME TypeOK, GroupInv, [Next]_vars
             PROVE  TypeOK'
  OBVIOUS
<1> USE TypeParts DEF Parts
<1>1. ASSUME NEW id \in Ids, NEW nodes \in Requests, NEW i \in Intervals,
             Subscribe(id, nodes, i)
      PROVE  TypeOK'
  <2>1. nodes \in Seq(Nodes) /\ subscribeInternal(id, nodes, i)
    BY <1>1, SubscriptionsAssumption DEF Subscribe
  <2>2. /\ UNCHANGED <<link, heard, running, restore, pumped, skipped, changes>>
        /\ unused' \subseteq Ids
    BY <1>1 DEF Subscribe
  <2>3. QED
    BY <2>1, <2>2, SubscribeTypes, Unchanged DEF RecordsOK
<1>2. ASSUME NEW id \in Ids, Unsubscribe(id)
      PROVE  TypeOK'
  <2>1. UNCHANGED <<link, heard, nextHandle, running, restore, pumped, unused, skipped,
                    changes>>
    BY <1>2 DEF Unsubscribe
  <2>2. QED
    BY <1>2, <2>1, UnsubscribeTypes, Unchanged DEF RecordsOK
<1>3. CASE UNCHANGED vars
  BY <1>3, Unchanged DEF vars, memory, history
<1>4. QED
  BY <1>1, <1>2, <1>3, RestoreTypes, PumpTypes, LinkTypes DEF Next

-----------------------------------------------------------------------------
(***************************************************************************)
(* What a step leaves alone.                                               *)
(***************************************************************************)

\* Handles are issued in order, an item that was not there before has a new
\* handle, and no notification is sent or taken.
NewItemsOnly ==
  /\ nextHandle' \in Nat /\ nextHandle <= nextHandle'
  /\ \A s \in DOMAIN server' : \A h \in DOMAIN server'[s] :
       \/ h \in nextHandle + 1 .. nextHandle'
       \/ s \in DOMAIN server /\ h \in DOMAIN server[s] /\ server'[s][h] = server[s][h]
  /\ notifyCh' = notifyCh

\* Group j gains no member, and none of its members changes its nodes.
NoNewMembers(j) ==
  \A id \in Members(j)' : id \in Members(j) /\ records'[id].nodes = records[id].nodes

\* No item of s is deleted, unless s dies.
ItemsKept(s) ==
  s \in DOMAIN server' => s \in DOMAIN server /\ DOMAIN server[s] \subseteq DOMAIN server'[s]

\* The parts of Owns that do not depend on the other groups.
Holds(g) ==
  /\ g.sub \in DOMAIN server => DOMAIN g.route \subseteq DOMAIN server[g.sub]
  /\ \A n \in DOMAIN g.item :
       g.item[n] \in DOMAIN g.route /\ g.route[g.item[n]] = n

LEMMA IssuedKept ==
  ASSUME TypeOK, IssuedInv, NewItemsOnly
  PROVE  IssuedInv'
<1>1. nextHandle \in Nat
  BY SubscriptionsAssumption DEF TypeOK
<1>2. \A s \in DOMAIN server : \A h \in DOMAIN server[s] : h \in Nat
  BY DEF TypeOK, IsMap
<1>3. \A k \in DOMAIN notifyCh : notifyCh[k].handle \in Nat
  <2> DEFINE N == [handle : 1 .. MaxHandles, node : Nodes]
  <2>1. notifyCh \in Seq(N) /\ \A n \in N : n.handle \in Nat
    BY DEF TypeOK
  <2> HIDE DEF N
  <2>2. QED
    BY <2>1
<1>4. ASSUME NEW s \in DOMAIN server', NEW h \in DOMAIN server'[s]
      PROVE  h <= nextHandle'
  <2>1. CASE h \in nextHandle + 1 .. nextHandle'
    BY <1>1, <2>1
  <2>2. CASE s \in DOMAIN server /\ h \in DOMAIN server[s]
    <3>1. h \in Nat /\ h <= nextHandle
      BY <1>2, <2>2 DEF IssuedInv
    <3>2. QED
      BY <1>1, <3>1 DEF NewItemsOnly
  <2>3. QED
    BY <2>1, <2>2 DEF NewItemsOnly
<1>5. ASSUME NEW k \in DOMAIN notifyCh'
      PROVE  notifyCh'[k].handle <= nextHandle'
  <2>1. notifyCh' = notifyCh /\ nextHandle <= nextHandle' /\ nextHandle' \in Nat
    BY DEF NewItemsOnly
  <2>2. notifyCh[k].handle \in Nat /\ notifyCh[k].handle <= nextHandle
    BY <1>3, <2>1 DEF IssuedInv
  <2>3. QED
    BY <1>1, <2>1, <2>2
<1>6. QED
  BY <1>4, <1>5 DEF IssuedInv

LEMMA RoutesKept ==
  ASSUME TypeOK, NewItemsOnly, NEW g, Routes(g),
         IsMap(g.route, 1 .. MaxHandles, Nodes \ Malformed)
  PROVE  Routes(g)'
<1>1. nextHandle \in Nat /\ nextHandle' \in Nat /\ nextHandle <= nextHandle'
  BY SubscriptionsAssumption DEF TypeOK, NewItemsOnly
<1>2. ASSUME NEW h \in DOMAIN g.route
      PROVE  /\ h <= nextHandle'
             /\ \A s \in DOMAIN server' :
                  h \in DOMAIN server'[s] => server'[s][h] = g.route[h]
             /\ \A k \in DOMAIN notifyCh' :
                  notifyCh'[k].handle = h => notifyCh'[k].node = g.route[h]
  <2>1. h \in Nat /\ h <= nextHandle
    BY DEF IsMap, Routes
  <2>2. h \notin nextHandle + 1 .. nextHandle' /\ h <= nextHandle'
    BY <1>1, <2>1
  <2>3. ASSUME NEW s \in DOMAIN server', h \in DOMAIN server'[s]
        PROVE  server'[s][h] = g.route[h]
    BY <2>2, <2>3 DEF NewItemsOnly, Routes
  <2>4. ASSUME NEW k \in DOMAIN notifyCh', notifyCh'[k].handle = h
        PROVE  notifyCh'[k].node = g.route[h]
    BY <2>4 DEF NewItemsOnly, Routes
  <2>5. QED
    BY <2>2, <2>3, <2>4
<1>3. QED
  BY <1>2 DEF Routes

\* A group that a step does not touch stays as good as it was, if it gains no
\* member.
LEMMA GroupKept ==
  ASSUME TypeOK, GroupInv, NewItemsOnly, NEW j \in DOMAIN groups,
         j \in DOMAIN groups', groups'[j] = groups[j],
         NoNewMembers(j), ItemsKept(groups[j].sub)
  PROVE  Counts(j, groups[j])' /\ Routes(groups[j])' /\ Holds(groups[j])'
<1> DEFINE g == groups[j]
<1>1. Counts(j, g) /\ Routes(g) /\ Owns(j, g) /\ IsGroup(g)
  BY DEF GroupInv, TypeOK
<1>2. Routes(groups[j])'
  <2>1. \A q : q = g => Routes(q)'
    <3> SUFFICES ASSUME NEW q, q = g
                 PROVE  Routes(q)'
      OBVIOUS
    <3>1. Routes(q) /\ IsMap(q.route, 1 .. MaxHandles, Nodes \ Malformed)
      BY <1>1 DEF IsGroup
    <3>2. QED
      BY <3>1, RoutesKept
  <2>2. QED
    BY <2>1 DEF Routes
<1>3. Holds(groups[j])'
  BY <1>1 DEF Holds, Owns, ItemsKept
<1>4. Counts(j, groups[j])'
  <2>1. Members(j)' \subseteq Members(j)
    BY DEF NoNewMembers
  <2>2. Cardinality(Members(j)') \in Nat /\ Cardinality(Members(j)) \in Nat
        /\ Cardinality(Members(j)') <= Cardinality(Members(j))
    BY <2>1, CountedFinite, AtLeast
  <2>3. ASSUME NEW n \in Nodes
        PROVE  Cardinality(Handles(g, n)) >= Cardinality(Takers(j, n)')
    <3>1. Takers(j, n)' \subseteq Takers(j, n)
      BY DEF NoNewMembers, Takers
    <3>2. /\ Cardinality(Takers(j, n)') \in Nat /\ Cardinality(Takers(j, n)) \in Nat
          /\ Cardinality(Takers(j, n)') <= Cardinality(Takers(j, n))
      BY <3>1, CountedFinite, AtLeast
    <3>3. Cardinality(Handles(g, n)) \in Nat
      BY <1>1, HandlesFinite, FS_CardinalityType DEF IsGroup
    <3>4. Cardinality(Handles(g, n)) >= Cardinality(Takers(j, n))
      BY <1>1 DEF Counts
    <3>5. QED
      BY <3>2, <3>3, <3>4
  <2>4. g.refs \in Nat /\ g.refs >= Cardinality(Members(j))
    BY <1>1 DEF Counts, IsGroup
  <2>5. groups'[j].refs >= Cardinality(Members(j)')
    BY <2>2, <2>4
  <2>6. \A n \in Nodes : Handles(groups'[j], n) = Handles(g, n)
    OBVIOUS
  <2>7. QED
    BY <2>3, <2>5, <2>6 DEF Counts, Handles
<1>5. QED
  BY <1>2, <1>3, <1>4

\* A step that changes, creates or removes the group of i, and nothing on the
\* server but that group's gopcua Subscription s.
LEMMA OneGroupChanged ==
  ASSUME TypeOK, GroupInv, NewItemsOnly, NEW i, NEW s,
         DOMAIN groups' \subseteq DOMAIN groups \cup {i},
         \A j \in DOMAIN groups \ {i} :
           /\ j \in DOMAIN groups' /\ groups'[j] = groups[j]
           /\ groups[j].sub # s /\ NoNewMembers(j),
         \A t \in DOMAIN server' \ {s} : t \in DOMAIN server /\ server'[t] = server[t],
         i \in DOMAIN groups' =>
           /\ groups'[i].sub = s
           /\ Counts(i, groups[i])' /\ Routes(groups[i])' /\ Holds(groups[i])',
         \A id \in DOMAIN records' : records'[id].interval \in DOMAIN groups'
  PROVE  GroupInv'
<1>1. ASSUME NEW j \in DOMAIN groups'
      PROVE  Counts(j, groups[j])' /\ Routes(groups[j])' /\ Holds(groups[j])'
  <2>1. CASE j = i
    BY <2>1
  <2>2. CASE j # i
    <3>1. /\ j \in DOMAIN groups /\ groups'[j] = groups[j]
          /\ groups[j].sub # s /\ NoNewMembers(j)
      BY <2>2
    <3>2. ItemsKept(groups[j].sub)
      BY <3>1 DEF ItemsKept
    <3>3. QED
      BY <3>1, <3>2, GroupKept
  <2>3. QED
    BY <2>1, <2>2
<1>2. ASSUME NEW j \in DOMAIN groups', NEW k \in DOMAIN groups' \ {j}
      PROVE  groups'[k].sub # groups'[j].sub
  <2>1. \A m \in DOMAIN groups' :
          \/ m = i /\ groups'[m].sub = s
          \/ m \in DOMAIN groups \ {i} /\ groups'[m] = groups[m] /\ groups[m].sub # s
    OBVIOUS
  <2>2. \A m \in DOMAIN groups : \A n \in DOMAIN groups \ {m} :
          groups[n].sub # groups[m].sub
    BY DEF GroupInv, Owns
  <2>3. QED
    BY <2>1, <2>2
<1>3. \A j \in DOMAIN groups' : Owns(j, groups[j])'
  BY <1>1, <1>2 DEF Owns, Holds
<1>4. QED
  BY <1>1, <1>3 DEF GroupInv

\* The group of i, as it is or new, is as the invariant says.
LEMMA GroupGood ==
  ASSUME TypeOK, GroupInv, NEW i, i \in DOMAIN groups \/ \E s \in SubIds : IsFresh(s)
  PROVE  /\ Counts(i, Group(i)) /\ Routes(Group(i)) /\ Holds(Group(i))
         /\ \A j \in DOMAIN groups \ {i} : groups[j].sub # Group(i).sub
<1>1. CASE i \in DOMAIN groups
  BY <1>1, GroupProps DEF GroupInv, Owns, Holds
<1>2. CASE i \notin DOMAIN groups
  <2> DEFINE g == Group(i)
  <2>1. /\ IsFresh(g.sub) /\ g.refs = 0
        /\ DOMAIN g.route = {} /\ DOMAIN g.item = {}
    BY <1>2, GroupProps
  <2> HIDE DEF g
  <2>2. Members(i) = {}
    BY <1>2 DEF GroupInv, Members
  <2>3. \A n : Takers(i, n) = {} /\ Handles(g, n) = {}
    BY <2>1, <2>2 DEF Takers, Handles
  <2>4. Cardinality({}) = 0
    BY FS_EmptySet
  <2>5. Counts(i, g)
    BY <2>1, <2>2, <2>3, <2>4 DEF Counts
  <2>6. Routes(g) /\ Holds(g) /\ \A j \in DOMAIN groups \ {i} : groups[j].sub # g.sub
    BY <2>1 DEF Routes, Holds, IsFresh
  <2>7. QED
    BY <2>5, <2>6 DEF g
<1>3. QED
  BY <1>1, <1>2

-----------------------------------------------------------------------------
(***************************************************************************)
(* The groups, step by step.                                               *)
(***************************************************************************)

\* The server with the group's gopcua Subscription opened has no new item.
LEMMA OpenedItems ==
  ASSUME TypeOK, NEW i,
         i \in DOMAIN groups \/ \E s \in SubIds : IsFresh(s),
         server' = Opened(i), notifyCh' = notifyCh,
         nextHandle' \in Nat, nextHandle <= nextHandle'
  PROVE  /\ NewItemsOnly
         /\ \A t \in DOMAIN server' \ {Group(i).sub} :
              t \in DOMAIN server /\ server'[t] = server[t]
<1>1. \A t \in DOMAIN server' :
        \/ t \in DOMAIN server /\ server'[t] = server[t]
        \/ t = Group(i).sub /\ DOMAIN server'[t] = {}
  BY OpenedProps, EmptyProps
<1>2. QED
  BY <1>1 DEF NewItemsOnly

\* The group stays behind as it was, or without a reference when it is new.
LEMMA GroupLeft ==
  ASSUME TypeOK, GroupInv, NEW i,
         i \in DOMAIN groups \/ \E s \in SubIds : IsFresh(s),
         groups' = Put(groups, i, Group(i)), server' = Opened(i),
         UNCHANGED <<records, notifyCh>>, nextHandle' \in Nat, nextHandle <= nextHandle'
  PROVE  NewItemsOnly /\ GroupInv'
<1> DEFINE g == Group(i)
<1>1. /\ NewItemsOnly
      /\ \A t \in DOMAIN server' \ {g.sub} : t \in DOMAIN server /\ server'[t] = server[t]
  BY OpenedItems
<1>2. /\ Counts(i, g) /\ Routes(g) /\ Holds(g) /\ IsGroup(g)
      /\ \A j \in DOMAIN groups \ {i} : groups[j].sub # g.sub
  BY GroupGood, GroupProps
<1>3. /\ DOMAIN groups' = DOMAIN groups \cup {i} /\ groups'[i] = g
      /\ \A j \in DOMAIN groups \ {i} : groups'[j] = groups[j]
  <2> HIDE DEF g
  <2>1. groups' = Put(groups, i, g)
    BY DEF g
  <2>2. QED
    BY <2>1 DEF Put
<1>4. \A j : NoNewMembers(j)
  BY DEF NoNewMembers, Members
<1>5. Routes(groups[i])'
  <2>1. \A q : q = g => Routes(q)'
    <3> SUFFICES ASSUME NEW q, q = g
                 PROVE  Routes(q)'
      OBVIOUS
    <3>1. Routes(q) /\ IsMap(q.route, 1 .. MaxHandles, Nodes \ Malformed)
      BY <1>2 DEF IsGroup
    <3>2. QED
      BY <1>1, <3>1, RoutesKept
  <2>2. QED
    BY <1>3, <2>1 DEF Routes
<1>6. Counts(i, groups[i])'
  BY <1>2, <1>3 DEF Counts, Handles, Members, Takers
<1>7. Holds(groups[i])'
  <2>1. CASE i \in DOMAIN groups
    BY <1>2, <1>3, <2>1, OpenedProps DEF Holds
  <2>2. CASE i \notin DOMAIN groups
    <3>1. DOMAIN g.route = {} /\ DOMAIN g.item = {}
      BY <2>2, GroupProps
    <3>2. QED
      BY <1>3, <3>1 DEF Holds
  <2>3. QED
    BY <2>1, <2>2
<1>8. \A id \in DOMAIN records' : records'[id].interval \in DOMAIN groups'
  BY <1>3 DEF GroupInv
<1> HIDE DEF g
<1>9. /\ DOMAIN groups' \subseteq DOMAIN groups \cup {i} /\ groups'[i].sub = g.sub
      /\ \A j \in DOMAIN groups \ {i} :
           /\ j \in DOMAIN groups' /\ groups'[j] = groups[j]
           /\ groups[j].sub # g.sub /\ NoNewMembers(j)
  BY <1>2, <1>3, <1>4
<1>10. QED
  BY <1>1, <1>5, <1>6, <1>7, <1>8, <1>9, OneGroupChanged

\* An unused group is forgotten, whatever becomes of its gopcua Subscription.
LEMMA GroupDropped ==
  ASSUME TypeOK, GroupInv, NEW i, NEW s,
         groups' = Without(groups, {i}),
         \A j \in DOMAIN groups \ {i} : groups[j].sub # s,
         \A t \in DOMAIN server' \ {s} : t \in DOMAIN server /\ server'[t] = server[t],
         NewItemsOnly,
         \A id \in DOMAIN records' : id \in DOMAIN records /\ records'[id] = records[id],
         Members(i)' = {}
  PROVE  GroupInv'
<1>1. /\ DOMAIN groups' = DOMAIN groups \ {i}
      /\ \A j \in DOMAIN groups \ {i} : groups'[j] = groups[j]
  BY DEF Without, Restrict
<1>2. \A j : NoNewMembers(j)
  BY DEF NoNewMembers, Members
<1>3. \A id \in DOMAIN records' : records'[id].interval \in DOMAIN groups'
  BY <1>1 DEF GroupInv, Members
<1>4. QED
  BY <1>1, <1>2, <1>3, OneGroupChanged

\* A finite set that counts at most 0 is empty.
LEMMA CountsNone ==
  ASSUME NEW S, IsFiniteSet(S), Cardinality(S) <= 0
  PROVE  S = {}
BY AtLeast

LEMMA NoneAcceptedGroups ==
  ASSUME TypeOK, GroupInv, NEW i \in Intervals, NEW nodes \in Seq(Nodes),
         i \in DOMAIN groups \/ \E s \in SubIds : IsFresh(s),
         NoneAccepted(nodes, i), notifyCh' = notifyCh
  PROVE  NewItemsOnly /\ GroupInv'
<1> DEFINE g == Group(i)
<1>1. nextHandle' \in Nat /\ nextHandle <= nextHandle' /\ records' = records
  <2>1. nextHandle' = nextHandle + Len(nodes) /\ records' = records
    BY DEF NoneAccepted
  <2>2. Len(nodes) \in Nat /\ nextHandle \in Nat
    BY SubscriptionsAssumption DEF TypeOK
  <2>3. QED
    BY <2>1, <2>2
<1>2. /\ Counts(i, g) /\ g.refs \in Nat
      /\ \A j \in DOMAIN groups \ {i} : groups[j].sub # g.sub
  BY GroupGood, GroupProps DEF IsGroup
<1>3. CASE g.refs = 0
  <2>1. /\ groups' = Without(groups, {i})
        /\ server' = Opened(i) \/ server' = Without(server, {g.sub})
    BY <1>3 DEF NoneAccepted
  <2>2. /\ NewItemsOnly
        /\ \A t \in DOMAIN server' \ {g.sub} : t \in DOMAIN server /\ server'[t] = server[t]
    <3>1. CASE server' = Opened(i)
      BY <1>1, <3>1, OpenedItems
    <3>2. CASE server' = Without(server, {g.sub})
      <4> HIDE DEF g
      <4>1. \A t \in DOMAIN server' : t \in DOMAIN server /\ server'[t] = server[t]
        BY <3>2 DEF Without, Restrict
      <4>2. QED
        BY <1>1, <4>1 DEF NewItemsOnly
    <3>3. QED
      BY <2>1, <3>1, <3>2
  <2>3. Members(i) = {}
    BY <1>2, <1>3, CountedFinite, CountsNone DEF Counts
  <2>4. Members(i)' = {}
    BY <1>1, <2>3 DEF Members
  <2> HIDE DEF g
  <2>5. \A id \in DOMAIN records' : id \in DOMAIN records /\ records'[id] = records[id]
    BY <1>1
  <2>6. QED
    BY <1>2, <2>1, <2>2, <2>4, <2>5, GroupDropped
<1>4. CASE g.refs # 0
  <2>1. UNCHANGED <<groups, server, records>>
    BY <1>1, <1>4 DEF NoneAccepted
  <2>2. NewItemsOnly
    BY <1>1, <2>1 DEF NewItemsOnly
  <2>3. \A j : NoNewMembers(j) /\ ItemsKept(j)
    BY <2>1 DEF NoNewMembers, Members, ItemsKept
  <2>4. \A j \in DOMAIN groups' :
          Counts(j, groups[j])' /\ Routes(groups[j])' /\ Holds(groups[j])'
    BY <2>1, <2>2, <2>3, GroupKept
  <2>5. \A j \in DOMAIN groups' : Owns(j, groups[j])'
    BY <2>1, <2>4 DEF GroupInv, Owns, Holds
  <2>6. QED
    BY <2>1, <2>2, <2>4, <2>5 DEF GroupInv
<1>5. QED
  BY <1>3, <1>4

\* One element more at most, one at least, one less at most.
LEMMA OneMore ==
  ASSUME NEW S, NEW T, NEW x, IsFiniteSet(S), T \subseteq S \cup {x}
  PROVE  /\ IsFiniteSet(T) /\ Cardinality(S) \in Nat /\ Cardinality(T) \in Nat
         /\ Cardinality(T) <= Cardinality(S) + 1
<1>1. /\ IsFiniteSet(S \cup {x}) /\ Cardinality(S) \in Nat
      /\ Cardinality(S \cup {x}) <= Cardinality(S) + 1
  <2>1. /\ IsFiniteSet(S \cup {x}) /\ Cardinality(S) \in Nat
        /\ Cardinality(S \cup {x}) = Cardinality(S)
           \/ Cardinality(S \cup {x}) = Cardinality(S) + 1
    BY FS_AddElement, FS_CardinalityType
  <2>2. QED
    BY <2>1
<1>2. /\ IsFiniteSet(T) /\ Cardinality(T) <= Cardinality(S \cup {x})
      /\ Cardinality(T) \in Nat /\ Cardinality(S \cup {x}) \in Nat
  BY <1>1, FS_Subset, FS_CardinalityType
<1>3. QED
  BY <1>1, <1>2

LEMMA OneNew ==
  ASSUME NEW S, NEW T, NEW x, IsFiniteSet(T), S \cup {x} \subseteq T, x \notin S
  PROVE  /\ Cardinality(S) \in Nat /\ Cardinality(T) \in Nat
         /\ Cardinality(S) + 1 <= Cardinality(T)
<1>1. IsFiniteSet(S \cup {x}) /\ IsFiniteSet(S)
  BY FS_Subset
<1>2. Cardinality(S \cup {x}) = Cardinality(S) + 1 /\ Cardinality(S) \in Nat
  BY <1>1, FS_AddElement, FS_CardinalityType
<1>3. Cardinality(S \cup {x}) <= Cardinality(T) /\ Cardinality(T) \in Nat
  BY FS_Subset, FS_CardinalityType
<1>4. QED
  BY <1>2, <1>3

\* The group of i gains the member id with record e, and an item for each node
\* that the member monitors.
Extends(id, i, items, last, e) ==
  /\ nextHandle' \in Nat /\ nextHandle <= nextHandle'
  /\ DOMAIN items \subseteq nextHandle + 1 .. nextHandle'
  /\ IsMap(items, 1 .. MaxHandles, Nodes \ Malformed)
  /\ Names(last, items)
  /\ \A n \in Range(e.nodes) : \E h \in DOMAIN items : items[h] = n
  /\ e.interval = i /\ records' = Put(records, id, e)
  /\ Group(i).sub \in DOMAIN Opened(i)
  /\ server' = Put(server, Group(i).sub, Update(Opened(i)[Group(i).sub], items))
  /\ groups' = Put(groups, i, [sub   |-> Group(i).sub,
                               refs  |-> Group(i).refs + 1,
                               route |-> Update(Group(i).route, items),
                               item  |-> Update(Group(i).item, last)])
  /\ notifyCh' = notifyCh

LEMMA GroupExtended ==
  ASSUME TypeOK, IssuedInv, GroupInv, NEW i \in Intervals, NEW id \in Ids,
         i \in DOMAIN groups \/ \E s \in SubIds : IsFresh(s),
         NEW items, NEW last, NEW e, Extends(id, i, items, last, e)
  PROVE  NewItemsOnly /\ GroupInv'
<1> USE DEF Extends, Names
<1> DEFINE g == Group(i)
           o == Opened(i)[g.sub]
           u == Update(o, items)
           r == Update(g.route, items)
           m == Update(g.item, last)
           x == [sub |-> g.sub, refs |-> g.refs + 1, route |-> r, item |-> m]
           H == 1 .. MaxHandles
           N == Nodes \ Malformed
<1>1. /\ Counts(i, g) /\ Routes(g) /\ Holds(g) /\ IsGroup(g)
      /\ \A j \in DOMAIN groups \ {i} : groups[j].sub # g.sub
  BY GroupGood, GroupProps
<1>2. /\ x.sub = g.sub /\ x.refs = g.refs + 1 /\ x.route = r /\ x.item = m
  OBVIOUS
<1>3. nextHandle \in Nat
  BY SubscriptionsAssumption DEF TypeOK
<1>4. /\ DOMAIN u = DOMAIN o \cup DOMAIN items
      /\ \A h \in DOMAIN u : u[h] = IF h \in DOMAIN items THEN items[h] ELSE o[h]
  <2> HIDE DEF o
  <2> QED BY DEF Update
<1>5. /\ DOMAIN r = DOMAIN g.route \cup DOMAIN items
      /\ \A h \in DOMAIN r : r[h] = IF h \in DOMAIN items THEN items[h] ELSE g.route[h]
  <2> DEFINE f == g.route
  <2> HIDE DEF g
  <2>1. r = Update(f, items)
    OBVIOUS
  <2> HIDE DEF f, r
  <2>2. DOMAIN r = DOMAIN f \cup DOMAIN items
        /\ \A h \in DOMAIN r : r[h] = IF h \in DOMAIN items THEN items[h] ELSE f[h]
    BY <2>1 DEF Update
  <2>3. QED
    BY <2>2 DEF f
<1>6. /\ DOMAIN m = DOMAIN g.item \cup DOMAIN last
      /\ \A n \in DOMAIN m : m[n] = IF n \in DOMAIN last THEN last[n] ELSE g.item[n]
  <2> DEFINE f == g.item
  <2> HIDE DEF g
  <2>1. m = Update(f, last)
    OBVIOUS
  <2> HIDE DEF f, m
  <2>2. DOMAIN m = DOMAIN f \cup DOMAIN last
        /\ \A n \in DOMAIN m : m[n] = IF n \in DOMAIN last THEN last[n] ELSE f[n]
    BY <2>1 DEF Update
  <2>3. QED
    BY <2>2 DEF f
<1>7. /\ \A h \in DOMAIN o : /\ g.sub \in DOMAIN server /\ h \in DOMAIN server[g.sub]
                            /\ o[h] = server[g.sub][h]
      /\ DOMAIN g.route \subseteq DOMAIN o
  <2>1. CASE i \in DOMAIN groups
    BY <1>1, <2>1, OpenedProps DEF Holds
  <2>2. CASE i \notin DOMAIN groups
    <3>1. o = Empty /\ DOMAIN g.route = {}
      BY <2>2, OpenedProps, GroupProps
    <3>2. DOMAIN o = {}
      BY <3>1, EmptyProps
    <3>3. QED
      BY <3>1, <3>2
  <2>3. QED
    BY <2>1, <2>2
<1>8. IsMap(r, H, N)
  BY <1>1, MapTypes DEF IsGroup
<1> HIDE DEF x, u, o, r, m, H, N
<1>9. /\ DOMAIN groups' = DOMAIN groups \cup {i} /\ groups'[i] = x
      /\ \A j \in DOMAIN groups \ {i} : groups'[j] = groups[j]
  <2>1. groups' = Put(groups, i, x)
    BY DEF x, r, m
  <2> HIDE DEF g
  <2>2. QED
    BY <2>1 DEF Put
<1> HIDE DEF g
<1>10. /\ DOMAIN server' = DOMAIN server \cup {g.sub} /\ server'[g.sub] = u
       /\ \A s \in DOMAIN server \ {g.sub} : server'[s] = server[s]
  <2>1. server' = Put(server, g.sub, u)
    BY DEF u, o, g
  <2>2. QED
    BY <2>1 DEF Put
<1>11. /\ DOMAIN records' = DOMAIN records \cup {id} /\ records'[id] = e
       /\ \A d \in DOMAIN records \ {id} : records'[d] = records[d]
  BY DEF Put
<1>12. NewItemsOnly
  <2> SUFFICES ASSUME NEW s \in DOMAIN server', NEW h \in DOMAIN server'[s]
               PROVE  \/ h \in nextHandle + 1 .. nextHandle'
                      \/ /\ s \in DOMAIN server /\ h \in DOMAIN server[s]
                         /\ server'[s][h] = server[s][h]
    BY DEF NewItemsOnly
  <2>1. CASE s = g.sub
    BY <1>4, <1>7, <1>10, <2>1
  <2>2. CASE s # g.sub
    BY <1>10, <2>2
  <2>3. QED
    BY <2>1, <2>2
<1>13. \A h \in DOMAIN items : h > nextHandle /\ h <= nextHandle' /\ h \in Nat
  BY <1>3
<1>14. \A h \in DOMAIN g.route : h <= nextHandle /\ h \in Nat
  BY <1>1 DEF Routes, IsGroup, IsMap
<1>15. \A h \in DOMAIN g.route : h \notin DOMAIN items
  BY <1>3, <1>13, <1>14
<1>16. \A s \in DOMAIN server : \A h \in DOMAIN server[s] : h \notin DOMAIN items
  <2>1. \A s \in DOMAIN server : \A h \in DOMAIN server[s] : h \in Nat /\ h <= nextHandle
    BY DEF TypeOK, IsMap, IssuedInv
  <2>2. QED
    BY <1>3, <1>13, <2>1
<1>17. \A k \in DOMAIN notifyCh : notifyCh[k].handle \notin DOMAIN items
  <2> DEFINE M == [handle : 1 .. MaxHandles, node : Nodes]
  <2>1. notifyCh \in Seq(M) /\ \A n \in M : n.handle \in Nat
    BY DEF TypeOK
  <2> HIDE DEF M
  <2>2. \A k \in DOMAIN notifyCh : notifyCh[k].handle \in Nat
    BY <2>1
  <2>3. QED
    BY <1>3, <1>13, <2>2 DEF IssuedInv
<1>18. Routes(groups[i])'
  <2>1. ASSUME NEW h \in DOMAIN r
        PROVE  /\ h <= nextHandle'
               /\ \A s \in DOMAIN server' :
                    h \in DOMAIN server'[s] => server'[s][h] = r[h]
               /\ \A k \in DOMAIN notifyCh :
                    notifyCh[k].handle = h => notifyCh[k].node = r[h]
    <3>1. CASE h \in DOMAIN items
      <4>1. r[h] = items[h] /\ h <= nextHandle'
        BY <1>5, <1>13, <3>1
      <4>2. ASSUME NEW s \in DOMAIN server', h \in DOMAIN server'[s]
            PROVE  server'[s][h] = r[h]
        <5>1. s = g.sub
          BY <1>10, <1>16, <3>1, <4>2
        <5>2. QED
          BY <1>4, <1>10, <3>1, <4>1, <5>1, <4>2
      <4>3. QED
        BY <1>17, <3>1, <4>1, <4>2
    <3>2. CASE h \notin DOMAIN items
      <4>1. h \in DOMAIN g.route /\ r[h] = g.route[h]
        BY <1>5, <3>2
      <4>2. h <= nextHandle'
        BY <1>3, <1>14, <4>1
      <4>3. ASSUME NEW s \in DOMAIN server', h \in DOMAIN server'[s]
            PROVE  server'[s][h] = r[h]
        <5>1. s \in DOMAIN server /\ h \in DOMAIN server[s] /\ server'[s][h] = server[s][h]
          <6>1. CASE s = g.sub
            BY <1>4, <1>7, <1>10, <3>2, <4>3, <6>1
          <6>2. CASE s # g.sub
            BY <1>10, <4>3, <6>2
          <6>3. QED
            BY <6>1, <6>2
        <5>2. QED
          BY <1>1, <4>1, <5>1 DEF Routes
      <4>4. QED
        BY <1>1, <4>1, <4>2, <4>3 DEF Routes
    <3>3. QED
      BY <3>1, <3>2
  <2>2. groups'[i].route = r
    BY <1>2, <1>9
  <2>3. QED
    BY <2>1, <2>2 DEF Routes
<1>19. Holds(groups[i])'
  <2>1. DOMAIN r \subseteq DOMAIN server'[g.sub]
    BY <1>4, <1>5, <1>7, <1>10
  <2>2. ASSUME NEW n \in DOMAIN m
        PROVE  m[n] \in DOMAIN r /\ r[m[n]] = n
    <3>1. CASE n \in DOMAIN last
      BY <1>5, <1>6, <3>1
    <3>2. CASE n \notin DOMAIN last
      <4>1. /\ n \in DOMAIN g.item /\ m[n] = g.item[n]
            /\ g.item[n] \in DOMAIN g.route /\ g.route[g.item[n]] = n
        BY <1>1, <1>6, <3>2 DEF Holds
      <4>2. QED
        BY <1>5, <1>15, <4>1
    <3>3. QED
      BY <3>1, <3>2
  <2>3. groups'[i].sub = g.sub /\ groups'[i].route = r /\ groups'[i].item = m
    BY <1>2, <1>9
  <2>4. QED
    BY <2>1, <2>2, <2>3 DEF Holds
<1>20. Counts(i, groups[i])'
  <2>1. groups'[i].refs >= Cardinality(Members(i)')
    <3>1. Members(i)' \subseteq Members(i) \cup {id}
      BY <1>11 DEF Members
    <3>2. /\ Cardinality(Members(i)) \in Nat /\ Cardinality(Members(i)') \in Nat
          /\ Cardinality(Members(i)') <= Cardinality(Members(i)) + 1
      BY <3>1, CountedFinite, OneMore
    <3>3. g.refs \in Nat /\ g.refs >= Cardinality(Members(i))
      BY <1>1 DEF Counts, IsGroup
    <3>4. groups'[i].refs = g.refs + 1
      BY <1>2, <1>9
    <3>5. QED
      BY <3>2, <3>3, <3>4
  <2>2. ASSUME NEW n \in Nodes
        PROVE  Cardinality(Handles(x, n)) >= Cardinality(Takers(i, n)')
    <3>1. /\ IsFiniteSet(Handles(x, n))
          /\ Handles(g, n) \subseteq Handles(x, n)
      <4>1. x.route = r /\ IsMap(x.route, 1 .. MaxHandles, Nodes \ Malformed)
        BY <1>2, <1>8 DEF H, N
      <4>2. IsFiniteSet(Handles(x, n))
        BY <4>1, HandlesFinite
      <4>3. Handles(g, n) \subseteq Handles(x, n)
        BY <1>5, <1>15, <4>1 DEF Handles
      <4>4. QED
        BY <4>2, <4>3
    <3>2. /\ Cardinality(Handles(g, n)) \in Nat /\ Cardinality(Handles(x, n)) \in Nat
          /\ Cardinality(Handles(g, n)) <= Cardinality(Handles(x, n))
      BY <3>1, AtLeast
    <3>3. Cardinality(Handles(g, n)) >= Cardinality(Takers(i, n))
      BY <1>1 DEF Counts
    <3>4. IsFiniteSet(Takers(i, n)) /\ Cardinality(Takers(i, n)) \in Nat
      BY CountedFinite, FS_CardinalityType
    <3>5. CASE n \in Range(e.nodes)
      <4>1. PICK h \in DOMAIN items : items[h] = n
        BY <3>5
      <4>2. h \in Handles(x, n) /\ h \notin Handles(g, n)
        BY <1>2, <1>5, <1>15, <4>1 DEF Handles
      <4>3. Cardinality(Handles(g, n)) + 1 <= Cardinality(Handles(x, n))
        BY <3>1, <4>2, OneNew
      <4>4. Takers(i, n)' \subseteq Takers(i, n) \cup {id}
        BY <1>11 DEF Takers, Members
      <4>5. /\ Cardinality(Takers(i, n)') \in Nat
            /\ Cardinality(Takers(i, n)') <= Cardinality(Takers(i, n)) + 1
        BY <3>4, <4>4, OneMore
      <4>6. QED
        BY <3>2, <3>3, <3>4, <4>3, <4>5
    <3>6. CASE n \notin Range(e.nodes)
      <4>1. Takers(i, n)' \subseteq Takers(i, n)
        BY <1>11, <3>6 DEF Takers, Members
      <4>2. /\ Cardinality(Takers(i, n)') \in Nat
            /\ Cardinality(Takers(i, n)') <= Cardinality(Takers(i, n))
        BY <3>4, <4>1, AtLeast
      <4>3. QED
        BY <3>2, <3>3, <3>4, <4>2
    <3>7. QED
      BY <3>5, <3>6
  <2>3. \A n \in Nodes :
          Cardinality({h \in DOMAIN groups'[i].route : groups'[i].route[h] = n})
            >= Cardinality(Takers(i, n)')
    BY <1>9, <2>2 DEF Handles
  <2>4. QED
    BY <2>1, <2>3 DEF Counts, Handles
<1>21. \A j \in DOMAIN groups \ {i} : NoNewMembers(j)
  BY <1>11 DEF NoNewMembers, Members
<1>22. \A d \in DOMAIN records' : records'[d].interval \in DOMAIN groups'
  BY <1>9, <1>11 DEF GroupInv
<1>23. /\ DOMAIN groups' \subseteq DOMAIN groups \cup {i} /\ groups'[i].sub = g.sub
       /\ \A j \in DOMAIN groups \ {i} :
            /\ j \in DOMAIN groups' /\ groups'[j] = groups[j]
            /\ groups[j].sub # g.sub /\ NoNewMembers(j)
  BY <1>1, <1>2, <1>9, <1>21
<1>24. \A t \in DOMAIN server' \ {g.sub} : t \in DOMAIN server /\ server'[t] = server[t]
  BY <1>10
<1>25. /\ groups'[i].sub = g.sub
       /\ Counts(i, groups[i])' /\ Routes(groups[i])' /\ Holds(groups[i])'
  BY <1>18, <1>19, <1>20, <1>23
<1>26. GroupInv'
  BY <1>12, <1>22, <1>23, <1>24, <1>25, OneGroupChanged
<1>27. QED
  BY <1>12, <1>26

\* The group loses a member, one reference, and of the handles of each node
\* that the member monitored at most one.
LEMMA UnsubscribeGroups ==
  ASSUME TypeOK, GroupInv, NEW id \in Ids, Unsubscribe(id)
  PROVE  NewItemsOnly /\ GroupInv'
<1> SUFFICES ASSUME NEW i, NEW nodes, NEW o, NEW F, NEW x,
                    i = records[id].interval, nodes = records[id].nodes,
                    o = groups[i], F = Found(o, nodes), x = Detach(o, nodes)
             PROVE  NewItemsOnly /\ GroupInv'
  OBVIOUS
<1>1. /\ id \in DOMAIN records /\ i \in DOMAIN groups /\ i \in Intervals
      /\ Counts(i, o) /\ Routes(o) /\ Owns(i, o) /\ IsGroup(o)
  <2>1. id \in DOMAIN records
    BY DEF Unsubscribe
  <2>2. QED
    BY <2>1 DEF GroupInv, TypeOK
<1>2. /\ groups' = IF LastRef(x) THEN Without(groups, {i}) ELSE Put(groups, i, x)
      /\ server' = server \/ server' = Released(x, F)
      /\ records' = Without(records, {id})
      /\ UNCHANGED <<nextHandle, notifyCh>>
  BY <1>1 DEF Unsubscribe, pumped
<1>3. /\ x.sub = o.sub /\ x.refs = o.refs - 1
      /\ x.route = Without(o.route, F) /\ x.item = Without(o.item, Range(nodes))
  BY DEF Detach
<1>4. /\ DOMAIN x.route = DOMAIN o.route \ F
      /\ \A h \in DOMAIN x.route : x.route[h] = o.route[h]
      /\ DOMAIN x.item = DOMAIN o.item \ Range(nodes)
      /\ \A n \in DOMAIN x.item : x.item[n] = o.item[n]
  <2> DEFINE p == o.route
             q == o.item
             R == Range(nodes)
  <2>1. x.route = Without(p, F) /\ x.item = Without(q, R)
    BY <1>3
  <2> HIDE DEF p, q, R
  <2>2. /\ DOMAIN x.route = DOMAIN p \ F /\ \A h \in DOMAIN x.route : x.route[h] = p[h]
        /\ DOMAIN x.item = DOMAIN q \ R /\ \A n \in DOMAIN x.item : x.item[n] = q[n]
    BY <2>1 DEF Without, Restrict
  <2>3. QED
    BY <2>2 DEF p, q, R
<1>5. \A h \in F : \E n \in Range(nodes) \cap DOMAIN o.item :
                     h = o.item[n] /\ h \in DOMAIN o.route /\ o.route[h] = n
  BY <1>1 DEF Found, Owns
<1>6. IsMap(x.route, 1 .. MaxHandles, Nodes \ Malformed)
  BY <1>1, <1>4 DEF IsGroup, IsMap
<1>7. /\ \A d \in DOMAIN records' : d \in DOMAIN records /\ records'[d] = records[d]
      /\ DOMAIN records' = DOMAIN records \ {id}
  BY <1>2 DEF Without, Restrict
<1> DEFINE u == Without(server[x.sub], F)
<1>8. x.sub \in DOMAIN server =>
        DOMAIN u = DOMAIN server[x.sub] \ F /\ \A h \in DOMAIN u : u[h] = server[x.sub][h]
  BY DEF Without, Restrict, u
<1> HIDE DEF u
<1>9. \/ server' = server
      \/ LastRef(x) /\ server' = Without(server, {x.sub})
      \/ x.sub \in DOMAIN server /\ server' = Put(server, x.sub, u)
  BY <1>2 DEF Released, u
<1>10. \A t \in DOMAIN server' : t \in DOMAIN server /\
         \/ server'[t] = server[t]
         \/ t = x.sub /\ server'[t] = u
  BY <1>9 DEF Without, Restrict, Put
<1>11. NewItemsOnly
  <2>1. nextHandle' \in Nat /\ nextHandle <= nextHandle'
    BY <1>2, SubscriptionsAssumption DEF TypeOK
  <2>2. QED
    BY <1>2, <1>8, <1>10, <2>1 DEF NewItemsOnly
<1>12. /\ id \in Members(i) /\ Members(i)' = Members(i) \ {id}
       /\ IsFiniteSet(Members(i))
  <2>1. id \in Members(i) /\ Members(i)' = Members(i) \ {id}
    BY <1>1, <1>7 DEF Members
  <2>2. QED
    BY <2>1, CountedFinite
<1>13. /\ Cardinality(Members(i)') = Cardinality(Members(i)) - 1
       /\ Cardinality(Members(i)) \in Nat
       /\ IsFiniteSet(Members(i)')
       /\ o.refs \in Nat /\ o.refs >= Cardinality(Members(i))
  BY <1>1, <1>12, FS_RemoveElement, FS_CardinalityType DEF Counts, IsGroup
<1>14. \A j \in DOMAIN groups \ {i} : groups[j].sub # x.sub
  BY <1>1, <1>3 DEF Owns
<1>15. \A t \in DOMAIN server' \ {x.sub} : t \in DOMAIN server /\ server'[t] = server[t]
  BY <1>10
<1>16. CASE LastRef(x)
  <2>1. groups' = Without(groups, {i})
    BY <1>2, <1>16
  <2>2. Members(i)' = {}
    <3>1. o.refs - 1 <= 0
      BY <1>3, <1>16 DEF LastRef
    <3>2. Cardinality(Members(i)') <= 0
      BY <1>13, <3>1
    <3>3. QED
      BY <1>13, <3>2, CountsNone
  <2>3. \A d \in DOMAIN records' : d \in DOMAIN records /\ records'[d] = records[d]
    BY <1>7
  <2>4. QED
    BY <1>11, <1>14, <1>15, <2>1, <2>2, <2>3, GroupDropped
<1>17. CASE ~ LastRef(x)
  <2>1. /\ DOMAIN groups' = DOMAIN groups /\ groups'[i] = x
        /\ \A j \in DOMAIN groups \ {i} : groups'[j] = groups[j]
    BY <1>1, <1>2, <1>17 DEF Put
  <2>2. Routes(groups[i])'
    <3>1. ASSUME NEW q, q = x
          PROVE  Routes(q)'
      <4>1. Routes(q)
        BY <1>1, <1>4, <3>1 DEF Routes
      <4>2. IsMap(q.route, 1 .. MaxHandles, Nodes \ Malformed)
        BY <1>6, <3>1
      <4>3. QED
        BY <1>11, <4>1, <4>2, RoutesKept
    <3>2. QED
      BY <2>1, <3>1 DEF Routes
  <2>3. Holds(groups[i])'
    <3>1. x.sub \in DOMAIN server' => DOMAIN x.route \subseteq DOMAIN server'[x.sub]
      BY <1>1, <1>3, <1>4, <1>8, <1>10 DEF Owns
    <3>2. \A n \in DOMAIN x.item : x.item[n] \in DOMAIN x.route /\ x.route[x.item[n]] = n
      <4> TAKE n \in DOMAIN x.item
      <4>1. /\ x.item[n] = o.item[n] /\ n \notin Range(nodes)
            /\ o.item[n] \in DOMAIN o.route /\ o.route[o.item[n]] = n
        BY <1>1, <1>4 DEF Owns
      <4>2. o.item[n] \notin F
        BY <1>5, <4>1
      <4>3. QED
        BY <1>4, <4>1, <4>2
    <3>3. QED
      BY <2>1, <3>1, <3>2 DEF Holds
  <2>4. Counts(i, groups[i])'
    <3>1. x.refs >= Cardinality(Members(i)')
      BY <1>3, <1>13
    <3>2. ASSUME NEW n \in Nodes
          PROVE  Cardinality(Handles(x, n)) >= Cardinality(Takers(i, n)')
      <4>1. IsFiniteSet(Handles(o, n)) /\ Cardinality(Handles(o, n)) \in Nat
        BY <1>1, HandlesFinite, FS_CardinalityType DEF IsGroup
      <4>2. IsFiniteSet(Takers(i, n)) /\ Cardinality(Takers(i, n)) \in Nat
        BY CountedFinite, FS_CardinalityType
      <4>3. Cardinality(Handles(o, n)) >= Cardinality(Takers(i, n))
        BY <1>1 DEF Counts
      <4>4. Handles(x, n) = Handles(o, n) \ F
        BY <1>4 DEF Handles
      <4>5. Takers(i, n)' = Takers(i, n) \ {id}
        <5>1. \A d \in Members(i)' : records'[d].nodes = records[d].nodes
          BY <1>7 DEF Members
        <5>2. Takers(i, n)' = {d \in Members(i)' : n \in Range(records[d].nodes)}
          BY <5>1 DEF Takers
        <5>3. QED
          BY <1>12, <5>2 DEF Takers
      <4>6. CASE n \in Range(nodes)
        <5>1. id \in Takers(i, n)
          BY <1>12, <4>6 DEF Takers
        <5>2. Cardinality(Takers(i, n)') = Cardinality(Takers(i, n)) - 1
          BY <4>2, <4>5, <5>1, FS_RemoveElement
        <5>3. Handles(o, n) \subseteq Handles(x, n) \cup {o.item[n]}
          BY <1>5, <4>4 DEF Handles
        <5>4. IsFiniteSet(Handles(x, n))
          BY <4>1, <4>4, FS_Subset
        <5>5. /\ Cardinality(Handles(x, n)) \in Nat
              /\ Cardinality(Handles(o, n)) <= Cardinality(Handles(x, n)) + 1
          BY <5>3, <5>4, OneMore
        <5>6. QED
          BY <4>1, <4>2, <4>3, <5>2, <5>5
      <4>7. CASE n \notin Range(nodes)
        <5>1. Handles(x, n) = Handles(o, n)
          BY <1>5, <4>4, <4>7 DEF Handles
        <5>2. Takers(i, n)' = Takers(i, n)
          BY <4>5, <4>7 DEF Takers
        <5>3. QED
          BY <4>3, <5>1, <5>2
      <4>8. QED
        BY <4>6, <4>7
    <3>3. \A n \in Nodes :
            Cardinality({h \in DOMAIN groups'[i].route : groups'[i].route[h] = n})
              >= Cardinality(Takers(i, n)')
      BY <2>1, <3>2 DEF Handles
    <3>4. groups'[i].refs >= Cardinality(Members(i)')
      BY <2>1, <3>1
    <3>5. QED
      BY <3>3, <3>4 DEF Counts, Handles
  <2>5. \A d \in DOMAIN records' : records'[d].interval \in DOMAIN groups'
    BY <1>7, <2>1 DEF GroupInv
  <2>6. \A j : NoNewMembers(j)
    BY <1>7 DEF NoNewMembers, Members
  <2>7. /\ DOMAIN groups' \subseteq DOMAIN groups \cup {i} /\ groups'[i].sub = x.sub
        /\ \A j \in DOMAIN groups \ {i} :
             /\ j \in DOMAIN groups' /\ groups'[j] = groups[j]
             /\ groups[j].sub # x.sub /\ NoNewMembers(j)
    BY <1>14, <2>1, <2>6
  <2>8. QED
    BY <1>11, <1>15, <2>2, <2>3, <2>4, <2>5, <2>7, OneGroupChanged
<1>18. QED
  BY <1>16, <1>17

\* Nothing changes but that items disappear with their gopcua Subscriptions.
LEMMA GroupsSame ==
  ASSUME TypeOK, GroupInv, UNCHANGED <<records, groups, nextHandle, notifyCh>>,
         \A s \in DOMAIN server' : s \in DOMAIN server /\ server'[s] = server[s]
  PROVE  NewItemsOnly /\ GroupInv'
<1>1. NewItemsOnly
  <2>1. nextHandle \in Nat
    BY SubscriptionsAssumption DEF TypeOK
  <2>2. QED
    BY <2>1 DEF NewItemsOnly
<1>2. \A j : NoNewMembers(j) /\ ItemsKept(j)
  BY DEF NoNewMembers, Members, ItemsKept
<1>3. \A j \in DOMAIN groups' :
        Counts(j, groups[j])' /\ Routes(groups[j])' /\ Holds(groups[j])'
  BY <1>1, <1>2, GroupKept
<1>4. \A j \in DOMAIN groups' : Owns(j, groups[j])'
  BY <1>3 DEF GroupInv, Owns, Holds
<1>5. QED
  BY <1>1, <1>3, <1>4 DEF GroupInv

\* subscribeInternal keeps the groups and the issued handles as they must be.
LEMMA SubscribeGroups ==
  ASSUME TypeOK, IssuedInv, GroupInv,
         NEW id \in Ids, NEW nodes \in Seq(Nodes), NEW i \in Intervals,
         subscribeInternal(id, nodes, i), notifyCh' = notifyCh
  PROVE  IssuedInv' /\ GroupInv'
<1>1. /\ i \in DOMAIN groups \/ \E s \in SubIds : IsFresh(s)
      /\ nextHandle + Len(nodes) <= MaxHandles
  BY DEF subscribeInternal
<1>2. /\ nextHandle \in Nat /\ MaxHandles \in Nat /\ Len(nodes) \in Nat
      /\ DOMAIN nodes = 1 .. Len(nodes)
  BY SubscriptionsAssumption DEF TypeOK
<1>3. nextHandle + Len(nodes) \in Nat /\ nextHandle <= nextHandle + Len(nodes)
  BY <1>2
<1>4. CASE CreateFails(i)
  <2>1. UNCHANGED <<server, records, groups, nextHandle, notifyCh>>
    BY <1>4 DEF CreateFails, memory
  <2>2. QED
    BY <1>2, <2>1, GroupsSame, IssuedKept
<1>5. ASSUME groups' = Put(groups, i, Group(i)), server' = Opened(i),
             records' = records, nextHandle' \in Nat, nextHandle <= nextHandle'
      PROVE  IssuedInv' /\ GroupInv'
  BY <1>1, <1>5, GroupLeft, IssuedKept
<1>6. CASE ParseFails(nodes, i)
  <2>1. /\ groups' = Put(groups, i, Group(i)) /\ server' = Opened(i)
        /\ records' = records
        /\ \E k \in DOMAIN nodes : nextHandle' = nextHandle + k - 1
    BY <1>6 DEF ParseFails
  <2>2. \A k \in DOMAIN nodes : nextHandle + k - 1 \in Nat /\ nextHandle <= nextHandle + k - 1
    BY <1>2
  <2>3. QED
    BY <1>5, <2>1, <2>2
<1>7. CASE MonitorFails(nodes, i)
  <2>1. /\ groups' = Put(groups, i, Group(i)) /\ server' = Opened(i)
        /\ records' = records /\ nextHandle' = nextHandle + Len(nodes)
    BY <1>7 DEF MonitorFails
  <2>2. QED
    BY <1>3, <1>5, <2>1
<1>8. CASE NoneAccepted(nodes, i)
  BY <1>1, <1>8, NoneAcceptedGroups, IssuedKept
<1>9. CASE SomeAccepted(id, nodes, i)
  <2>1. PICK rej \in SUBSET Range(nodes) :
          LET items == Items(nodes, rej)
              entry == [nodes |-> Accepted(nodes, rej), interval |-> i]
              h == [sub   |-> Group(i).sub,
                    refs  |-> Group(i).refs,
                    route |-> Update(Group(i).route, items),
                    item  |-> Update(Group(i).item, LastHandles(nodes, rej))]
          IN /\ groups' = Put(groups, i, AddRef(h))
             /\ server' = Put(server, h.sub, Update(Opened(i)[h.sub], items))
             /\ records' = Put(records, id, entry)
    BY <1>9 DEF SomeAccepted
  <2>2. /\ Parses(nodes, i) /\ Group(i).sub \in DOMAIN Opened(i)
        /\ nextHandle' = nextHandle + Len(nodes)
    BY <1>9 DEF SomeAccepted
  <2> DEFINE items == Items(nodes, rej)
             last == LastHandles(nodes, rej)
             list == Accepted(nodes, rej)
             e == [nodes |-> list, interval |-> i]
             N == Nodes \ Malformed
  <2>3. nodes \in Seq(N)
    BY <2>2, ParsesProps
  <2>4. Range(nodes) \subseteq N
    BY <2>3 DEF Range
  <2>5. /\ DOMAIN items \subseteq nextHandle + 1 .. nextHandle'
        /\ \A h \in DOMAIN items : items[h] \in N
    BY <1>2, <2>2, <2>4, ItemsProps
  <2>6. IsMap(items, 1 .. MaxHandles, N)
    <3>1. nextHandle + 1 .. nextHandle' \subseteq 1 .. MaxHandles
      BY <1>1, <1>2, <2>2
    <3>2. QED
      BY <2>5, <3>1 DEF IsMap
  <2>7. Names(last, items)
    BY <1>2, LastHandlesProps
  <2>8. \A n \in Range(list) : \E h \in DOMAIN items : items[h] = n
    <3>1. Range(list) = Range(nodes) \ rej
      BY AcceptedProps
    <3>2. ASSUME NEW n \in Range(nodes) \ rej
          PROVE  \E h \in DOMAIN items : items[h] = n
      <4>1. PICK k \in DOMAIN nodes : nodes[k] = n
        BY DEF Range
      <4>2. nextHandle + k \in DOMAIN items /\ items[nextHandle + k] = n
        BY <1>2, <4>1, ItemsProps
      <4>3. QED
        BY <4>2
    <3>3. QED
      BY <3>1, <3>2
  <2>9. /\ records' = Put(records, id, e) /\ e.interval = i /\ e.nodes = list
        /\ server' = Put(server, Group(i).sub, Update(Opened(i)[Group(i).sub], items))
    BY <2>1
  <2>10. groups' = Put(groups, i, [sub   |-> Group(i).sub,
                                   refs  |-> Group(i).refs + 1,
                                   route |-> Update(Group(i).route, items),
                                   item  |-> Update(Group(i).item, last)])
    <3> DEFINE s == Group(i).sub
               c == Group(i).refs
               r == Update(Group(i).route, items)
               m == Update(Group(i).item, last)
    <3>1. groups' = Put(groups, i, AddRef([sub |-> s, refs |-> c, route |-> r, item |-> m]))
      BY <2>1
    <3> HIDE DEF s, c, r, m
    <3>2. AddRef([sub |-> s, refs |-> c, route |-> r, item |-> m])
            = [sub |-> s, refs |-> c + 1, route |-> r, item |-> m]
      BY DEF AddRef
    <3>3. groups' = Put(groups, i, [sub |-> s, refs |-> c + 1, route |-> r, item |-> m])
      BY <3>1, <3>2
    <3>4. QED
      BY <3>3 DEF s, c, r, m
  <2>11. nextHandle' \in Nat /\ nextHandle <= nextHandle'
    BY <1>3, <2>2
  <2>12. \A n \in Range(e.nodes) : \E h \in DOMAIN items : items[h] = n
    BY <2>8, <2>9
  <2> HIDE DEF items, last, list, e
  <2>13. NewItemsOnly /\ GroupInv'
    <3>1. Extends(id, i, items, last, e)
      BY <2>2, <2>5, <2>6, <2>7, <2>9, <2>10, <2>11, <2>12 DEF Extends
    <3>2. QED
      BY <1>1, <3>1, GroupExtended
  <2>14. QED
    BY <2>13, IssuedKept
<1>10. QED
  BY <1>4, <1>5, <1>6, <1>7, <1>8, <1>9 DEF subscribeInternal

-----------------------------------------------------------------------------
(***************************************************************************)
(* What is persisted and what is cached.                                   *)
(***************************************************************************)

LEMMA SubscribePersists ==
  ASSUME RecordsPersisted, NEW id, NEW nodes, NEW i, subscribeInternal(id, nodes, i)
  PROVE  RecordsPersisted'
<1>1. CASE SomeAccepted(id, nodes, i)
  <2>1. PICK e : /\ records' = Put(records, id, e)
                 /\ \/ intents' = Put(intents, id, e) /\ unsaved' = unsaved \ {id}
                    \/ intents' = intents /\ unsaved' = unsaved \cup {id}
    BY <1>1 DEF SomeAccepted, Save
  <2>2. QED
    BY <2>1 DEF RecordsPersisted, Put
<1>2. CASE UNCHANGED <<records, intents, unsaved>>
  BY <1>2 DEF RecordsPersisted
<1>3. QED
  BY <1>1, <1>2
  DEF subscribeInternal, CreateFails, ParseFails, MonitorFails, NoneAccepted, memory

LEMMA UnsubscribePersists ==
  ASSUME RecordsPersisted, NEW id, Unsubscribe(id)
  PROVE  RecordsPersisted'
<1>1. /\ records' = Without(records, {id}) /\ unsaved' = unsaved \ {id}
      /\ intents' = intents \/ intents' = Without(intents, {id})
  BY DEF Unsubscribe
<1>2. QED
  BY <1>1 DEF RecordsPersisted, Without, Restrict

\* An item is routed as the server knows it when it reports a change.
LEMMA NotifyRoutes ==
  ASSUME TypeOK, IssuedInv, GroupInv, NEW s, NEW h, Notify(s, h)
  PROVE  IssuedInv' /\ GroupInv'
<1> DEFINE n == [handle |-> h, node |-> server[s][h]]
           M == [handle : 1 .. MaxHandles, node : Nodes]
<1>1. /\ s \in DOMAIN server /\ h \in DOMAIN server[s]
      /\ notifyCh' = Append(notifyCh, n)
      /\ UNCHANGED <<server, records, groups, nextHandle>>
  BY DEF Notify, memory
<1>2. \A k \in DOMAIN notifyCh' :
        \/ k \in DOMAIN notifyCh /\ notifyCh'[k] = notifyCh[k]
        \/ notifyCh'[k] = n
  <2>1. notifyCh \in Seq(M)
    BY DEF TypeOK
  <2> HIDE DEF n, M
  <2>2. QED
    BY <1>1, <2>1
<1>3. IssuedInv'
  BY <1>1, <1>2 DEF IssuedInv
<1>4. \A j \in DOMAIN groups : Routes(groups[j])'
  <2> SUFFICES ASSUME NEW j \in DOMAIN groups
               PROVE  Routes(groups[j])'
    OBVIOUS
  <2>1. Routes(groups[j])
    BY DEF GroupInv
  <2>2. QED
    BY <1>1, <1>2, <2>1 DEF Routes
<1>5. \A j \in DOMAIN groups : Counts(j, groups[j])' /\ Owns(j, groups[j])'
  BY <1>1 DEF GroupInv, Counts, Members, Takers, Owns
<1>6. QED
  BY <1>1, <1>3, <1>4, <1>5 DEF GroupInv

\* A notification that is routed is cached under the node it is about.
LEMMA PumpRoutes ==
  ASSUME TypeOK, IndInv, PumpTake
  PROVE  IndInv'
<1> DEFINE M == [handle : 1 .. MaxHandles, node : Nodes]
           n == Head(notifyCh)
<1>1. /\ notifyCh # <<>> /\ notifyCh' = Tail(notifyCh)
      /\ UNCHANGED <<server, records, groups, nextHandle, intents, unsaved>>
  BY DEF PumpTake, memory, history
<1>2. /\ \A k \in DOMAIN notifyCh' :
           k + 1 \in DOMAIN notifyCh /\ notifyCh'[k] = notifyCh[k + 1]
      /\ 1 \in DOMAIN notifyCh /\ n = notifyCh[1]
  <2>1. notifyCh \in Seq(M)
    BY DEF TypeOK
  <2> HIDE DEF M
  <2>2. QED
    BY <1>1, <2>1
<1>3. IssuedInv'
  BY <1>1, <1>2 DEF IndInv, IssuedInv
<1>4. \A j \in DOMAIN groups : Routes(groups[j])'
  <2> SUFFICES ASSUME NEW j \in DOMAIN groups
               PROVE  Routes(groups[j])'
    OBVIOUS
  <2>1. Routes(groups[j])
    BY DEF IndInv, GroupInv
  <2>2. QED
    BY <1>1, <1>2, <2>1 DEF Routes
<1>5. \A j \in DOMAIN groups : Counts(j, groups[j])' /\ Owns(j, groups[j])'
  BY <1>1 DEF IndInv, GroupInv, Counts, Members, Takers, Owns
<1>6. GroupInv'
  BY <1>1, <1>4, <1>5 DEF IndInv, GroupInv
<1>7. NoMisrouting'
  <2>1. \A to \in Lookup(n.handle) : to = n.node
    BY <1>2 DEF Lookup, IndInv, GroupInv, Routes
  <2>2. \/ batch' = batch
        \/ \E to \in Lookup(n.handle) :
             batch' = {e \in batch : e.to # to} \cup {[to |-> to, from |-> n.node]}
    BY DEF PumpTake
  <2> HIDE DEF n
  <2>3. QED
    BY <2>1, <2>2 DEF NoMisrouting, IndInv
<1>8. RecordsPersisted'
  BY <1>1 DEF RecordsPersisted, IndInv
<1>9. QED
  BY <1>3, <1>6, <1>7, <1>8 DEF IndInv

-----------------------------------------------------------------------------
(***************************************************************************)
(* The inductive invariant.                                                *)
(***************************************************************************)
Inv == TypeOK /\ IndInv

LEMMA InitInv == Init => Inv
<1>1. Init => IndInv
  <2>1. DOMAIN Empty = {}
    BY EmptyProps
  <2>2. QED
    BY <2>1 DEF Init, IndInv, IssuedInv, GroupInv, NoMisrouting, RecordsPersisted
<1>2. QED
  BY <1>1, InitTypes DEF Inv

LEMMA NextIndInv == TypeOK /\ IndInv /\ [Next]_vars => IndInv'
<1> SUFFICES ASSUME TypeOK, IndInv, [Next]_vars
             PROVE  IndInv'
  OBVIOUS
<1> USE DEF memory, restore, pumped, history
<1>1. IssuedInv /\ GroupInv /\ NoMisrouting /\ RecordsPersisted
  BY DEF IndInv
<1>2. ASSUME UNCHANGED batch
      PROVE  NoMisrouting'
  BY <1>1, <1>2 DEF NoMisrouting
<1>3. ASSUME UNCHANGED <<records, intents, unsaved>>
      PROVE  RecordsPersisted'
  BY <1>1, <1>3 DEF RecordsPersisted
\* Nothing is issued, counted, routed or persisted.
<1>4. ASSUME UNCHANGED <<server, memory, intents, notifyCh, unsaved>>, NoMisrouting'
      PROVE  IndInv'
  <2>1. NewItemsOnly /\ GroupInv'
    BY <1>1, <1>4, GroupsSame
  <2>2. IssuedInv'
    BY <1>1, <2>1, IssuedKept
  <2>3. QED
    BY <1>3, <1>4, <2>1, <2>2 DEF IndInv
\* The maps are discarded.
<1>5. ASSUME records' = Empty, groups' = Empty
      PROVE  GroupInv' /\ RecordsPersisted'
  BY <1>5, EmptyProps DEF GroupInv, RecordsPersisted
\* The connection changes, the process stays up.
<1>6. ASSUME NEW l, NEW h, Change(l, h), UNCHANGED <<memory, pumped, unsaved>>
      PROVE  IndInv'
  <2>1. server' = Empty /\ intents' = intents
    BY <1>6 DEF Change
  <2>2. DOMAIN server' = {}
    BY <2>1, EmptyProps
  <2>3. NewItemsOnly /\ GroupInv'
    BY <1>1, <1>6, <2>2, GroupsSame
  <2>4. IssuedInv'
    BY <1>1, <2>3, IssuedKept
  <2>5. QED
    BY <1>2, <1>3, <1>6, <2>1, <2>3, <2>4 DEF IndInv
<1>7. ASSUME NEW id \in Ids, NEW nodes \in Seq(Nodes), NEW i \in Intervals,
             subscribeInternal(id, nodes, i), UNCHANGED pumped
      PROVE  IndInv'
  <2>1. IssuedInv' /\ GroupInv'
    BY <1>1, <1>7, SubscribeGroups
  <2>2. RecordsPersisted'
    BY <1>1, <1>7, SubscribePersists
  <2>3. QED
    BY <1>2, <1>7, <2>1, <2>2 DEF IndInv
<1>8. ASSUME NEW id \in Ids, NEW nodes \in Requests, NEW i \in Intervals,
             Subscribe(id, nodes, i)
      PROVE  IndInv'
  <2>1. nodes \in Seq(Nodes)
    BY SubscriptionsAssumption
  <2>2. QED
    BY <1>7, <1>8, <2>1 DEF Subscribe
<1>9. ASSUME NEW id \in Ids, Unsubscribe(id)
      PROVE  IndInv'
  <2>1. NewItemsOnly /\ GroupInv'
    BY <1>1, <1>9, UnsubscribeGroups
  <2>2. IssuedInv'
    BY <1>1, <2>1, IssuedKept
  <2>3. RecordsPersisted'
    BY <1>1, <1>9, UnsubscribePersists
  <2>4. NoMisrouting'
    BY <1>2, <1>9 DEF Unsubscribe
  <2>5. QED
    BY <2>1, <2>2, <2>3, <2>4 DEF IndInv
<1>10. ASSUME NEW r \in Restorers, Restoring(r)
       PROVE  IndInv'
  <2>1. CASE RestoreClear(r)
    <3>1. /\ records' = Empty /\ groups' = Empty
          /\ UNCHANGED <<server, nextHandle, pumped>>
      BY <2>1 DEF RestoreClear, Clear
    <3>2. IssuedInv'
      BY <1>1, <3>1 DEF IssuedInv
    <3>3. QED
      BY <1>2, <1>5, <3>1, <3>2 DEF IndInv
  <2>2. CASE RestoreList(r) \/ RestoreListFails(r) \/ RestoreDone(r)
    BY <1>2, <1>4, <2>2 DEF RestoreList, RestoreListFails, RestoreDone
  <2>3. ASSUME NEW id \in Ids, RestoreOne(r, id)
        PROVE  IndInv'
    <3> DEFINE e == todo[r][id]
    <3>1. /\ id \in DOMAIN todo[r] /\ subscribeInternal(id, e.nodes, e.interval)
          /\ UNCHANGED pumped
      BY <2>3 DEF RestoreOne
    <3>2. e \in Entry
      BY <3>1 DEF TypeOK, IsMap
    <3>3. e.nodes \in Seq(Nodes) /\ e.interval \in Intervals
      BY <3>2 DEF Entry
    <3> HIDE DEF e
    <3>4. QED
      BY <1>7, <3>1, <3>3
  <2>4. QED
    BY <1>10, <2>1, <2>2, <2>3 DEF Restoring
<1>11. ASSUME NEW s, NEW h, Notify(s, h)
       PROVE  IndInv'
  <2>1. IssuedInv' /\ GroupInv'
    BY <1>1, <1>11, NotifyRoutes
  <2>2. QED
    BY <1>2, <1>3, <1>11, <2>1 DEF Notify, IndInv
<1>12. CASE PumpTake
  BY <1>12, PumpRoutes
<1>13. CASE PumpFlush \/ Stop
  <2>1. batch' = {} /\ UNCHANGED <<server, memory, intents, notifyCh, unsaved>>
    BY <1>13 DEF PumpFlush, Stop
  <2>2. NoMisrouting'
    BY <2>1 DEF NoMisrouting
  <2>3. QED
    BY <1>4, <2>1, <2>2
<1>14. CASE LoseSession \/ GoDown \/ Connect
  BY <1>6, <1>14 DEF LoseSession, GoDown, Connect
<1>15. ASSUME NEW r \in Restorers, Reconnect(r)
       PROVE  IndInv'
  BY <1>6, <1>15 DEF Reconnect
<1>16. CASE Restart
  <2>1. /\ records' = Empty /\ groups' = Empty /\ server' = Empty
        /\ notifyCh' = <<>> /\ batch' = {}
    BY <1>16 DEF Restart, Change
  <2>2. IssuedInv'
    BY <2>1, EmptyProps DEF IssuedInv
  <2>3. NoMisrouting'
    BY <2>1 DEF NoMisrouting
  <2>4. QED
    BY <1>5, <2>1, <2>2, <2>3 DEF IndInv
<1>17. CASE UNCHANGED vars
  BY <1>2, <1>4, <1>17 DEF vars
<1>18. QED
  BY <1>8, <1>9, <1>10, <1>11, <1>12, <1>13, <1>14, <1>15, <1>16, <1>17 DEF Next

LEMMA NextInv == Inv /\ [Next]_vars => Inv'
BY NextTypes, NextIndInv DEF Inv, IndInv


-----------------------------------------------------------------------------
(***************************************************************************)
(* The theorems.                                                           *)
(***************************************************************************)

\* Every reachable state is as Inv says: well typed, with a group for every
\* recorded subscription that counts its members, routes to each node at least
\* as many handles as members monitor it, and knows no handle that was not
\* issued or that belongs to two nodes.
THEOREM Invariance == Spec => []Inv
BY InitInv, NextInv, PTL DEF Spec

\* Every variable keeps its type: whatever tool calls, restores, failures and
\* restarts come together, no reference count of an interval group falls below
\* zero, and no node ID that does not parse is recorded, routed or persisted.
THEOREM TypeCorrect == Spec => []TypeOK
BY Invariance, PTL DEF Inv

\* The interval group of a recorded subscription exists, and its reference
\* count is at least the number of subscriptions recorded for the interval, so
\* Unsubscribe tears it down for the last of them at the earliest.
THEOREM GroupsOutliveMembers == Spec => []GroupOutlivesMembers
<1>1. Inv => GroupOutlivesMembers
  BY DEF Inv, IndInv, GroupInv, Counts, GroupOutlivesMembers
<1>2. QED
  BY <1>1, Invariance, PTL

\* What subscribeInternal records is what it persisted, or the store refused.
THEOREM RecordsArePersisted == Spec => []RecordsPersisted
<1>1. Inv => RecordsPersisted
  BY DEF Inv, IndInv
<1>2. QED
  BY <1>1, Invariance, PTL

\* Every node of a recorded subscription has an item that its interval group
\* routes to it and that is on the server while the gopcua Subscription lives:
\* Unsubscribe takes no more items away from a node than subscriptions of the
\* interval that monitored it were removed.
THEOREM SubscribedMonitored == Spec => []SubscribedIsMonitored
<1>1. ASSUME Inv, NEW id \in DOMAIN records, NEW n \in Range(records[id].nodes)
      PROVE  LET g == groups[records[id].interval] IN
               \E h \in DOMAIN g.route :
                 /\ g.route[h] = n
                 /\ g.sub \in DOMAIN server => h \in DOMAIN server[g.sub]
  <2> DEFINE i == records[id].interval
             g == groups[i]
  <2>1. /\ i \in DOMAIN groups /\ Counts(i, g) /\ Owns(i, g) /\ IsGroup(g)
    BY <1>1 DEF Inv, IndInv, GroupInv, TypeOK
  <2>2. n \in Nodes
    <3> DEFINE e == records[id]
    <3>1. e \in Entry
      BY <1>1 DEF Inv, TypeOK, IsMap
    <3>2. e.nodes \in Seq(Nodes \ Malformed)
      BY <3>1 DEF Entry
    <3> HIDE DEF e
    <3>3. Range(e.nodes) \subseteq Nodes
      BY <3>2 DEF Range
    <3>4. QED
      BY <3>3 DEF e
  <2>3. id \in Takers(i, n)
    BY DEF Takers, Members
  <2> HIDE DEF i, g
  <2>4. Cardinality(Takers(i, n)) \in Nat /\ Cardinality(Takers(i, n)) >= 1
    BY <1>1, <2>3, CountedFinite, AtLeast DEF Inv
  <2>5. Cardinality(Handles(g, n)) >= Cardinality(Takers(i, n))
    BY <2>1, <2>2 DEF Counts
  <2>6. Handles(g, n) # {}
    <3>1. Cardinality({}) = 0
      BY FS_EmptySet
    <3>2. QED
      BY <2>4, <2>5, <3>1
  <2>7. PICK h \in DOMAIN g.route : g.route[h] = n
    BY <2>6 DEF Handles
  <2>8. g.sub \in DOMAIN server => h \in DOMAIN server[g.sub]
    BY <2>1 DEF Owns
  <2>9. QED
    BY <2>7, <2>8 DEF g, i
<1>2. Inv => SubscribedIsMonitored
  BY <1>1 DEF SubscribedIsMonitored
<1>3. QED
  BY <1>2, Invariance, PTL

\* The pump caches a notification under the node it is about: a client handle
\* that some group routes was never given to an item of another node in the
\* life of the process, on this connection or on one before it.
THEOREM NoneMisrouted == Spec => []NoMisrouting
<1>1. Inv => NoMisrouting
  BY DEF Inv, IndInv
<1>2. QED
  BY <1>1, Invariance, PTL
=============================================================================
