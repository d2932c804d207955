-------------------------- MODULE DiscoveryProofs --------------------------
(***************************************************************************)
(* Theorems about Discovery for any address spaces, limits and walks.      *)
(***************************************************************************)
EXTENDS Discovery, SequenceTheorems, FiniteSetTheorems, Induction, TLAPS

\* A walker is not "no process": discoveryMu names its holder.
LEMMA WalkersNamed == NoProc \notin Walkers
BY DiscoveryAssumption

\* The references of a frame are nodes.
LEMMA LimitedIsSeq ==
  ASSUME NEW s \in Seq(Nodes)
  PROVE  Limited(s) \in Seq(Nodes)
<1> DEFINE m == IF Len(s) < MaxNodesPerBrowse THEN Len(s) ELSE MaxNodesPerBrowse
<1>1. m \in 0 .. Len(s)
  BY DiscoveryAssumption
<1>2. \A i \in 1 .. m : s[i] \in Nodes
  BY <1>1
<1>3. QED
  BY <1>1, <1>2, SubSeqProperties DEF Limited

\* A stack as deep as the limit allows, on which no call beyond it browses.
Bounded(s) ==
  /\ s \in Seq(Frames)
  /\ Len(s) <= MaxDiscoveryDepth + 2
  /\ \A i \in 1 .. Len(s) : s[i].called => i <= MaxDiscoveryDepth + 1

\* A call returns.
LEMMA PopBounded ==
  ASSUME NEW s, Bounded(s), s # <<>>
  PROVE  Bounded(SubSeq(s, 1, Len(s) - 1))
<1>1. Len(s) \in Nat \ {0} /\ s \in Seq(Frames)
  BY DEF Bounded
<1> DEFINE m == Len(s) - 1
           t == SubSeq(s, 1, m)
<1>2. m \in Nat /\ m + 1 = Len(s) /\ \A i \in 1 .. m : s[i] \in Frames
  BY <1>1
<1>3. t \in Seq(Frames) /\ Len(t) = m /\ \A i \in 1 .. m : t[i] = s[i]
  <2> HIDE DEF m
  <2>1. /\ t \in Seq(Frames)
        /\ Len(t) = IF 1 <= m THEN m - 1 + 1 ELSE 0
        /\ \A i \in 1 .. m - 1 + 1 : t[i] = s[1 + i - 1]
    BY <1>2, SubSeqProperties
  <2>2. QED
    BY <1>2, <2>1
<1>4. QED
  <2> HIDE DEF m, t
  <2>1. Bounded(t)
    BY <1>1, <1>2, <1>3, DiscoveryAssumption DEF Bounded
  <2>2. QED
    BY <2>1 DEF m, t

\* The call on top changes its state.
LEMMA TopBounded ==
  ASSUME NEW s, Bounded(s), s # <<>>, NEW f \in Frames,
         f.called => Len(s) <= MaxDiscoveryDepth + 1
  PROVE  Bounded([s EXCEPT ![Len(s)] = f])
<1>1. Len(s) \in Nat \ {0} /\ s \in Seq(Frames)
  BY DEF Bounded
<1> DEFINE t == [s EXCEPT ![Len(s)] = f]
<1>2. /\ t \in Seq(Frames) /\ Len(t) = Len(s)
      /\ \A i \in 1 .. Len(s) : t[i] = IF i = Len(s) THEN f ELSE s[i]
  BY <1>1
<1>3. QED
  <2> HIDE DEF t
  <2>1. Bounded(t)
    BY <1>1, <1>2 DEF Bounded
  <2>2. QED
    BY <2>1 DEF t

\* A call is made.
LEMMA PushBounded ==
  ASSUME NEW s, Bounded(s), NEW n \in Nodes, Len(s) <= MaxDiscoveryDepth + 1
  PROVE  Bounded(Append(s, Frame(n)))
<1>1. Frame(n) \in Frames /\ ~Frame(n).called
  BY DEF Frame, Frames
<1>2. s \in Seq(Frames) /\ Len(s) \in Nat
  BY DEF Bounded
<1>3. /\ Append(s, Frame(n)) \in Seq(Frames)
      /\ Len(Append(s, Frame(n))) = Len(s) + 1
      /\ \A i \in 1 .. Len(s) + 1 :
           Append(s, Frame(n))[i] = IF i = Len(s) + 1 THEN Frame(n) ELSE s[i]
  BY <1>1, <1>2
<1>4. QED
  BY <1>1, <1>2, <1>3, DiscoveryAssumption DEF Bounded

\* TypeOK and DepthInv say of each stack that it is bounded.
LEMMA StacksBounded ==
  ASSUME TypeOK, DepthInv, NEW p \in Walkers
  PROVE  Bounded(stack[p])
BY DEF TypeOK, DepthInv, Bounded

\* The stacks after a step that replaces one.
LEMMA OneStack ==
  ASSUME TypeOK, DepthInv, NEW p \in Walkers, NEW s, Bounded(s),
         stack' = [stack EXCEPT ![p] = s]
  PROVE  /\ stack' \in [Walkers -> Seq(Frames)]
         /\ \A q \in Walkers : Len(stack'[q]) <= MaxDiscoveryDepth + 2
         /\ DepthInv'
<1>1. stack' \in [Walkers -> Seq(Frames)]
  BY DEF TypeOK, Bounded
<1>2. \A q \in Walkers : Bounded(stack'[q])
  BY StacksBounded DEF TypeOK
<1>3. QED
  BY <1>1, <1>2 DEF DepthInv, Bounded

\* The walks meet every node with the latest generation, and hold discoveryMu.
THEOREM Invariance == Spec => [](TypeOK /\ IndInv)
<1>1. Init => TypeOK /\ IndInv
  <2> SUFFICES ASSUME Init PROVE TypeOK /\ IndInv
    OBVIOUS
  <2>1. TypeOK
    <3>1. /\ DOMAIN nodeCache = {} /\ index \subseteq Nodes
          /\ discoveryMu \in Walkers \cup {NoProc}
      BY DEF Init, Empty
    <3>2. /\ pc \in [Walkers -> {"idle", "lock", "walk", "index"}]
          /\ gen \in [Walkers -> Nat]
      BY DEF Init
    <3>3. /\ stack \in [Walkers -> Seq(Frames)]
          /\ \A p \in Walkers : Len(stack[p]) <= MaxDiscoveryDepth + 2
      BY DiscoveryAssumption DEF Init
    <3>4. /\ visited \in [Walkers -> SUBSET Nodes]
          /\ swept \in [Walkers -> SUBSET Nodes]
          /\ touched \in [Walkers -> SUBSET Nodes]
      BY DEF Init
    <3>5. exact \in [Walkers -> BOOLEAN]
      BY Zenon DEF Init
    <3>6. walkGen \in Nat /\ walks \in Nat /\ changes \in Nat /\ faults \in Nat
      BY DEF Init
    <3>7. QED
      BY <3>1, <3>2, <3>3, <3>4, <3>5, <3>6 DEF Init, TypeOK
  <2>2. IndInv
    BY WalkersNamed DEF Init, IndInv, MuInv, DepthInv, SeenInv, IndexInv, Empty
  <2>3. QED
    BY <2>1, <2>2
<1>2. TypeOK /\ IndInv /\ [Next]_vars => TypeOK' /\ IndInv'
  <2> SUFFICES ASSUME TypeOK, IndInv, [Next]_vars PROVE TypeOK' /\ IndInv'
    OBVIOUS
  <2> USE WalkersNamed DEF TypeOK, IndInv, MuInv, SeenInv, IndexInv
  <2>1. ASSUME NEW p \in Walkers, Begin(p) PROVE TypeOK' /\ IndInv'
    <3>1. walks' \in Nat /\ pc' \in [Walkers -> {"idle", "lock", "walk", "index"}]
      BY <2>1 DEF Begin, Goto
    <3>2. \A q \in Walkers :
            pc'[q] = pc[q] \/ (pc'[q] = "lock" /\ pc[q] = "idle")
      BY <2>1 DEF Begin, Goto
    <3>3. TypeOK'
      BY <2>1, <3>1 DEF Begin, store, locals, hist
    <3>4. MuInv' /\ SeenInv'
      <4>1. UNCHANGED <<nodeCache, walkGen, discoveryMu, gen, touched>>
        BY <2>1 DEF Begin, store, locals, hist
      <4>2. MuInv'
        BY <3>2, <4>1
      <4>3. SeenInv'
        BY <3>2, <4>1
      <4>4. QED
        BY <4>2, <4>3
    <3>5. IndexInv'
      BY <2>1, <3>2 DEF Begin, store, locals, hist
    <3>6. DepthInv'
      BY <2>1 DEF Begin, locals, DepthInv
    <3>7. QED
      BY <3>3, <3>4, <3>5, <3>6
  <2>2. ASSUME NEW p \in Walkers, Lock(p) PROVE TypeOK' /\ IndInv'
    <3>1. Bounded(<<Frame(Root)>>)
      BY DiscoveryAssumption DEF Bounded, Frame, Frames
    <3>2. /\ stack' \in [Walkers -> Seq(Frames)]
          /\ \A q \in Walkers : Len(stack'[q]) <= MaxDiscoveryDepth + 2
          /\ DepthInv'
      BY <2>2, <3>1, OneStack DEF Lock
    <3>3. TypeOK'
      <4>1. /\ walkGen' \in Nat /\ gen' \in [Walkers -> Nat]
            /\ pc' \in [Walkers -> {"idle", "lock", "walk", "index"}]
        BY <2>2 DEF Lock, Goto
      <4>2. /\ visited' \in [Walkers -> SUBSET Nodes]
            /\ touched' \in [Walkers -> SUBSET Nodes]
        BY <2>2 DEF Lock
      <4>3. exact' \in [Walkers -> BOOLEAN]
        BY <2>2, Zenon DEF Lock
      <4>4. QED
        BY <2>2, <3>2, <4>1, <4>2, <4>3 DEF Lock, bounds
    <3>4. \A q \in Walkers : pc[q] \notin {"walk", "index"}
      BY <2>2 DEF Lock, Free
    <3>5. QED
      BY <2>2, <3>2, <3>3, <3>4 DEF Lock, Goto
  <2>3. ASSUME NEW p \in Walkers, Skip(p) \/ Return(p) PROVE TypeOK' /\ IndInv'
    <3>1. Bounded(Pop(p))
      BY <2>3, StacksBounded, PopBounded DEF Skip, Return, Walking, Pop
    <3>2. /\ stack' \in [Walkers -> Seq(Frames)]
          /\ \A q \in Walkers : Len(stack'[q]) <= MaxDiscoveryDepth + 2
          /\ DepthInv'
      BY <2>3, <3>1, OneStack DEF Skip, Return
    <3>3. UNCHANGED <<connected, space, store, searching, open, discoveryMu, pc,
                      gen, visited, swept, hist, bounds>>
      BY <2>3 DEF Skip, Return
    <3>4. TypeOK'
      BY <3>2, <3>3 DEF store, hist, bounds
    <3>5. MuInv' /\ SeenInv' /\ IndexInv'
      BY <3>3 DEF store, hist
    <3>6. QED
      BY <3>2, <3>4, <3>5
  <2>4. ASSUME NEW p \in Walkers, Browse(p) PROVE TypeOK' /\ IndInv'
    <3> DEFINE f == [node |-> Top(p).node, called |-> TRUE,
                     todo |-> Limited(space[Top(p).node])]
               t == [stack[p] EXCEPT ![Len(stack[p])] = f]
    <3>1. stack[p] # <<>> /\ Top(p) \in Frames
      BY <2>4 DEF Browse, Walking, Top
    <3>2. f \in Frames
      <4>1. Top(p).node \in Nodes
        BY <3>1 DEF Frames
      <4>2. space[Top(p).node] \in Seq(Nodes)
        BY <4>1, DiscoveryAssumption
      <4>3. QED
        BY <4>1, <4>2, LimitedIsSeq DEF Frames
    <3>3. Len(stack[p]) <= MaxDiscoveryDepth + 1
      BY <2>4, <3>1, DiscoveryAssumption DEF Browse, TooDeep, Depth
    <3>4. Bounded(t)
      <4> HIDE DEF f
      <4>1. QED
        BY <3>1, <3>2, <3>3, StacksBounded, TopBounded
    <3>5. stack' = [stack EXCEPT ![p] = t]
      BY <2>4 DEF Browse
    <3>6. /\ stack' \in [Walkers -> Seq(Frames)]
          /\ \A q \in Walkers : Len(stack'[q]) <= MaxDiscoveryDepth + 2
          /\ DepthInv'
      <4> HIDE DEF t
      <4>1. QED
        BY <3>4, <3>5, OneStack
    <3>7. visited' \in [Walkers -> SUBSET Nodes]
      BY <2>4, <3>1 DEF Browse, Frames
    <3>8. QED
      BY <2>4, <3>6, <3>7 DEF Browse, store, hist, bounds
  <2>5. ASSUME NEW p \in Walkers, BrowseFails(p) PROVE TypeOK' /\ IndInv'
    <3>1. stack[p] # <<>> /\ Top(p) \in Frames
      BY <2>5 DEF BrowseFails, Walking, Top
    <3>2. Bounded(Pop(p))
      BY <3>1, StacksBounded, PopBounded DEF Pop
    <3>3. /\ stack' \in [Walkers -> Seq(Frames)]
          /\ \A q \in Walkers : Len(stack'[q]) <= MaxDiscoveryDepth + 2
          /\ DepthInv'
      BY <2>5, <3>2, OneStack DEF BrowseFails
    <3>4. visited' \in [Walkers -> SUBSET Nodes] /\ faults' \in Nat
      BY <2>5, <3>1 DEF BrowseFails, Frames, Failures
    <3>5. QED
      BY <2>5, <3>3, <3>4 DEF BrowseFails, store
  <2>6. ASSUME NEW p \in Walkers, Upsert(p) PROVE TypeOK' /\ IndInv'
    <3> DEFINE child == Head(Top(p).todo)
               f == [Top(p) EXCEPT !.todo = Tail(@)]
               entry == [parent |-> ParentNode(p), depth |-> Depth(p),
                         seen |-> gen[p]]
               t == [stack[p] EXCEPT ![Len(stack[p])] = f]
    <3>1. /\ pc[p] = "walk" /\ stack[p] # <<>> /\ Top(p).todo # <<>>
          /\ Len(stack[p]) \in Nat \ {0}
      BY <2>6 DEF Upsert, Walking
    <3>2. Top(p) \in Frames /\ Len(stack[p]) <= MaxDiscoveryDepth + 1
      BY <2>6, <3>1 DEF Upsert, Top, DepthInv
    <3>3. child \in Nodes /\ f \in Frames
      <4>1. Top(p).todo \in Seq(Nodes)
        BY <3>2 DEF Frames
      <4>2. child \in Nodes /\ Tail(Top(p).todo) \in Seq(Nodes)
        BY <3>1, <4>1
      <4>3. QED
        BY <3>2, <4>2 DEF Frames
    <3>4. entry \in [parent : Nodes \cup {NoParent}, depth : 0 .. MaxDiscoveryDepth,
                    seen : Nat]
      BY <3>1, <3>2, DiscoveryAssumption DEF ParentNode, Depth, Frames
    <3>5. Bounded(t) /\ Len(t) = Len(stack[p])
      <4>1. Bounded(stack[p])
        BY StacksBounded
      <4>2. Bounded(t)
        <5> HIDE DEF f
        <5>1. QED
          BY <3>1, <3>2, <3>3, <4>1, TopBounded
      <4>3. Len(t) = Len(stack[p])
        <5> HIDE DEF f
        <5>1. QED
          BY <3>1, <3>3
      <4>4. QED
        BY <4>2, <4>3
    <3>6. Bounded(Append(t, Frame(child)))
      <4> HIDE DEF t, child
      <4>1. Len(t) <= MaxDiscoveryDepth + 1
        BY <3>2, <3>5
      <4>2. QED
        BY <3>3, <3>5, <4>1, PushBounded
    <3>7. stack' = [stack EXCEPT ![p] = Append(t, Frame(child))]
      BY <2>6 DEF Upsert
    <3>8. /\ stack' \in [Walkers -> Seq(Frames)]
          /\ \A q \in Walkers : Len(stack'[q]) <= MaxDiscoveryDepth + 2
          /\ DepthInv'
      <4> HIDE DEF t, child
      <4>1. QED
        BY <3>6, <3>7, OneStack
    <3>9. /\ DOMAIN nodeCache' = DOMAIN nodeCache \cup {child}
          /\ \A n \in DOMAIN nodeCache' :
               nodeCache'[n] = IF n = child THEN entry ELSE nodeCache[n]
      BY <2>6 DEF Upsert, Put
    <3>10. /\ touched' \in [Walkers -> SUBSET Nodes]
           /\ \A q \in Walkers : touched'[q] = touched[q] \cup {child}
      BY <2>6, <3>3 DEF Upsert
    <3>11. UNCHANGED <<connected, space, index, walkGen, searching, open,
                       discoveryMu, pc, gen, visited, swept, exact, synced,
                       strays, refused, walks, changes, faults>>
      BY <2>6 DEF Upsert, bounds
    <3> HIDE DEF child, entry
    <3>12. TypeOK'
      BY <3>3, <3>4, <3>8, <3>9, <3>10, <3>11
    <3>13. \A q \in Walkers : pc[q] # "index" /\ (pc[q] = "walk" => q = p)
      BY <3>1
    <3>14. entry.seen = walkGen
      BY <3>1 DEF entry
    <3>15. MuInv' /\ SeenInv' /\ IndexInv'
      BY <3>1, <3>9, <3>10, <3>11, <3>13, <3>14
    <3>16. QED
      BY <3>8, <3>12, <3>15
  <2>7. ASSUME NEW p \in Walkers, Sweep(p) PROVE TypeOK' /\ IndInv'
    <3>1. DOMAIN nodeCache' = DOMAIN nodeCache \ Unseen(p)
      BY <2>7 DEF Sweep, Restrict
    <3>2. \A n \in DOMAIN nodeCache' : nodeCache'[n] = nodeCache[n]
      BY <2>7, <3>1 DEF Sweep, Restrict
    <3>3. swept' = [swept EXCEPT ![p] = Unseen(p)] /\ Unseen(p) \subseteq Nodes
      BY <2>7 DEF Sweep, Unseen
    <3>4. /\ pc[p] = "walk" /\ pc' = [pc EXCEPT ![p] = "index"]
          /\ UNCHANGED <<connected, space, index, walkGen, searching, open,
                         discoveryMu, gen, stack, visited, touched, exact, synced,
                         strays, refused, walks, changes, faults>>
      BY <2>7 DEF Sweep, Goto, hist, bounds
    <3>5. TypeOK'
      BY <3>1, <3>2, <3>3, <3>4
    <3>6. MuInv' /\ DepthInv' /\ SeenInv'
      BY <3>4 DEF DepthInv
    <3>7. IndexInv'
      BY <3>1, <3>3, <3>4
    <3>8. QED
      BY <3>5, <3>6, <3>7
  <2>8. ASSUME NEW p \in Walkers, UpdateIndex(p) PROVE TypeOK' /\ IndInv'
    <3>1. faults' \in Nat
      BY <2>8 DEF UpdateIndex, Failures
    <3>2. PICK refusals \in SUBSET DOMAIN nodeCache :
            index' = Batched(p, refusals) /\ refused' = refusals
      BY <2>8 DEF UpdateIndex
    <3>3. /\ pc[p] = "index" /\ pc' = [pc EXCEPT ![p] = "idle"]
          /\ discoveryMu' = NoProc /\ searching
          /\ strays' = strays \ (DOMAIN nodeCache \cup swept[p])
          /\ UNCHANGED <<connected, space, nodeCache, walkGen, searching, open, gen,
                         stack, visited, swept, touched, exact, walks, changes>>
          /\ synced' \in BOOLEAN
      BY <2>8 DEF UpdateIndex, Goto, Unlock, locals
    <3>4. /\ index \subseteq DOMAIN nodeCache \cup swept[p] \cup strays
          /\ DOMAIN nodeCache \cap swept[p] = {}
      BY <3>3
    <3>5. /\ index' = (index \cup (DOMAIN nodeCache \ refusals)) \ swept[p]
          /\ DOMAIN nodeCache' = DOMAIN nodeCache
      BY <3>2, <3>3 DEF Batched
    <3>6. /\ index' \subseteq DOMAIN nodeCache' \cup strays'
          /\ DOMAIN nodeCache' \ index' \subseteq refused'
      BY <3>2, <3>3, <3>4, <3>5
    <3>7. TypeOK'
      BY <3>1, <3>2, <3>3, <3>5
    <3>8. MuInv' /\ DepthInv' /\ SeenInv'
      BY <3>3 DEF DepthInv
    <3>9. IndexInv'
      BY <3>3, <3>6, <3>8
    <3>10. QED
      BY <3>7, <3>8, <3>9
  <2>9. ASSUME NEW p \in Walkers, UpdateIndexFails(p) PROVE TypeOK' /\ IndInv'
    <3>1. faults' \in Nat
      BY <2>9 DEF UpdateIndexFails, Failures
    <3>2. QED
      BY <2>9, <3>1 DEF UpdateIndexFails, Unlock, Goto, store, locals, DepthInv
  <2>16. ASSUME NEW p \in Walkers, NoIndex(p) PROVE TypeOK' /\ IndInv'
    BY <2>16 DEF NoIndex, Unlock, Goto, store, locals, hist, bounds, DepthInv
  <2>10. ASSUME NEW c \in BOOLEAN, SetConnected(c) PROVE TypeOK' /\ IndInv'
    BY <2>10 DEF SetConnected, Changing, store, locals, DepthInv
  <2>11. ASSUME SpaceChanges PROVE TypeOK' /\ IndInv'
    BY <2>11 DEF SpaceChanges, Changing, store, locals, DepthInv
  <2>12. ASSUME Stop PROVE TypeOK' /\ IndInv'
    BY <2>12 DEF Stop, store, locals, hist, bounds, DepthInv
  <2>13. ASSUME Restart PROVE TypeOK' /\ IndInv'
    <3>1. faults' \in Nat
      BY <2>13 DEF Restart, Failures
    <3>2. QED
      BY <2>13, <3>1 DEF Restart, Empty, locals, DepthInv
  <2>14. ASSUME UNCHANGED vars PROVE TypeOK' /\ IndInv'
    BY <2>14 DEF vars, store, locals, hist, bounds, DepthInv
  <2>15. QED
    BY <2>1, <2>2, <2>3, <2>4, <2>5, <2>6, <2>7, <2>8, <2>9, <2>10, <2>11,
       <2>12, <2>13, <2>14, <2>16 DEF Next, Walk, Quiescent
<1>3. QED
  BY <1>1, <1>2, PTL DEF Spec

\* Every variable keeps its type; no walk is deeper than the limit allows.
THEOREM TypeCorrect == Spec => []TypeOK
BY Invariance, PTL

\* Between walks the index is the cache, but for what a start or a failed batch
\* left in it that no walk has met or swept since, and for the nodes the last
\* batch refused: in a process that opened an existing index too.
THEOREM IndexCurrent == Spec => []IndexFollowsCache
<1>1. IndInv => IndexFollowsCache
  <2> SUFFICES ASSUME IndInv, synced PROVE IndexFollowsCache
    BY DEF IndexFollowsCache
  <2>1. discoveryMu = NoProc /\ DOMAIN nodeCache \ index \subseteq refused
    BY DEF IndInv, IndexInv
  <2>2. \A p \in Walkers : pc[p] # "index"
    BY <2>1, DiscoveryAssumption DEF IndInv, MuInv
  <2>3. index \subseteq DOMAIN nodeCache \cup strays
    BY <2>2 DEF IndInv, IndexInv
  <2>4. QED
    BY <2>1, <2>3 DEF IndexFollowsCache
<1>2. QED
  BY <1>1, Invariance, PTL

\* A sweep removes nothing that was met after its walk began.
THEOREM SweepSparesMet == Spec => NeverSweepsMet
<1> DEFINE Spares == \A p \in Walkers : (pc[p] = "walk" /\ pc'[p] = "index")
                       => touched[p] \subseteq DOMAIN nodeCache'
<1>1. TypeOK /\ IndInv /\ [Next]_vars => [Spares]_vars
  <2> SUFFICES ASSUME TypeOK, IndInv, Next, NEW p \in Walkers,
                      pc[p] = "walk", pc'[p] = "index"
               PROVE  touched[p] \subseteq DOMAIN nodeCache'
    BY DEF Spares
  <2>1. Sweep(p)
    BY DEF Next, Begin, Lock, Walk, Skip, Browse, BrowseFails, Upsert, Return,
       Sweep, UpdateIndex, UpdateIndexFails, NoIndex, SetConnected, SpaceChanges,
       Stop, Restart, Changing, Quiescent, Goto, vars, TypeOK
  <2>2. gen[p] = walkGen
          /\ touched[p] \subseteq {n \in DOMAIN nodeCache :
                                    nodeCache[n].seen = walkGen}
    BY DEF IndInv, SeenInv
  <2>3. QED
    BY <2>1, <2>2 DEF Sweep, Unseen, Restrict
<1>2. QED
  BY <1>1, Invariance, PTL DEF Spec, NeverSweepsMet

-----------------------------------------------------------------------------
(***************************************************************************)
(* Paths of references.                                                    *)
(***************************************************************************)

LEMMA ChildrenTyped ==
  ASSUME TypeOK, NEW n \in Nodes
  PROVE  Children(n) \subseteq Nodes
<1>1. space[n] \in Seq(Nodes)
  BY DiscoveryAssumption DEF TypeOK
<1>2. Limited(space[n]) \in Seq(Nodes)
  BY <1>1, LimitedIsSeq
<1>3. QED
  BY <1>2 DEF Children, Range

\* IsPaths(f, K, A): f[k] is what paths of k references from A lead to.
IsPaths(f, K, A) ==
  f = [k \in 0 .. K |-> IF k = 0 THEN A ELSE UNION {Children(n) : n \in f[k - 1]}]

LEMMA PathsExist ==
  ASSUME TypeOK, NEW K \in Nat, NEW A \in SUBSET Nodes
  PROVE  \E f : IsPaths(f, K, A)
<1> DEFINE V == SUBSET Nodes
           next(T) == UNION {Children(n) : n \in T}
           step == [k \in 1 .. K |-> [T \in V |-> next(T)]]
<1>1. \A T \in V : next(T) \in V
  BY ChildrenTyped
<1>2. IsStep(step, K, V)
  <2> HIDE DEF next, V
  <2> QED BY <1>1 DEF IsStep
<1>3. \A k \in 1 .. K, T \in V : step[k][T] = next(T)
  <2> HIDE DEF next, V
  <2> QED OBVIOUS
<1> HIDE DEF step
<1>4. PICK f \in [0 .. K -> V] :
        f[0] = A /\ \A k \in 1 .. K : f[k] = step[k][f[k - 1]]
  <2>1. \E f : Recurs(f, K, V, A, step)
    <3>1. A \in V
      OBVIOUS
    <3> HIDE DEF V
    <3>2. QED
      BY <1>2, <3>1, Recursion
  <2>2. QED
    BY <2>1 DEF Recurs
<1>5. \A k \in 0 .. K : f[k] = IF k = 0 THEN A ELSE next(f[k - 1])
  <2> HIDE DEF next, V
  <2> TAKE k \in 0 .. K
  <2>1. CASE k = 0
    BY <1>4, <2>1
  <2>2. CASE k # 0
    <3>1. k \in 1 .. K /\ k - 1 \in 0 .. K
      BY <2>2
    <3>2. f[k - 1] \in V /\ f[k] = step[k][f[k - 1]]
      BY <1>4, <3>1
    <3>3. QED
      BY <1>3, <2>2, <3>1, <3>2
  <2>3. QED
    BY <2>1, <2>2
<1>6. f = [k \in 0 .. K |-> f[k]]
  BY <1>4
<1>7. f = [k \in 0 .. K |-> IF k = 0 THEN A ELSE next(f[k - 1])]
  <2> HIDE DEF next
  <2> QED BY <1>5, <1>6
<1>8. QED
  BY <1>7 DEF IsPaths

LEMMA PathsProps ==
  ASSUME NEW f, NEW K \in Nat, NEW A, IsPaths(f, K, A)
  PROVE  /\ f[0] = A
         /\ \A k \in 0 .. K - 1 : f[k + 1] = UNION {Children(n) : n \in f[k]}
<1>1. \A k \in 0 .. K : f[k] = IF k = 0 THEN A ELSE UNION {Children(n) : n \in f[k - 1]}
  BY DEF IsPaths
<1>2. 0 \in 0 .. K /\ \A k \in 0 .. K - 1 : /\ k + 1 \in 0 .. K /\ k + 1 # 0
                                            /\ (k + 1) - 1 = k
  OBVIOUS
<1>3. QED
  BY <1>1, <1>2

LEMMA ReachedProps ==
  ASSUME TypeOK
  PROVE  IsPaths(Reached, MaxDiscoveryDepth + 1, {Root})
<1>1. \E f : IsPaths(f, MaxDiscoveryDepth + 1, {Root})
  <2>1. MaxDiscoveryDepth + 1 \in Nat /\ {Root} \in SUBSET Nodes
    BY DiscoveryAssumption
  <2>2. QED
    BY <2>1, PathsExist
<1>2. Reached = CHOOSE f : IsPaths(f, MaxDiscoveryDepth + 1, {Root})
  BY DEF Reached, IsPaths
<1>3. QED
  BY <1>1, <1>2

LEMMA ReachedKept ==
  ASSUME UNCHANGED space
  PROVE  Reached' = Reached
BY DEF Reached, Children

-----------------------------------------------------------------------------
(***************************************************************************)
(* What a walk meets, step by step.                                        *)
(***************************************************************************)

\* The space and the nodes met do not change.
LEMMA SpaceKept ==
  ASSUME UNCHANGED space
  PROVE  Reached' = Reached /\ \A n : Children(n)' = Children(n)
BY ReachedKept DEF Children

LEMMA MetKept ==
  ASSUME NEW p, UNCHANGED nodeCache, gen'[p] = gen[p]
  PROVE  Met(p)' = Met(p)
BY DEF Met

LEMMA StackTyped ==
  ASSUME TypeOK, NEW p \in Walkers, stack[p] # <<>>
  PROVE  /\ stack[p] \in Seq(Frames) /\ Len(stack[p]) \in Nat \ {0}
         /\ \A i \in 1 .. Len(stack[p]) : stack[p][i] \in Frames
         /\ Top(p) \in Frames /\ Top(p) = stack[p][Len(stack[p])]
<1>1. stack[p] \in Seq(Frames)
  BY DEF TypeOK
<1> HIDE DEF Frames
<1>2. QED
  BY <1>1 DEF Top

\* The three ways a stack changes.
LEMMA Popped ==
  ASSUME TypeOK, NEW p \in Walkers, stack[p] # <<>>
  PROVE  /\ Len(Pop(p)) = Len(stack[p]) - 1
         /\ \A i \in 1 .. Len(stack[p]) - 1 : Pop(p)[i] = stack[p][i]
<1> DEFINE s == stack[p]
           m == Len(s) - 1
<1>1. s \in Seq(Frames) /\ Len(s) \in Nat \ {0}
  BY StackTyped
<1> HIDE DEF s
<1>2. m \in Nat /\ m + 1 = Len(s) /\ \A i \in 1 .. m : s[i] \in Frames
  <2> HIDE DEF Frames
  <2> QED BY <1>1
<1> HIDE DEF m
<1>3. /\ Len(SubSeq(s, 1, m)) = IF 1 <= m THEN m - 1 + 1 ELSE 0
      /\ \A i \in 1 .. m - 1 + 1 : SubSeq(s, 1, m)[i] = s[1 + i - 1]
  <2>1. \A i \in 1 .. m : s[i] \in Frames
    BY <1>2
  <2>2. QED
    BY <1>2, <2>1, SubSeqProperties
<1>4. Len(SubSeq(s, 1, m)) = m /\ \A i \in 1 .. m : SubSeq(s, 1, m)[i] = s[i]
  BY <1>2, <1>3
<1>5. QED
  BY <1>4 DEF Pop, s, m

LEMMA TopChanged ==
  ASSUME TypeOK, NEW p \in Walkers, stack[p] # <<>>, NEW f
  PROVE  LET t == [stack[p] EXCEPT ![Len(stack[p])] = f] IN
           /\ Len(t) = Len(stack[p]) /\ t[Len(stack[p])] = f
           /\ \A i \in 1 .. Len(stack[p]) - 1 : t[i] = stack[p][i]
<1> DEFINE s == stack[p]
<1>1. s \in Seq(Frames) /\ Len(s) \in Nat \ {0}
  BY StackTyped
<1> HIDE DEF s, Frames
<1>2. /\ Len([s EXCEPT ![Len(s)] = f]) = Len(s)
      /\ [s EXCEPT ![Len(s)] = f][Len(s)] = f
      /\ \A i \in 1 .. Len(s) - 1 : [s EXCEPT ![Len(s)] = f][i] = s[i]
  BY <1>1
<1>3. QED
  BY <1>2 DEF s

\* A call that has nothing left to do, or nothing to do, returns.
LEMMA PopKeeps ==
  ASSUME TypeOK, NEW p \in Walkers, stack[p] # <<>>, PathInv(p), CoverInv(p),
         stack'[p] = Pop(p), UNCHANGED <<space, nodeCache, gen, visited>>,
         IF Top(p).called THEN Top(p).todo = <<>>
         ELSE Top(p).node \in visited[p] \cup Reached[MaxDiscoveryDepth + 1]
  PROVE  PathInv(p)' /\ CoverInv(p)'
<1> DEFINE s == stack[p]
           t == Pop(p)
<1>1. /\ Len(s) \in Nat \ {0} /\ Top(p) = s[Len(s)]
      /\ Len(t) = Len(s) - 1 /\ \A i \in 1 .. Len(t) : t[i] = s[i]
  BY StackTyped, Popped
<1>2. Reached' = Reached /\ Met(p)' = Met(p) /\ \A n : Children(n)' = Children(n)
  BY SpaceKept, MetKept
<1> HIDE DEF t
<1>3. stack'[p] = t /\ \A i \in 1 .. Len(t) : i \in 1 .. Len(s)
  BY <1>1 DEF t
<1>4. PathInv(p)'
  BY <1>1, <1>2, <1>3 DEF PathInv
<1>5. \A i \in 1 .. Len(s) : i = Len(s) \/ i \in 1 .. Len(t)
  BY <1>1
<1>6. ASSUME NEW n \in Met(p) \cup {Root},
             n \notin visited[p] \cup Reached[MaxDiscoveryDepth + 1]
      PROVE  \E i \in 1 .. Len(t) : t[i].node = n /\ ~t[i].called
  <2>1. PICK i \in 1 .. Len(s) : s[i].node = n /\ ~s[i].called
    BY <1>6 DEF CoverInv
  <2>2. i # Len(s)
    BY <1>1, <1>6, <2>1
  <2>3. QED
    BY <1>1, <1>5, <2>1, <2>2
<1>7. ASSUME NEW n \in visited[p], NEW c \in Children(n) \ Met(p)
      PROVE  \E i \in 1 .. Len(t) :
               t[i].node = n /\ t[i].called /\ c \in Range(t[i].todo)
  <2>1. PICK i \in 1 .. Len(s) : s[i].node = n /\ s[i].called /\ c \in Range(s[i].todo)
    BY DEF CoverInv
  <2>2. i # Len(s)
    <3>1. Range(<<>>) = {}
      BY DEF Range
    <3>2. QED
      BY <1>1, <2>1, <3>1
  <2>3. QED
    BY <1>1, <1>5, <2>1, <2>2
<1>8. CoverInv(p)'
  BY <1>2, <1>3, <1>6, <1>7 DEF CoverInv
<1>9. QED
  BY <1>4, <1>8

\* A node's references are all still to process when it has been browsed.
LEMMA BrowseKeeps ==
  ASSUME TypeOK, NEW p \in Walkers, PathInv(p), CoverInv(p), Browse(p)
  PROVE  PathInv(p)' /\ CoverInv(p)'
<1> DEFINE s == stack[p]
           v == Top(p).node
           f == [node |-> v, called |-> TRUE, todo |-> Limited(space[v])]
           t == [s EXCEPT ![Len(s)] = f]
<1>1. /\ s # <<>> /\ ~Top(p).called /\ UNCHANGED <<space, nodeCache, gen>>
      /\ stack' = [stack EXCEPT ![p] = t]
      /\ visited' = [visited EXCEPT ![p] = @ \cup {v}]
  BY DEF Browse, Walking, store
<1>2. /\ Len(s) \in Nat \ {0} /\ Top(p) = s[Len(s)]
      /\ Len(t) = Len(s) /\ t[Len(s)] = f /\ \A i \in 1 .. Len(s) - 1 : t[i] = s[i]
  <2> HIDE DEF f
  <2> QED BY <1>1, StackTyped, TopChanged
<1>3. Reached' = Reached /\ Met(p)' = Met(p) /\ \A n : Children(n)' = Children(n)
  BY <1>1, SpaceKept, MetKept
<1>4. f.node = v /\ f.called /\ Range(f.todo) = Children(v)
  BY DEF Children
<1> HIDE DEF t, f
<1>5. stack'[p] = t /\ visited'[p] = visited[p] \cup {v}
  BY <1>1 DEF TypeOK
<1>6. \A i \in 1 .. Len(s) : i = Len(s) \/ i \in 1 .. Len(s) - 1
  BY <1>2
<1>7. ASSUME NEW i \in 1 .. Len(t)
      PROVE  /\ t[i].node \in Reached[i - 1]
             /\ i > 1 => t[i].node \in Met(p)
             /\ t[i].called => Range(t[i].todo) \subseteq Children(t[i].node)
  <2>1. CASE i = Len(s)
    BY <1>2, <1>4, <2>1 DEF PathInv
  <2>2. CASE i \in 1 .. Len(s) - 1
    BY <1>2, <2>2 DEF PathInv
  <2>3. QED
    BY <1>2, <1>6, <2>1, <2>2
<1>8. PathInv(p)'
  BY <1>3, <1>5, <1>7 DEF PathInv
<1>9. ASSUME NEW n \in Met(p) \cup {Root},
             n \notin visited[p] \cup {v} \cup Reached[MaxDiscoveryDepth + 1]
      PROVE  \E i \in 1 .. Len(t) : t[i].node = n /\ ~t[i].called
  <2>1. PICK i \in 1 .. Len(s) : s[i].node = n /\ ~s[i].called
    BY <1>9 DEF CoverInv
  <2>2. i # Len(s)
    BY <1>2, <1>9, <2>1
  <2>3. QED
    BY <1>2, <1>6, <2>1, <2>2
<1>10. ASSUME NEW n \in visited[p] \cup {v}, NEW c \in Children(n) \ Met(p)
       PROVE  \E i \in 1 .. Len(t) :
                t[i].node = n /\ t[i].called /\ c \in Range(t[i].todo)
  <2>1. CASE n = v
    <3>1. Len(s) \in 1 .. Len(t)
      BY <1>2
    <3>2. QED
      BY <1>2, <1>4, <2>1, <3>1
  <2>2. CASE n # v
    <3>1. PICK i \in 1 .. Len(s) : s[i].node = n /\ s[i].called /\ c \in Range(s[i].todo)
      BY <2>2 DEF CoverInv
    <3>2. i # Len(s)
      BY <1>1, <1>2, <3>1
    <3>3. QED
      BY <1>2, <1>6, <3>1, <3>2
  <2>3. QED
    BY <2>1, <2>2
<1>11. CoverInv(p)'
  BY <1>3, <1>5, <1>9, <1>10 DEF CoverInv
<1>12. QED
  BY <1>8, <1>11

LEMMA HeadOrTail ==
  ASSUME NEW s \in Seq(Nodes), s # <<>>
  PROVE  /\ Head(s) \in Range(s) /\ Range(Tail(s)) \subseteq Range(s)
         /\ Range(s) \subseteq {Head(s)} \cup Range(Tail(s))
<1>1. /\ Len(s) \in Nat \ {0} /\ Len(Tail(s)) = Len(s) - 1
      /\ \A i \in 1 .. Len(s) - 1 : Tail(s)[i] = s[i + 1]
      /\ Head(s) = s[1]
  OBVIOUS
<1>2. DOMAIN s = 1 .. Len(s) /\ DOMAIN Tail(s) = 1 .. Len(s) - 1
  BY <1>1
<1>3. Range(Tail(s)) \subseteq Range(s)
  <2>1. \A i \in 1 .. Len(s) - 1 : i + 1 \in 1 .. Len(s)
    BY <1>1
  <2>2. QED
    BY <1>1, <1>2, <2>1 DEF Range
<1>4. ASSUME NEW i \in 1 .. Len(s)
      PROVE  s[i] = Head(s) \/ s[i] \in Range(Tail(s))
  <2>1. CASE i = 1
    BY <1>1, <2>1
  <2>2. CASE i # 1
    <3>1. i - 1 \in 1 .. Len(s) - 1 /\ (i - 1) + 1 = i
      BY <1>1, <2>2
    <3>2. s[i] = Tail(s)[i - 1]
      BY <1>1, <3>1
    <3>3. QED
      BY <1>2, <3>1, <3>2 DEF Range
  <2>3. QED
    BY <2>1, <2>2
<1>5. QED
  BY <1>1, <1>2, <1>3, <1>4 DEF Range

LEMMA RestOfFrame ==
  ASSUME NEW f \in Frames, NEW r \in Seq(Nodes)
  PROVE  /\ [f EXCEPT !.todo = r] \in Frames
         /\ [f EXCEPT !.todo = r].node = f.node
         /\ [f EXCEPT !.todo = r].called = f.called
         /\ [f EXCEPT !.todo = r].todo = r
BY DEF Frames

\* A reference is processed: it is met, and the next call is its own.
LEMMA UpsertKeeps ==
  ASSUME TypeOK, DepthInv, NEW p \in Walkers,
         PathInv(p), CoverInv(p), ParentInv(p), Met(p) \subseteq Within, Upsert(p)
  PROVE  PathInv(p)' /\ CoverInv(p)' /\ ParentInv(p)' /\ (Met(p) \subseteq Within)'
<1> DEFINE s == stack[p]
           L == Len(s)
           v == Top(p).node
           todo == Top(p).todo
           child == Head(todo)
           rest == [Top(p) EXCEPT !.todo = Tail(@)]
           u == [s EXCEPT ![L] = rest]
           t == Append(u, Frame(child))
           entry == [parent |-> ParentNode(p), depth |-> Depth(p), seen |-> gen[p]]
<1>1. /\ s # <<>> /\ Top(p).called /\ todo # <<>>
      /\ stack' = [stack EXCEPT ![p] = t]
      /\ nodeCache' = Put(nodeCache, child, entry)
      /\ UNCHANGED <<space, gen, visited>>
  BY DEF Upsert, Walking
<1>2. /\ s \in Seq(Frames) /\ L \in Nat \ {0} /\ Top(p) = s[L] /\ Top(p) \in Frames
  <2> HIDE DEF Frames
  <2> QED BY <1>1, StackTyped
<1>3. v \in Nodes /\ todo \in Seq(Nodes)
  BY <1>2 DEF Frames
<1>4. /\ rest.node = v /\ rest.called /\ rest.todo = Tail(todo) /\ rest \in Frames
  <2>1. Tail(todo) \in Seq(Nodes)
    BY <1>1, <1>3
  <2>2. QED
    BY <1>1, <1>2, <2>1, RestOfFrame
<1>5. Frame(child).node = child /\ ~Frame(child).called /\ Frame(child).todo = <<>>
  BY DEF Frame
<1>6. /\ u \in Seq(Frames) /\ Len(u) = L /\ u[L] = rest
      /\ \A i \in 1 .. L - 1 : u[i] = s[i]
  <2>1. Len(u) = L /\ u[L] = rest /\ \A i \in 1 .. L - 1 : u[i] = s[i]
    <3> HIDE DEF rest
    <3> QED BY <1>1, TopChanged
  <2>2. u \in Seq(Frames)
    <3> HIDE DEF rest, s, Frames
    <3> QED BY <1>2, <1>4
  <2>3. QED
    BY <2>1, <2>2
<1>7. /\ Len(t) = L + 1 /\ t[L + 1] = Frame(child) /\ t[L] = rest
      /\ \A i \in 1 .. L - 1 : t[i] = s[i]
  <2> HIDE DEF u, child, rest, s, L, Frames
  <2>1. Len(t) = L + 1 /\ t[L + 1] = Frame(child) /\ \A i \in 1 .. L : t[i] = u[i]
    BY <1>2, <1>6
  <2>2. L \in 1 .. L /\ \A i \in 1 .. L - 1 : i \in 1 .. L
    BY <1>2
  <2>3. QED
    BY <1>6, <2>1, <2>2
<1>8. /\ child \in Range(todo) /\ Range(Tail(todo)) \subseteq Range(todo)
      /\ Range(todo) \subseteq {child} \cup Range(Tail(todo))
  BY <1>1, <1>3, HeadOrTail
<1>9. v \in Reached[L - 1] /\ child \in Children(v) /\ (L > 1 => v \in Met(p))
      /\ Range(todo) \subseteq Children(v)
  <2>1. L \in 1 .. Len(s)
    BY <1>2
  <2>2. /\ s[L].node \in Reached[L - 1] /\ (L > 1 => s[L].node \in Met(p))
        /\ s[L].called => Range(s[L].todo) \subseteq Children(s[L].node)
    BY <2>1 DEF PathInv
  <2>3. QED
    BY <1>1, <1>2, <1>8, <2>2
<1>10. L \in 1 .. MaxDiscoveryDepth + 1
  BY <1>1, <1>2 DEF DepthInv
<1>11. child \in Reached[L]
  <2>1. L - 1 \in 0 .. (MaxDiscoveryDepth + 1) - 1 /\ (L - 1) + 1 = L
    BY <1>10, DiscoveryAssumption
  <2>2. MaxDiscoveryDepth + 1 \in Nat
    BY DiscoveryAssumption
  <2>3. Reached[(L - 1) + 1] = UNION {Children(n) : n \in Reached[L - 1]}
    BY <2>1, <2>2, ReachedProps, PathsProps
  <2>4. QED
    BY <1>9, <2>1, <2>3
<1>12. Reached' = Reached /\ \A n : Children(n)' = Children(n)
  BY <1>1, SpaceKept
<1>13. child \in Nodes
  BY <1>1, <1>3
<1> HIDE DEF child
<1>14. /\ DOMAIN nodeCache' = DOMAIN nodeCache \cup {child}
       /\ nodeCache'[child] = entry
       /\ \A n \in DOMAIN nodeCache : n # child => nodeCache'[n] = nodeCache[n]
  <2> HIDE DEF entry
  <2> QED BY <1>1 DEF Put
<1>15. gen'[p] = gen[p] /\ entry.seen = gen[p] /\ entry.parent = ParentNode(p)
  BY <1>1
<1> HIDE DEF entry
<1>16. Met(p)' = Met(p) \cup {child}
  BY <1>14, <1>15 DEF Met
<1>17. stack'[p] = t /\ visited'[p] = visited[p]
  BY <1>1 DEF TypeOK
<1>18. (Met(p) \subseteq Within)'
  BY <1>10, <1>11, <1>12, <1>16 DEF Within
<1>19. ParentInv(p)'
  <2>1. ParentNode(p) # NoParent => v \in Met(p)
    <3>1. Depth(p) # 0 => L > 1
      <4>1. Depth(p) = L - 1
        BY DEF Depth
      <4> HIDE DEF L
      <4>2. L \in Nat \ {0}
        BY <1>2
      <4>3. QED
        BY <4>1, <4>2
    <3>2. QED
      BY <1>9, <3>1 DEF ParentNode
  <2>2. ParentNode(p) # NoParent => ParentNode(p) = v
    BY DEF ParentNode
  <2>3. ASSUME NEW n \in Met(p) \cup {child}, nodeCache'[n].parent # NoParent
        PROVE  /\ nodeCache'[n].parent \in Met(p) \cup {child}
               /\ n \in Children(nodeCache'[n].parent)
    <3>1. CASE n = child
      BY <1>9, <1>14, <1>15, <2>1, <2>2, <2>3, <3>1
    <3>2. CASE n # child
      <4>1. n \in Met(p) /\ nodeCache'[n] = nodeCache[n]
        BY <1>14, <3>2 DEF Met
      <4>2. QED
        BY <2>3, <4>1 DEF ParentInv
    <3>3. QED
      BY <3>1, <3>2
  <2>4. QED
    BY <1>12, <1>16, <2>3 DEF ParentInv
<1> HIDE DEF t, u, rest
<1>20. \A i \in 1 .. L : i = L \/ i \in 1 .. L - 1
  BY <1>2
<1>21. \A i \in 1 .. L + 1 : i = L + 1 \/ i = L \/ i \in 1 .. L - 1
  BY <1>2
<1>22. L + 1 \in 1 .. L + 1 /\ L \in 1 .. L + 1 /\ (\A i \in 1 .. L : i \in 1 .. L + 1)
       /\ (L + 1) - 1 = L
  BY <1>2
<1>23. ASSUME NEW i \in 1 .. L + 1
       PROVE  /\ t[i].node \in Reached[i - 1]
              /\ i > 1 => t[i].node \in Met(p) \cup {child}
              /\ t[i].called => Range(t[i].todo) \subseteq Children(t[i].node)
  <2>1. CASE i = L + 1
    BY <1>5, <1>7, <1>11, <1>22, <2>1
  <2>2. CASE i = L
    BY <1>4, <1>7, <1>8, <1>9, <2>2
  <2>3. CASE i \in 1 .. L - 1
    <3>1. i \in 1 .. Len(s) /\ t[i] = s[i]
      BY <1>7, <2>3
    <3>2. QED
      BY <3>1 DEF PathInv
  <2>4. QED
    BY <1>21, <2>1, <2>2, <2>3
<1>24. PathInv(p)'
  BY <1>7, <1>12, <1>16, <1>17, <1>23 DEF PathInv
<1>25. ASSUME NEW n \in Met(p) \cup {child} \cup {Root},
              n \notin visited[p] \cup Reached[MaxDiscoveryDepth + 1]
       PROVE  \E i \in 1 .. L + 1 : t[i].node = n /\ ~t[i].called
  <2>1. CASE n = child
    BY <1>5, <1>7, <1>22, <2>1
  <2>2. CASE n # child
    <3>1. PICK i \in 1 .. L : s[i].node = n /\ ~s[i].called
      BY <1>25, <2>2 DEF CoverInv
    <3>2. i # L
      BY <1>1, <1>2, <3>1
    <3>3. QED
      BY <1>7, <1>20, <1>22, <3>1, <3>2
  <2>3. QED
    BY <2>1, <2>2
<1>26. ASSUME NEW n \in visited[p], NEW c \in Children(n) \ (Met(p) \cup {child})
       PROVE  \E i \in 1 .. L + 1 :
                t[i].node = n /\ t[i].called /\ c \in Range(t[i].todo)
  <2>1. PICK i \in 1 .. L : s[i].node = n /\ s[i].called /\ c \in Range(s[i].todo)
    BY DEF CoverInv
  <2>2. CASE i = L
    <3>1. n = v /\ c \in Range(Tail(todo))
      BY <1>2, <1>8, <2>1, <2>2
    <3>2. QED
      BY <1>4, <1>7, <1>22, <3>1
  <2>3. CASE i \in 1 .. L - 1
    BY <1>7, <1>22, <2>1, <2>3
  <2>4. QED
    BY <1>20, <2>2, <2>3
<1>27. CoverInv(p)'
  BY <1>7, <1>12, <1>16, <1>17, <1>25, <1>26 DEF CoverInv
<1>28. QED
  BY <1>18, <1>19, <1>24, <1>27

\* What WalkInv says of a walk.
Followed(p) ==
  (pc[p] \in {"walk", "index"} /\ exact[p]) =>
    /\ PathInv(p) /\ CoverInv(p) /\ ParentInv(p)
    /\ Met(p) \subseteq Within
    /\ pc[p] = "index" => stack[p] = <<>> /\ DOMAIN nodeCache = Met(p)

LEMMA WalkInvIs ==
  /\ WalkInv <=> AgeInv /\ \A p \in Walkers : Followed(p)
  /\ WalkInv' <=> AgeInv' /\ \A p \in Walkers : Followed(p)'
BY DEF WalkInv, Followed

\* One walk is under way at a time, so a step of it leaves nothing to show of
\* the others.
LEMMA OneFollowed ==
  ASSUME MuInv', NEW p \in Walkers, pc'[p] \in {"walk", "index"},
         AgeInv', Followed(p)'
  PROVE  WalkInv'
<1>1. \A q \in Walkers : q # p => pc'[q] \notin {"walk", "index"}
  BY DEF MuInv
<1>2. \A q \in Walkers : q # p => Followed(q)'
  BY <1>1 DEF Followed
<1>3. QED
  BY <1>2, WalkInvIs

\* The nodes met, the calls and what they cover are where they were.
LEMMA WalkKept ==
  ASSUME NEW p, UNCHANGED <<space, nodeCache>>,
         gen'[p] = gen[p], stack'[p] = stack[p], visited'[p] = visited[p]
  PROVE  /\ PathInv(p)' <=> PathInv(p)
         /\ CoverInv(p)' <=> CoverInv(p)
         /\ ParentInv(p)' <=> ParentInv(p)
         /\ (Met(p) \subseteq Within)' <=> (Met(p) \subseteq Within)
         /\ Met(p)' = Met(p)
<1>1. Reached' = Reached /\ Met(p)' = Met(p) /\ \A n : Children(n)' = Children(n)
  BY SpaceKept, MetKept
<1>2. PathInv(p)' <=> PathInv(p)
  BY <1>1 DEF PathInv
<1>3. CoverInv(p)' <=> CoverInv(p)
  BY <1>1 DEF CoverInv
<1>4. ParentInv(p)' <=> ParentInv(p)
  BY <1>1 DEF ParentInv
<1>5. QED
  BY <1>1, <1>2, <1>3, <1>4 DEF Within

\* A step that neither caches nor moves a walk on.
LEMMA NothingMoves ==
  ASSUME WalkInv,
         UNCHANGED <<space, nodeCache, walkGen, gen, stack, visited, exact>>,
         \A q \in Walkers : pc'[q] \in {"walk", "index"} => pc'[q] = pc[q]
  PROVE  WalkInv'
<1>1. AgeInv'
  BY DEF WalkInv, AgeInv
<1>2. ASSUME NEW p \in Walkers
      PROVE  Followed(p)'
  <2> SUFFICES ASSUME pc'[p] \in {"walk", "index"}, exact[p]
               PROVE  Followed(p)'
    BY DEF Followed
  <2>1. pc'[p] = pc[p]
    OBVIOUS
  <2>2. Followed(p)
    BY WalkInvIs
  <2>3. QED
    BY <2>1, <2>2, WalkKept DEF Followed
<1>3. QED
  BY <1>1, <1>2, WalkInvIs

LEMMA LockKeeps ==
  ASSUME TypeOK, MuInv', WalkInv, NEW p \in Walkers, Lock(p)
  PROVE  WalkInv'
<1>1. /\ walkGen' = walkGen + 1 /\ gen'[p] = walkGen + 1
      /\ visited'[p] = {} /\ stack'[p] = <<Frame(Root)>>
      /\ pc'[p] = "walk" /\ UNCHANGED <<space, nodeCache>>
  BY DEF Lock, Goto, TypeOK
<1>2. \A n \in DOMAIN nodeCache : nodeCache[n].seen \in Nat
  BY DEF TypeOK
<1>3. walkGen \in Nat
  BY DEF TypeOK
<1>4. \A n \in DOMAIN nodeCache : nodeCache[n].seen <= walkGen
  BY DEF WalkInv, AgeInv
<1>5. AgeInv'
  BY <1>1, <1>2, <1>3, <1>4 DEF AgeInv
<1>6. Met(p)' = {}
  BY <1>1, <1>2, <1>3, <1>4 DEF Met
<1>7. /\ Len(<<Frame(Root)>>) = 1 /\ <<Frame(Root)>>[1] = Frame(Root)
      /\ Frame(Root).node = Root /\ ~Frame(Root).called
  BY DEF Frame
<1>8. Root \in Reached[0]
  <2>1. MaxDiscoveryDepth + 1 \in Nat
    BY DiscoveryAssumption
  <2>2. QED
    BY <2>1, ReachedProps, PathsProps
<1>9. Reached' = Reached /\ \A n : Children(n)' = Children(n)
  BY <1>1, SpaceKept
<1>10. PathInv(p)'
  <2>1. \A i \in 1 .. 1 : i = 1 /\ i - 1 = 0
    OBVIOUS
  <2>2. QED
    BY <1>1, <1>7, <1>8, <1>9, <2>1 DEF PathInv
<1>11. CoverInv(p)'
  <2>1. 1 \in 1 .. 1
    OBVIOUS
  <2>2. QED
    BY <1>1, <1>6, <1>7, <2>1 DEF CoverInv
<1>12. ParentInv(p)'
  BY <1>6 DEF ParentInv
<1>13. Followed(p)'
  BY <1>1, <1>6, <1>10, <1>11, <1>12 DEF Followed
<1>14. QED
  BY <1>1, <1>5, <1>13, OneFollowed

LEMMA SweepKeeps ==
  ASSUME TypeOK, MuInv', WalkInv, NEW p \in Walkers, Sweep(p)
  PROVE  WalkInv'
<1>1. /\ pc[p] = "walk" /\ stack[p] = <<>> /\ pc'[p] = "index"
      /\ UNCHANGED <<space, walkGen, gen, stack, visited, exact>>
  BY DEF Sweep, Goto, TypeOK, hist
<1>2. /\ DOMAIN nodeCache' = Met(p)
      /\ \A n \in Met(p) : nodeCache'[n] = nodeCache[n]
  BY DEF Sweep, Restrict, Unseen, Met
<1>3. Met(p) \subseteq DOMAIN nodeCache /\ Met(p)' = Met(p)
  BY <1>1, <1>2 DEF Met
<1>4. AgeInv'
  BY <1>1, <1>2, <1>3 DEF WalkInv, AgeInv
<1>5. CASE exact[p]
  <2>1. /\ PathInv(p) /\ CoverInv(p) /\ ParentInv(p) /\ Met(p) \subseteq Within
    BY <1>1, <1>5 DEF WalkInv
  <2>2. Reached' = Reached /\ \A n : Children(n)' = Children(n)
    BY <1>1, SpaceKept
  <2>3. PathInv(p)'
    BY <1>1, <1>3, <2>1, <2>2 DEF PathInv
  <2>4. CoverInv(p)'
    BY <1>1, <1>3, <2>1, <2>2 DEF CoverInv
  <2>5. ParentInv(p)'
    BY <1>2, <1>3, <2>1, <2>2 DEF ParentInv
  <2>6. (Met(p) \subseteq Within)'
    BY <1>3, <2>1, <2>2 DEF Within
  <2>7. Followed(p)'
    BY <1>1, <1>2, <1>3, <2>3, <2>4, <2>5, <2>6 DEF Followed
  <2>8. QED
    BY <1>1, <1>4, <2>7, OneFollowed
<1>6. CASE ~exact[p]
  BY <1>1, <1>4, <1>6, OneFollowed DEF Followed
<1>7. QED
  BY <1>5, <1>6

\* A call returns: it was too deep, a repeat, or has no reference left.
LEMMA ReturnKeeps ==
  ASSUME TypeOK, MuInv', WalkInv, NEW p \in Walkers, Skip(p) \/ Return(p)
  PROVE  WalkInv'
<1>1. /\ pc[p] = "walk" /\ stack[p] # <<>> /\ stack'[p] = Pop(p) /\ pc' = pc
      /\ UNCHANGED <<space, nodeCache, walkGen, gen, visited, exact>>
  BY DEF Skip, Return, Walking, store, hist, TypeOK
<1>2. AgeInv'
  BY <1>1 DEF WalkInv, AgeInv
<1>3. CASE exact[p]
  <2>1. /\ PathInv(p) /\ CoverInv(p) /\ ParentInv(p) /\ Met(p) \subseteq Within
    BY <1>1, <1>3 DEF WalkInv
  <2>2. IF Top(p).called THEN Top(p).todo = <<>>
        ELSE Top(p).node \in visited[p] \cup Reached[MaxDiscoveryDepth + 1]
    <3>1. CASE Return(p) \/ Top(p).node \in visited[p]
      BY <3>1 DEF Skip, Return
    <3>2. CASE Skip(p) /\ TooDeep(p)
      <4>1. Len(stack[p]) \in Nat \ {0} /\ Top(p) = stack[p][Len(stack[p])]
        BY <1>1, StackTyped
      <4>2. Len(stack[p]) <= MaxDiscoveryDepth + 2
        BY DEF TypeOK
      <4>3. Len(stack[p]) - 1 > MaxDiscoveryDepth
        BY <3>2 DEF TooDeep, Depth
      <4>4. Len(stack[p]) \in 1 .. Len(stack[p])
            /\ Len(stack[p]) - 1 = MaxDiscoveryDepth + 1
        BY <4>1, <4>2, <4>3, DiscoveryAssumption
      <4>5. Top(p).node \in Reached[MaxDiscoveryDepth + 1]
        BY <2>1, <4>1, <4>4 DEF PathInv
      <4>6. QED
        BY <3>2, <4>5 DEF Skip
    <3>3. QED
      BY <3>1, <3>2 DEF Skip
  <2>3. PathInv(p)' /\ CoverInv(p)'
    BY <1>1, <2>1, <2>2, PopKeeps
  <2>4. Met(p)' = Met(p) /\ Reached' = Reached /\ \A n : Children(n)' = Children(n)
    BY <1>1, MetKept, SpaceKept
  <2>5. ParentInv(p)' /\ (Met(p) \subseteq Within)'
    BY <1>1, <2>1, <2>4 DEF ParentInv, Within
  <2>6. Followed(p)'
    BY <1>1, <2>3, <2>5 DEF Followed
  <2>7. QED
    BY <1>1, <1>2, <2>6, OneFollowed
<1>4. CASE ~exact[p]
  BY <1>1, <1>2, <1>4, OneFollowed DEF Followed
<1>5. QED
  BY <1>3, <1>4

\* A node is browsed, or its browse fails.
LEMMA BrowsesKeep ==
  ASSUME TypeOK, MuInv', WalkInv, NEW p \in Walkers, Browse(p) \/ BrowseFails(p)
  PROVE  WalkInv'
<1>1. /\ pc[p] = "walk" /\ pc' = pc
      /\ UNCHANGED <<space, nodeCache, walkGen, gen>>
  BY DEF Browse, BrowseFails, Walking, store
<1>2. AgeInv'
  BY <1>1 DEF WalkInv, AgeInv
<1>3. CASE Browse(p) /\ exact[p]
  <2>1. /\ PathInv(p) /\ CoverInv(p) /\ ParentInv(p) /\ Met(p) \subseteq Within
    BY <1>1, <1>3 DEF WalkInv
  <2>2. PathInv(p)' /\ CoverInv(p)'
    BY <1>3, <2>1, BrowseKeeps
  <2>3. Met(p)' = Met(p) /\ Reached' = Reached /\ \A n : Children(n)' = Children(n)
    BY <1>1, MetKept, SpaceKept
  <2>4. ParentInv(p)' /\ (Met(p) \subseteq Within)'
    BY <1>1, <2>1, <2>3 DEF ParentInv, Within
  <2>5. Followed(p)'
    BY <1>1, <2>2, <2>4 DEF Followed
  <2>6. QED
    BY <1>1, <1>2, <2>5, OneFollowed
<1>4. CASE BrowseFails(p) \/ ~exact[p]
  <2>1. ~exact'[p]
    BY <1>4 DEF Browse, BrowseFails, hist, TypeOK
  <2>2. Followed(p)'
    BY <2>1 DEF Followed
  <2>3. QED
    BY <1>1, <1>2, <2>2, OneFollowed
<1>5. QED
  BY <1>3, <1>4

LEMMA UpsertsKeep ==
  ASSUME TypeOK, IndInv, MuInv', WalkInv, NEW p \in Walkers, Upsert(p)
  PROVE  WalkInv'
<1>1. /\ pc[p] = "walk" /\ pc' = pc /\ UNCHANGED <<space, walkGen, gen, exact>>
  BY DEF Upsert, Walking
<1>2. gen[p] = walkGen /\ walkGen \in Nat
  BY <1>1 DEF IndInv, SeenInv, TypeOK
<1>3. PICK child, entry : nodeCache' = Put(nodeCache, child, entry) /\ entry.seen = gen[p]
  <2> DEFINE entry == [parent |-> ParentNode(p), depth |-> Depth(p), seen |-> gen[p]]
  <2>1. nodeCache' = Put(nodeCache, Head(Top(p).todo), entry) /\ entry.seen = gen[p]
    BY DEF Upsert
  <2>2. QED
    BY <2>1
<1>4. AgeInv'
  <2>1. \A n \in DOMAIN nodeCache : nodeCache[n].seen <= walkGen
    BY DEF WalkInv, AgeInv
  <2>2. \A n \in DOMAIN nodeCache' : nodeCache'[n].seen <= walkGen
    BY <1>2, <1>3, <2>1 DEF Put
  <2>3. QED
    BY <1>1, <2>2 DEF AgeInv
<1>5. CASE exact[p]
  <2>1. PathInv(p) /\ CoverInv(p) /\ ParentInv(p) /\ Met(p) \subseteq Within
    BY <1>1, <1>5 DEF WalkInv
  <2>2. PathInv(p)' /\ CoverInv(p)' /\ ParentInv(p)' /\ (Met(p) \subseteq Within)'
    BY <2>1, UpsertKeeps DEF IndInv
  <2>3. Followed(p)'
    BY <1>1, <2>2 DEF Followed
  <2>4. QED
    BY <1>1, <1>4, <2>3, OneFollowed
<1>6. CASE ~exact[p]
  BY <1>1, <1>4, <1>6, OneFollowed DEF Followed
<1>7. QED
  BY <1>5, <1>6

LEMMA WalkStep ==
  ASSUME TypeOK, IndInv, MuInv', WalkInv, [Next]_vars
  PROVE  WalkInv'
<1>1. ASSUME NEW p \in Walkers, 
                Begin(p) \/ UpdateIndex(p) \/ UpdateIndexFails(p) \/ NoIndex(p)
      PROVE  WalkInv'
  <2>1. UNCHANGED <<space, nodeCache, walkGen, gen, stack, visited, exact>>
    BY <1>1 DEF Begin, UpdateIndex, UpdateIndexFails, NoIndex, store, locals, hist
  <2>2. \A q \in Walkers : pc'[q] \in {"walk", "index"} => pc'[q] = pc[q]
    BY <1>1 DEF Begin, UpdateIndex, UpdateIndexFails, NoIndex, Goto, TypeOK
  <2>3. QED
    BY <2>1, <2>2, NothingMoves
<1>2. ASSUME NEW p \in Walkers, Lock(p) PROVE WalkInv'
  BY <1>2, LockKeeps
<1>3. ASSUME NEW p \in Walkers, Skip(p) \/ Return(p) PROVE WalkInv'
  BY <1>3, ReturnKeeps
<1>4. ASSUME NEW p \in Walkers, Browse(p) \/ BrowseFails(p) PROVE WalkInv'
  BY <1>4, BrowsesKeep
<1>5. ASSUME NEW p \in Walkers, Upsert(p) PROVE WalkInv'
  BY <1>5, UpsertsKeep
<1>6. ASSUME NEW p \in Walkers, Sweep(p) PROVE WalkInv'
  BY <1>6, SweepKeeps
<1>7. ASSUME NEW c, SetConnected(c) PROVE WalkInv'
  BY <1>7, NothingMoves DEF SetConnected, Changing, store, locals
<1>8. ASSUME SpaceChanges PROVE WalkInv'
  <2>1. \A p \in Walkers : ~exact'[p]
    BY <1>8 DEF SpaceChanges
  <2>2. AgeInv'
    BY <1>8 DEF WalkInv, AgeInv, SpaceChanges, Changing, store
  <2>3. QED
    BY <2>1, <2>2 DEF WalkInv
<1>9. ASSUME Restart PROVE WalkInv'
  <2>1. \A p \in Walkers : pc'[p] = "idle"
    BY <1>9 DEF Restart
  <2>2. AgeInv'
    BY <1>9 DEF Restart, AgeInv, Empty
  <2>3. QED
    BY <2>1, <2>2 DEF WalkInv
<1>10. ASSUME Stop PROVE WalkInv'
  BY <1>10, NothingMoves DEF Stop, store, locals, hist
<1>11. ASSUME UNCHANGED vars PROVE WalkInv'
  BY <1>11, NothingMoves DEF vars, store, locals, hist
<1>12. QED
  BY <1>1, <1>2, <1>3, <1>4, <1>5, <1>6, <1>7, <1>8, <1>9, <1>10, <1>11
     DEF Next, Walk, Quiescent

\* The calls of an undisturbed walk are a path of references from the root that
\* leads to every node it has met or will meet.
THEOREM WalkInvariance == Spec => []WalkInv
<1>1. Init => WalkInv
  BY DEF Init, WalkInv, AgeInv, Empty
<1>2. TypeOK /\ IndInv /\ (TypeOK /\ IndInv)' /\ WalkInv /\ [Next]_vars => WalkInv'
  BY WalkStep DEF IndInv
<1>3. QED
  BY <1>1, <1>2, Invariance, PTL DEF Spec

-----------------------------------------------------------------------------
(***************************************************************************)
(* What the cache holds after a walk.                                      *)
(***************************************************************************)

LEMMA ReachedTyped ==
  ASSUME TypeOK, NEW k \in 0 .. MaxDiscoveryDepth + 1
  PROVE  Reached[k] \subseteq Nodes
<1> DEFINE K == MaxDiscoveryDepth + 1
           S == {j \in Nat : Reached[j] \subseteq Nodes}
<1>1. K \in Nat /\ IsPaths(Reached, K, {Root})
  BY ReachedProps, DiscoveryAssumption
<1> HIDE DEF K
<1>2. /\ Reached[0] = {Root}
      /\ \A j \in 0 .. K - 1 : Reached[j + 1] = UNION {Children(n) : n \in Reached[j]}
  BY <1>1, PathsProps
<1>3. 0 \in S
  BY <1>2, DiscoveryAssumption
<1>4. ASSUME NEW j \in 0 .. K - 1, j \in S
      PROVE  j + 1 \in S
  <2>1. \A n \in Reached[j] : Children(n) \subseteq Nodes
    BY <1>4, ChildrenTyped
  <2>2. QED
    BY <1>2, <1>4, <2>1
<1>5. 0 .. K \subseteq S
  <2> HIDE DEF S
  <2> QED BY <1>1, <1>3, <1>4, CountingTo
<1>6. QED
  BY <1>5 DEF K

\* In a tree every node is at one depth.
LEMMA OneDepth ==
  ASSUME TypeOK, IsTree, NEW j \in 0 .. MaxDiscoveryDepth + 1,
         NEW k \in 0 .. MaxDiscoveryDepth + 1, j < k
  PROVE  Reached[j] \cap Reached[k] = {}
<1> DEFINE K == MaxDiscoveryDepth + 1
           S == {i \in Nat : \A l \in 0 .. K : i < l => Reached[i] \cap Reached[l] = {}}
<1>1. K \in Nat /\ IsPaths(Reached, K, {Root})
  BY ReachedProps, DiscoveryAssumption
<1>2. \A i \in 0 .. K : Reached[i] \subseteq Nodes
  BY ReachedTyped
<1> HIDE DEF K
<1>3. /\ Reached[0] = {Root}
      /\ \A i \in 0 .. K - 1 : Reached[i + 1] = UNION {Children(n) : n \in Reached[i]}
  BY <1>1, PathsProps
<1>4. \A l \in 1 .. K : /\ l - 1 \in 0 .. K - 1 /\ l - 1 \in 0 .. K
                        /\ Reached[l] = UNION {Children(n) : n \in Reached[l - 1]}
  <2> TAKE l \in 1 .. K
  <2>1. l - 1 \in 0 .. K - 1 /\ l - 1 \in 0 .. K /\ (l - 1) + 1 = l
    BY <1>1
  <2>2. Reached[(l - 1) + 1] = UNION {Children(n) : n \in Reached[l - 1]}
    BY <1>3, <2>1
  <2>3. QED
    BY <2>1, <2>2
<1>5. 0 \in S
  <2>1. ASSUME NEW l \in 0 .. K, 0 < l
        PROVE  Root \notin Reached[l]
    <3>1. l \in 1 .. K
      BY <2>1
    <3>2. QED
      BY <1>2, <1>4, <3>1 DEF IsTree
  <2>2. QED
    BY <1>3, <2>1
<1>6. ASSUME NEW i \in 0 .. K - 1, i \in S
      PROVE  i + 1 \in S
  <2>1. ASSUME NEW l \in 0 .. K, i + 1 < l, NEW x \in Reached[i + 1], x \in Reached[l]
        PROVE  FALSE
    <3>1. l \in 1 .. K /\ i < l - 1 /\ i \in 0 .. K
      BY <1>1, <2>1
    <3>2. PICK m \in Reached[i] : x \in Children(m)
      BY <1>3
    <3>3. PICK n \in Reached[l - 1] : x \in Children(n)
      BY <1>4, <2>1, <3>1
    <3>4. m # n
      BY <1>4, <1>6, <3>1
    <3>5. m \in Nodes /\ n \in Nodes
      BY <1>2, <1>4, <3>1
    <3>6. QED
      BY <3>2, <3>3, <3>4, <3>5 DEF IsTree
  <2>2. QED
    BY <2>1
<1>7. 0 .. K \subseteq S
  <2> HIDE DEF S
  <2> QED BY <1>1, <1>5, <1>6, CountingTo
<1>8. QED
  BY <1>7 DEF K

\* A walk that has ended has met all of a tree within the depth limit.
LEMMA TreeIsMet ==
  ASSUME TypeOK, IsTree, NEW p \in Walkers, stack[p] = <<>>, CoverInv(p)
  PROVE  Within \subseteq Met(p)
<1> DEFINE K == MaxDiscoveryDepth + 1
           S == {k \in Nat : k > 0 => Reached[k] \subseteq Met(p)}
<1>1. K \in Nat /\ IsPaths(Reached, K, {Root}) /\ K \in 0 .. K
  BY ReachedProps, DiscoveryAssumption
<1>2. \A j, k \in 0 .. K : j < k => Reached[j] \cap Reached[k] = {}
  BY OneDepth
<1>3. /\ \A n \in Met(p) \cup {Root} : n \in visited[p] \cup Reached[K]
      /\ \A n \in visited[p] : Children(n) \subseteq Met(p)
  BY DEF CoverInv
<1>4. Within = UNION {Reached[k] : k \in 1 .. K}
  BY DEF Within
<1> HIDE DEF K
<1>5. /\ Reached[0] = {Root}
      /\ \A k \in 0 .. K - 1 : Reached[k + 1] = UNION {Children(n) : n \in Reached[k]}
  BY <1>1, PathsProps
<1>6. 0 \in S
  OBVIOUS
<1>7. ASSUME NEW k \in 0 .. K - 1, k \in S
      PROVE  k + 1 \in S
  <2>1. Reached[k] \subseteq Met(p) \cup {Root}
    BY <1>5, <1>7
  <2>2. Reached[k] \cap Reached[K] = {}
    BY <1>1, <1>2
  <2>3. Reached[k] \subseteq visited[p]
    BY <1>3, <2>1, <2>2
  <2>4. Reached[k + 1] \subseteq Met(p)
    BY <1>3, <1>5, <2>3
  <2>5. QED
    BY <2>4
<1>8. 0 .. K \subseteq S
  <2> HIDE DEF S
  <2> QED BY <1>1, <1>6, <1>7, CountingTo
<1>9. QED
  BY <1>4, <1>8

\* An undisturbed walk leaves what it can reach in the cache: nothing else, and
\* all of it when the address space is a tree.
THEOREM ExactWalk == Spec => []WalkIsExact
<1>1. TypeOK /\ WalkInv => WalkIsExact
  BY TreeIsMet DEF WalkInv, WalkIsExact
<1>2. QED
  BY <1>1, Invariance, WalkInvariance, PTL

-----------------------------------------------------------------------------
(***************************************************************************)
(* The paths that GetNodeHierarchy follows.                                *)
(***************************************************************************)

LEMMA AcyclicEnds ==
  ASSUME TypeOK, IsAcyclic
  PROVE  \E f : IsPaths(f, Cardinality(Nodes), Nodes) /\ f[Cardinality(Nodes)] = {}
<1>1. Cardinality(Nodes) \in Nat
  BY DiscoveryAssumption, FS_CardinalityType
<1>2. \E f : IsPaths(f, Cardinality(Nodes), Nodes)
  BY <1>1, PathsExist
<1> DEFINE After == CHOOSE f : IsPaths(f, Cardinality(Nodes), Nodes)
<1>3. After[Cardinality(Nodes)] = {}
  BY DEF IsAcyclic, IsPaths
<1>4. IsPaths(After, Cardinality(Nodes), Nodes)
  <2> HIDE DEF After
  <2> QED BY <1>2 DEF After
<1>5. QED
  BY <1>3, <1>4

\* IsPath(up, n): up follows the recorded parents from n.
IsPath(up, n) ==
  up = [k \in 0 .. Cardinality(Nodes) |->
          IF k = 0 THEN n
          ELSE IF HierarchyStops(up[k - 1]) THEN up[k - 1]
               ELSE nodeCache[up[k - 1]].parent]

LEMMA AncestorsMet ==
  ASSUME NEW V, NEW n \in V, Cardinality(Nodes) \in Nat,
         \A x \in V : ~HierarchyStops(x) => nodeCache[x].parent \in V
  PROVE  /\ Ancestors(n) \in [0 .. Cardinality(Nodes) -> V]
         /\ Ancestors(n)[0] = n
         /\ \A k \in 1 .. Cardinality(Nodes) : Ancestors(n)[k] =
              IF HierarchyStops(Ancestors(n)[k - 1]) THEN Ancestors(n)[k - 1]
              ELSE nodeCache[Ancestors(n)[k - 1]].parent
<1> DEFINE N == Cardinality(Nodes)
           next(x) == IF HierarchyStops(x) THEN x ELSE nodeCache[x].parent
           step == [k \in 1 .. N |-> [x \in V |-> next(x)]]
<1>1. \A x \in V : next(x) \in V
  OBVIOUS
<1>2. IsStep(step, N, V) /\ \A k \in 1 .. N, x \in V : step[k][x] = next(x)
  <2> HIDE DEF next, N
  <2> QED BY <1>1 DEF IsStep
<1> HIDE DEF step, N
<1>3. PICK f : Recurs(f, N, V, n, step)
  BY <1>2, Recursion DEF N
<1>4. /\ f \in [0 .. N -> V] /\ f[0] = n
      /\ \A k \in 1 .. N : k - 1 \in 0 .. N /\ f[k] = next(f[k - 1])
  <2> HIDE DEF next
  <2>1. f \in [0 .. N -> V] /\ f[0] = n /\ \A k \in 1 .. N : f[k] = step[k][f[k - 1]]
    BY <1>3 DEF Recurs
  <2>2. N \in Nat
    BY DEF N
  <2>3. \A k \in 1 .. N : k - 1 \in 0 .. N
    BY <2>2
  <2>4. \A k \in 1 .. N : f[k - 1] \in V
    BY <2>1, <2>3
  <2>5. QED
    BY <1>2, <2>1, <2>3, <2>4
<1>5. f = [k \in 0 .. N |-> IF k = 0 THEN n ELSE next(f[k - 1])]
  <2> HIDE DEF next
  <2>1. N \in Nat
    BY DEF N
  <2>2. \A k \in 0 .. N : f[k] = IF k = 0 THEN n ELSE next(f[k - 1])
    <3>1. \A k \in 0 .. N : k = 0 \/ k \in 1 .. N
      BY <2>1
    <3>2. \A k \in 1 .. N : k # 0
      BY <2>1
    <3>3. QED
      BY <1>4, <3>1, <3>2
  <2>3. f = [k \in 0 .. N |-> f[k]]
    BY <1>4
  <2>4. QED
    BY <2>2, <2>3
<1>6. IsPath(f, n)
  BY <1>5 DEF IsPath, N
<1>7. Ancestors(n) = CHOOSE up : IsPath(up, n)
  BY DEF Ancestors, IsPath
<1>8. IsPath(Ancestors(n), n)
  BY <1>6, <1>7
<1> DEFINE up == Ancestors(n)
<1>9. \A k \in 0 .. N : up[k] = IF k = 0 THEN n ELSE next(up[k - 1])
  BY <1>8 DEF IsPath, N
<1>10. /\ up[0] = n
       /\ \A k \in 1 .. N : up[k] = next(up[k - 1])
  <2> HIDE DEF up, next
  <2>1. N \in Nat
    BY DEF N
  <2>2. 0 \in 0 .. N /\ \A k \in 1 .. N : k \in 0 .. N /\ k # 0
    BY <2>1
  <2>3. QED
    BY <1>9, <2>2
<1>11. \A k \in 0 .. N : up[k] \in V
  <2> HIDE DEF up, next
  <2> DEFINE S == {k \in Nat : up[k] \in V}
  <2>1. 0 \in S
    BY <1>10
  <2>2. ASSUME NEW k \in 0 .. N - 1, k \in S
        PROVE  k + 1 \in S
    <3>1. N \in Nat
      BY DEF N
    <3>2. k + 1 \in 1 .. N /\ (k + 1) - 1 = k
      BY <3>1
    <3>3. up[k + 1] = next(up[k])
      BY <1>10, <3>2
    <3>4. QED
      BY <1>1, <2>2, <3>3
  <2>3. 0 .. N \subseteq S
    <3> HIDE DEF S
    <3> QED BY <2>1, <2>2, CountingTo DEF N
  <2>4. QED
    BY <2>3
<1>12. up \in [0 .. N -> V]
  <2>1. DOMAIN up = 0 .. N /\ up = [k \in DOMAIN up |-> up[k]]
    BY <1>8 DEF IsPath, N
  <2> HIDE DEF up
  <2>2. QED
    BY <1>11, <2>1
<1>13. QED
  BY <1>10, <1>12 DEF N

\* The recorded parents of what a walk has met lead to a child of the root.
LEMMA PathsEnd ==
  ASSUME TypeOK, IsAcyclic, NEW p \in Walkers, ParentInv(p),
         DOMAIN nodeCache = Met(p), NEW n \in DOMAIN nodeCache
  PROVE  LET top == Ancestors(n)[Cardinality(Nodes)] IN
           top \in DOMAIN nodeCache /\ nodeCache[top].parent = NoParent
<1> DEFINE N == Cardinality(Nodes)
           V == DOMAIN nodeCache
           up == Ancestors(n)
<1>1. N \in Nat
  BY DiscoveryAssumption, FS_CardinalityType
<1>2. \A x \in V : nodeCache[x].parent # NoParent =>
        nodeCache[x].parent \in V /\ x \in Children(nodeCache[x].parent)
  BY DEF ParentInv
<1>3. \A x \in V : /\ HierarchyStops(x) <=> nodeCache[x].parent \in {NoParent, x}
                   /\ ~HierarchyStops(x) => nodeCache[x].parent \in V
  BY <1>2 DEF HierarchyStops
<1>4. PICK f : IsPaths(f, N, Nodes) /\ f[N] = {}
  BY AcyclicEnds
<1>5. V \subseteq Nodes
  BY DEF TypeOK
<1> HIDE DEF V
<1>6. /\ up \in [0 .. N -> V] /\ up[0] = n
      /\ \A k \in 1 .. N : up[k] =
           IF HierarchyStops(up[k - 1]) THEN up[k - 1] ELSE nodeCache[up[k - 1]].parent
  BY <1>1, <1>3, AncestorsMet DEF V
<1> HIDE DEF up, N
<1>7. /\ f[0] = Nodes
      /\ \A k \in 0 .. N - 1 : f[k + 1] = UNION {Children(m) : m \in f[k]}
  BY <1>1, <1>4, PathsProps
<1>8. N \in 0 .. N
  BY <1>1
<1>9. HierarchyStops(up[N])
  <2> SUFFICES ASSUME ~HierarchyStops(up[N])
               PROVE  FALSE
    OBVIOUS
  <2> DEFINE S == {j \in Nat : ~HierarchyStops(up[N - j]) /\ up[N - j] \in f[j]}
  <2>1. 0 \in S
    BY <1>1, <1>5, <1>6, <1>7, <1>8
  <2>2. ASSUME NEW j \in 0 .. N - 1, j \in S
        PROVE  j + 1 \in S
    <3> DEFINE k == N - j
    <3>1. k \in 1 .. N /\ k - 1 \in 0 .. N /\ k - 1 = N - (j + 1) /\ k \in 0 .. N
      BY <1>1
    <3>2. ~HierarchyStops(up[k]) /\ up[k] \in f[j]
      BY <2>2
    <3> HIDE DEF k
    <3>3. /\ up[k - 1] \in V /\ up[k] \in V
          /\ ~HierarchyStops(up[k - 1]) /\ up[k] = nodeCache[up[k - 1]].parent
      BY <1>6, <3>1, <3>2
    <3>4. up[k - 1] \in Children(up[k])
      BY <1>2, <1>3, <3>3
    <3>5. up[k - 1] \in f[j + 1]
      BY <1>7, <3>2, <3>4
    <3>6. QED
      BY <3>1, <3>3, <3>5
  <2>3. 0 .. N \subseteq S
    <3> HIDE DEF S
    <3> QED BY <1>1, <2>1, <2>2, CountingTo
  <2>4. QED
    BY <1>4, <1>8, <2>3
<1>10. up[N] \in V
  BY <1>6, <1>8
<1>11. nodeCache[up[N]].parent # up[N]
  <2> SUFFICES ASSUME nodeCache[up[N]].parent = up[N]
               PROVE  FALSE
    OBVIOUS
  <2> DEFINE x == up[N]
             S == {j \in Nat : x \in f[j]}
  <2>1. x \in Nodes /\ x # NoParent
    BY <1>5, <1>10, DiscoveryAssumption
  <2>2. x \in Children(x)
    BY <1>2, <1>10, <2>1
  <2> HIDE DEF x
  <2>3. 0 \in S
    BY <1>7, <2>1
  <2>4. ASSUME NEW j \in 0 .. N - 1, j \in S
        PROVE  j + 1 \in S
    BY <1>7, <2>2, <2>4
  <2>5. 0 .. N \subseteq S
    <3> HIDE DEF S
    <3> QED BY <1>1, <2>3, <2>4, CountingTo
  <2>6. QED
    BY <1>4, <1>8, <2>5
<1>12. nodeCache[up[N]].parent = NoParent
  BY <1>3, <1>9, <1>10, <1>11
<1>13. QED
  BY <1>10, <1>12 DEF V, up, N

\* After an undisturbed walk of an address space without cycles, every cached
\* node's recorded parents lead to a child of the root.
THEOREM CompleteHierarchy == Spec => []HierarchyIsComplete
<1>1. TypeOK /\ WalkInv => HierarchyIsComplete
  BY PathsEnd DEF WalkInv, HierarchyIsComplete
<1>2. QED
  BY <1>1, Invariance, WalkInvariance, PTL
=============================================================================
