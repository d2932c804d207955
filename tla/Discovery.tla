----------------------------- MODULE Discovery ------------------------------
(***************************************************************************)
(* DiscoveryService (internal/opcua/discovery.go): walks over the server's *)
(* address space that mark the nodes they meet with the walk's generation, *)
(* sweep the others out of the node cache, and bring the search index in   *)
(* line with it.  Walks come from the worker's ticker and from             *)
(* opcua_force_discovery (or opcua_ensure_server_nodes); discoveryMu lets  *)
(* one walk run at a time.                                                 *)
(*                                                                         *)
(* discoverNodeRecursive is a stack of frames, one per call: the node it   *)
(* browses and the references it has not processed yet.  The depth of a    *)
(* call is the number of frames below its own.                             *)
(***************************************************************************)
EXTENDS Integers, Sequences, FiniteSets, Functions

CONSTANTS
  Nodes, Root,        \* node IDs, SEARCH_DISCOVERY_ROOT_NODE
  NoParent,           \* the empty parent of the root's children
  Spaces,             \* address spaces: node -> references in browse order
  MaxDiscoveryDepth, MaxNodesPerBrowse,
  Worker, Forcers,    \* the ticker's goroutine; tool calls
  NoProc,             \* discoveryMu is free
  MaxWalks,           \* bound: walks
  MaxChanges,         \* bound: changes of connection and address space
  MaxFaults           \* bound: failed browses and batches, restarts

Walkers == {Worker} \cup Forcers

ASSUME DiscoveryAssumption ==
  /\ IsFiniteSet(Nodes) /\ Root \in Nodes /\ NoParent \notin Nodes
  /\ Spaces \subseteq [Nodes -> Seq(Nodes)]
  /\ MaxDiscoveryDepth \in Nat /\ MaxNodesPerBrowse \in Nat
  /\ Worker \notin Forcers /\ NoProc \notin Walkers
  /\ MaxWalks \in Nat /\ MaxChanges \in Nat /\ MaxFaults \in Nat

VARIABLES
  connected,    \* Client.IsConnected
  space,        \* the server's address space
  nodeCache,    \* node -> parent, depth, SeenInGen
  index,        \* the nodes in the Bleve index
  searching,    \* SEARCH_ENABLE_SEARCH: there is an index at all
  open,         \* Stop has not been called: the index, if any, is open
  walkGen, discoveryMu,
  pc, gen, stack, visited, swept,   \* the walks' locals
  touched,      \* history: nodes cached since each walk began
  exact,        \* history: no browse failed and nothing changed since then
  synced,       \* history: no walk since the last successful batch
  strays,       \* history: entries an earlier process or a failed batch left
                \* in the index, of nodes no batch has had in the cache since
  refused,      \* history: nodes batch.Index refused in the last batch
  walks, changes, faults

store  == <<nodeCache, index, walkGen>>
locals == <<gen, stack, visited, swept>>
hist   == <<touched, exact, synced, strays, refused>>
bounds == <<walks, changes, faults>>
vars   == <<connected, space, store, searching, open, discoveryMu, pc, locals,
            hist, bounds>>

Put(f, k, v) == [x \in DOMAIN f \cup {k} |-> IF x = k THEN v ELSE f[x]]
Empty == [x \in {} |-> x]

Failures(n) == faults + n <= MaxFaults /\ faults' = faults + n
Goto(p, label) == pc' = [pc EXCEPT ![p] = label]

Init ==
  /\ connected = TRUE
  /\ space \in Spaces
  /\ nodeCache = Empty /\ index = {}
  /\ searching \in BOOLEAN /\ open = TRUE
  /\ walkGen = 0 /\ discoveryMu = NoProc
  /\ pc = [p \in Walkers |-> "idle"]
  /\ gen = [p \in Walkers |-> 0]
  /\ stack = [p \in Walkers |-> <<>>]
  /\ visited = [p \in Walkers |-> {}]
  /\ swept = [p \in Walkers |-> {}]
  /\ touched = [p \in Walkers |-> {}]
  /\ exact = [p \in Walkers |-> FALSE]
  /\ synced = FALSE /\ strays = {} /\ refused = {}
  /\ walks = 0 /\ changes = 0 /\ faults = 0

-----------------------------------------------------------------------------
(***************************************************************************)
(* discoverNodes up to the walk.                                           *)
(***************************************************************************)

\* The connection is checked before discoveryMu is taken; without it the call
\* is an error that changes nothing.  The worker ends at Stop.
Begin(p) ==
  /\ pc[p] = "idle"
  /\ connected
  /\ open \/ p # Worker
  /\ walks < MaxWalks
  /\ walks' = walks + 1
  /\ Goto(p, "lock")
  /\ UNCHANGED <<connected, space, store, searching, open, discoveryMu, locals, hist,
                 changes, faults>>

Frame(n) == [node |-> n, called |-> FALSE, todo |-> <<>>]

\* Mutant: walks are not serialized.
FreeAlways == TRUE

Free == discoveryMu = NoProc

Lock(p) ==
  /\ pc[p] = "lock"
  /\ Free
  /\ discoveryMu' = p
  /\ walkGen' = walkGen + 1
  /\ gen' = [gen EXCEPT ![p] = walkGen + 1]
  /\ visited' = [visited EXCEPT ![p] = {}]
  /\ stack' = [stack EXCEPT ![p] = <<Frame(Root)>>]
  /\ Goto(p, "walk")
  /\ touched' = [touched EXCEPT ![p] = {}]
  /\ exact' = [exact EXCEPT ![p] = TRUE]
  /\ synced' = FALSE
  /\ UNCHANGED <<connected, space, nodeCache, index, searching, open, swept, strays,
                 refused, bounds>>

-----------------------------------------------------------------------------
(***************************************************************************)
(* discoverNodeRecursive.                                                  *)
(***************************************************************************)
Top(p)   == stack[p][Len(stack[p])]
Depth(p) == Len(stack[p]) - 1
Pop(p)   == SubSeq(stack[p], 1, Len(stack[p]) - 1)

Walking(p) == pc[p] = "walk" /\ stack[p] # <<>>

\* Mutant: the depth limit is off by one.
TooDeepLate(p) == Depth(p) > MaxDiscoveryDepth + 1

TooDeep(p) == Depth(p) > MaxDiscoveryDepth

\* The early returns: too deep, or walked before in this generation.
Skip(p) ==
  /\ Walking(p) /\ ~Top(p).called
  /\ TooDeep(p) \/ Top(p).node \in visited[p]
  /\ stack' = [stack EXCEPT ![p] = Pop(p)]
  /\ UNCHANGED <<connected, space, store, searching, open, discoveryMu, pc, gen, visited,
                 swept, hist, bounds>>

\* The references the loop processes.
Limited(s) ==
  SubSeq(s, 1, IF Len(s) < MaxNodesPerBrowse THEN Len(s) ELSE MaxNodesPerBrowse)

Browse(p) ==
  /\ Walking(p) /\ ~Top(p).called
  /\ ~TooDeep(p) /\ Top(p).node \notin visited[p]
  /\ connected
  /\ visited' = [visited EXCEPT ![p] = @ \cup {Top(p).node}]
  /\ stack' = [stack EXCEPT ![p][Len(stack[p])] =
                 [node |-> Top(p).node, called |-> TRUE,
                  todo |-> Limited(space[Top(p).node])]]
  /\ UNCHANGED <<connected, space, store, searching, open, discoveryMu, pc, gen, swept,
                 hist, bounds>>

\* The browse fails (twice, for the Server nodes): the call returns as if the
\* node had no references.
BrowseFails(p) ==
  /\ Walking(p) /\ ~Top(p).called
  /\ ~TooDeep(p) /\ Top(p).node \notin visited[p]
  /\ Failures(IF connected THEN 1 ELSE 0)
  /\ visited' = [visited EXCEPT ![p] = @ \cup {Top(p).node}]
  /\ stack' = [stack EXCEPT ![p] = Pop(p)]
  /\ exact' = [exact EXCEPT ![p] = FALSE]
  /\ UNCHANGED <<connected, space, store, searching, open, discoveryMu, pc, gen, swept,
                 touched, synced, strays, refused, walks, changes>>

\* Mutant: the parent is kept for the root's children too.
ParentNodeAlways(p) == Top(p).node

\* The parent recorded for the references of p's current call.
ParentNode(p) == IF Depth(p) = 0 THEN NoParent ELSE Top(p).node

\* One reference: the node is put into the cache and walked in turn.
Upsert(p) ==
  /\ Walking(p) /\ Top(p).called /\ Top(p).todo # <<>>
  /\ LET child == Head(Top(p).todo)
         rest  == [Top(p) EXCEPT !.todo = Tail(@)]
     IN
       /\ nodeCache' = Put(nodeCache, child,
                           [parent |-> ParentNode(p), depth |-> Depth(p),
                            seen |-> gen[p]])
       /\ stack' = [stack EXCEPT ![p] =
                      Append([@ EXCEPT ![Len(stack[p])] = rest], Frame(child))]
       /\ touched' = [q \in Walkers |-> touched[q] \cup {child}]
  /\ UNCHANGED <<connected, space, index, walkGen, searching, open, discoveryMu, pc,
                 gen, visited, swept, exact, synced, strays, refused, bounds>>

Return(p) ==
  /\ Walking(p) /\ Top(p).called /\ Top(p).todo = <<>>
  /\ stack' = [stack EXCEPT ![p] = Pop(p)]
  /\ UNCHANGED <<connected, space, store, searching, open, discoveryMu, pc, gen, visited,
                 swept, hist, bounds>>

-----------------------------------------------------------------------------
(***************************************************************************)
(* The rest of discoverNodes.                                              *)
(***************************************************************************)

\* The nodes the walk has not met.
Unseen(p) == {n \in DOMAIN nodeCache : nodeCache[n].seen # gen[p]}

\* The sweep, under cacheMutex.
Sweep(p) ==
  /\ pc[p] = "walk" /\ stack[p] = <<>>
  /\ swept' = [swept EXCEPT ![p] = Unseen(p)]
  /\ nodeCache' = Restrict(nodeCache, DOMAIN nodeCache \ Unseen(p))
  /\ Goto(p, "index")
  /\ UNCHANGED <<connected, space, index, walkGen, searching, open, discoveryMu, gen,
                 stack, visited, hist, bounds>>

\* Mutant: the batch only adds.
BatchedAdding(p, refusals) == index \cup (DOMAIN nodeCache \ refusals)

\* The index after updateSearchIndex's batch.  A node that batch.Index refuses
\* is logged and left out of it.
Batched(p, refusals) == (index \cup (DOMAIN nodeCache \ refusals)) \ swept[p]

\* Mutant: the error return for a closed index forgets discoveryMu.
UnlockIfOpen == discoveryMu' = IF open THEN NoProc ELSE discoveryMu

Unlock == discoveryMu' = NoProc

UpdateIndex(p) ==
  /\ pc[p] = "index"
  /\ searching /\ open
  /\ \E refusals \in SUBSET DOMAIN nodeCache :
       /\ Failures(IF refusals = {} THEN 0 ELSE 1)
       /\ index' = Batched(p, refusals)
       /\ refused' = refusals
  /\ Unlock
  /\ Goto(p, "idle")
  /\ synced' = TRUE
  /\ strays' = strays \ (DOMAIN nodeCache \cup swept[p])
  /\ UNCHANGED <<connected, space, nodeCache, walkGen, searching, open, locals,
                 touched, exact, walks, changes>>

\* The batch fails, or the index was closed: what was swept is forgotten.
UpdateIndexFails(p) ==
  /\ pc[p] = "index"
  /\ searching /\ Failures(IF open THEN 1 ELSE 0)
  /\ Unlock
  /\ Goto(p, "idle")
  /\ strays' = strays \cup (swept[p] \cap index)
  /\ UNCHANGED <<connected, space, store, searching, open, locals, touched, exact,
                 synced, refused, walks, changes>>

\* Search is disabled: the walk ends without an index.
NoIndex(p) ==
  /\ pc[p] = "index"
  /\ ~searching
  /\ Unlock
  /\ Goto(p, "idle")
  /\ UNCHANGED <<connected, space, store, searching, open, locals, hist, bounds>>

\* Stop joins the worker and closes the index; forced walks may be running.
Stop ==
  /\ open /\ pc[Worker] = "idle"
  /\ open' = FALSE
  /\ UNCHANGED <<connected, space, store, searching, discoveryMu, pc, locals, hist,
                 bounds>>

-----------------------------------------------------------------------------
Changing ==
  /\ changes < MaxChanges
  /\ changes' = changes + 1
  /\ UNCHANGED <<store, searching, open, discoveryMu, pc, locals, touched, synced,
                 strays, refused, walks, faults>>

\* The client loses its connection or gets one.
SetConnected(c) ==
  /\ connected # c
  /\ connected' = c
  /\ Changing
  /\ UNCHANGED <<space, exact>>

\* Nodes and references of the server change.
SpaceChanges ==
  /\ space' \in Spaces \ {space}
  /\ exact' = [p \in Walkers |-> FALSE]
  /\ Changing
  /\ UNCHANGED connected

\* The process is started again and opens the index it finds on disk.
Restart ==
  /\ Failures(1)
  /\ nodeCache' = Empty /\ walkGen' = 0
  /\ open' = TRUE /\ discoveryMu' = NoProc
  /\ pc' = [p \in Walkers |-> "idle"]
  /\ synced' = FALSE
  /\ strays' = index
  /\ UNCHANGED <<connected, space, index, searching, locals, touched, exact, refused,
                 walks, changes>>

Walk(p) ==
  \/ Skip(p) \/ Browse(p) \/ BrowseFails(p) \/ Upsert(p) \/ Return(p)
  \/ Sweep(p) \/ UpdateIndex(p) \/ UpdateIndexFails(p) \/ NoIndex(p)

Quiescent == (\A p \in Walkers : pc[p] = "idle") /\ UNCHANGED vars

Next ==
  \/ \E p \in Walkers : Begin(p) \/ Lock(p) \/ Walk(p)
  \/ \E c \in BOOLEAN : SetConnected(c)
  \/ SpaceChanges \/ Stop \/ Restart
  \/ Quiescent

\* A walk's browses are bounded by the request timeout; the mutex is fair.
Fairness == \A p \in Walkers : WF_vars(Walk(p)) /\ SF_vars(Lock(p))

Spec     == Init /\ [][Next]_vars
FairSpec == Spec /\ Fairness
-----------------------------------------------------------------------------
(***************************************************************************)
(* Correctness.                                                            *)
(***************************************************************************)

Frames == [node : Nodes, called : BOOLEAN, todo : Seq(Nodes)]

\* Every variable keeps its type; no walk is deeper than the limit allows.
TypeOK ==
  /\ connected \in BOOLEAN /\ space \in Spaces
  /\ DOMAIN nodeCache \subseteq Nodes
  /\ \A n \in DOMAIN nodeCache :
       nodeCache[n] \in [parent : Nodes \cup {NoParent},
                         depth : 0 .. MaxDiscoveryDepth, seen : Nat]
  /\ index \subseteq Nodes /\ searching \in BOOLEAN /\ open \in BOOLEAN
  /\ walkGen \in Nat /\ discoveryMu \in Walkers \cup {NoProc}
  /\ pc \in [Walkers -> {"idle", "lock", "walk", "index"}]
  /\ gen \in [Walkers -> Nat]
  /\ stack \in [Walkers -> Seq(Frames)]
  /\ \A p \in Walkers : Len(stack[p]) <= MaxDiscoveryDepth + 2
  /\ visited \in [Walkers -> SUBSET Nodes] /\ swept \in [Walkers -> SUBSET Nodes]
  /\ touched \in [Walkers -> SUBSET Nodes] /\ exact \in [Walkers -> BOOLEAN]
  /\ synced \in BOOLEAN /\ strays \subseteq Nodes /\ refused \subseteq Nodes
  /\ walks \in Nat /\ changes \in Nat /\ faults \in Nat

Children(n) == Range(Limited(space[n]))

\* Reached[k]: the nodes at the end of a path of k references from the root.
Reached[k \in 0 .. MaxDiscoveryDepth + 1] ==
  IF k = 0 THEN {Root} ELSE UNION {Children(n) : n \in Reached[k - 1]}

\* What a walk can find within the depth limit.
Within == UNION {Reached[k] : k \in 1 .. MaxDiscoveryDepth + 1}

\* No two nodes refer to the same node, and none refers to the root.
IsTree ==
  /\ \A n \in Nodes : Root \notin Children(n)
  /\ \A m, n \in Nodes : m # n => Children(m) \cap Children(n) = {}

\* Every entry that carries the latest generation was cached by the walk that
\* owns it: a sweep never removes a node that was met after it began, by
\* whichever walk.
NeverSweepsMet ==
  [][ \A p \in Walkers :
        (pc[p] = "walk" /\ pc'[p] = "index")
          => touched[p] \subseteq DOMAIN nodeCache'
    ]_vars

\* After a walk that nothing disturbed, the cache holds only nodes within the
\* depth limit, and all of them if the address space is a tree.
WalkIsExact ==
  \A p \in Walkers : (pc[p] = "index" /\ exact[p]) =>
    /\ DOMAIN nodeCache \subseteq Within
    /\ IsTree => DOMAIN nodeCache = Within

\* Between walks, once the last one has written its batch, index and cache
\* differ only by what the code cannot know or has logged: an entry of a node
\* that is not cached was found on disk at the start of the process, or stayed
\* when a batch failed, and no walk has met or swept the node since; a cached
\* node is missing only if that batch refused it.  What a walk sweeps leaves
\* both, in a process that opened an existing index too.
IndexFollowsCache ==
  synced => /\ index \ DOMAIN nodeCache \subseteq strays
            /\ DOMAIN nodeCache \ index \subseteq refused

\* Every walk ends, on address spaces with cycles too, and releases
\* discoveryMu for the next.
WalksEnd == \A p \in Walkers : pc[p] # "idle" ~> pc[p] = "idle"

\* GetNodeHierarchy follows ParentNode until it is empty, not cached or the
\* node itself: where it stops ...
HierarchyStops(n) ==
  n \notin DOMAIN nodeCache \/ nodeCache[n].parent \in {NoParent, n}

\* ... and the nodes it has come by after k steps from n.
Ancestors(n) ==
  LET up[k \in 0 .. Cardinality(Nodes)] ==
        IF k = 0 THEN n
        ELSE IF HierarchyStops(up[k - 1]) THEN up[k - 1]
             ELSE nodeCache[up[k - 1]].parent
  IN up

\* No path of references longer than the number of nodes: no cycle.
IsAcyclic ==
  LET After[k \in 0 .. Cardinality(Nodes)] ==
        IF k = 0 THEN Nodes ELSE UNION {Children(n) : n \in After[k - 1]}
  IN After[Cardinality(Nodes)] = {}

\* GetNodeHierarchy returns the complete path of every cached node, from a
\* child of the root, after a walk that nothing disturbed of an address space
\* without cycles, whichever of several references to a node was walked last.
HierarchyIsComplete ==
  \A p \in Walkers : (pc[p] = "index" /\ exact[p] /\ IsAcyclic) =>
    \A n \in DOMAIN nodeCache :
      LET top == Ancestors(n)[Cardinality(Nodes)] IN
        top \in DOMAIN nodeCache /\ nodeCache[top].parent = NoParent
-----------------------------------------------------------------------------
(***************************************************************************)
(* The inductive invariant behind NeverSweepsMet and IndexFollowsCache.    *)
(***************************************************************************)

\* discoveryMu is held by exactly the walk that is under way.
MuInv == \A p \in Walkers : discoveryMu = p <=> pc[p] \in {"walk", "index"}

\* A call that browses is within the depth limit.
DepthInv ==
  \A p \in Walkers : \A i \in 1 .. Len(stack[p]) :
    stack[p][i].called => i <= MaxDiscoveryDepth + 1

\* What was cached since a walk began carries its generation, the latest.
SeenInv ==
  \A p \in Walkers : pc[p] = "walk" =>
    /\ gen[p] = walkGen
    /\ touched[p] \subseteq {n \in DOMAIN nodeCache : nodeCache[n].seen = walkGen}

\* What the index holds beyond the cache are strays and what the walk under
\* way has just swept.
IndexInv ==
  /\ synced => discoveryMu = NoProc /\ DOMAIN nodeCache \ index \subseteq refused
  /\ (\A p \in Walkers : pc[p] # "index") =>
       index \subseteq DOMAIN nodeCache \cup strays
  /\ \A p \in Walkers : pc[p] = "index" =>
       /\ index \subseteq DOMAIN nodeCache \cup swept[p] \cup strays
       /\ DOMAIN nodeCache \cap swept[p] = {}
  /\ ~searching => index = {}

IndInv == MuInv /\ DepthInv /\ SeenInv /\ IndexInv
-----------------------------------------------------------------------------
(***************************************************************************)
(* The inductive invariant behind WalkIsExact and HierarchyIsComplete.     *)
(***************************************************************************)

\* The nodes p's walk has met so far.
Met(p) == {n \in DOMAIN nodeCache : nodeCache[n].seen = gen[p]}

\* The calls of the walk are a path of references from the root.
PathInv(p) ==
  \A i \in 1 .. Len(stack[p]) :
    LET f == stack[p][i] IN
      /\ f.node \in Reached[i - 1]
      /\ i > 1 => f.node \in Met(p)
      /\ f.called => Range(f.todo) \subseteq Children(f.node)

\* What the walk has met it has visited, is about to visit, or has met at the
\* depth limit; what it has visited has its children met, or still to process.
CoverInv(p) ==
  /\ \A n \in Met(p) \cup {Root} :
       \/ n \in visited[p] \cup Reached[MaxDiscoveryDepth + 1]
       \/ \E i \in 1 .. Len(stack[p]) : stack[p][i].node = n /\ ~stack[p][i].called
  /\ \A n \in visited[p] : \A c \in Children(n) \ Met(p) :
       \E i \in 1 .. Len(stack[p]) :
         /\ stack[p][i].node = n /\ stack[p][i].called
         /\ c \in Range(stack[p][i].todo)

\* The parent of a node the walk has met was met too and refers to the node.
ParentInv(p) ==
  \A n \in Met(p) :
    LET parent == nodeCache[n].parent IN
      parent # NoParent => parent \in Met(p) /\ n \in Children(parent)

\* No entry is newer than the latest walk, so a walk begins with none met.
AgeInv == \A n \in DOMAIN nodeCache : nodeCache[n].seen <= walkGen

WalkInv ==
  /\ AgeInv
  /\ \A p \in Walkers : (pc[p] \in {"walk", "index"} /\ exact[p]) =>
       /\ PathInv(p) /\ CoverInv(p) /\ ParentInv(p)
       /\ Met(p) \subseteq Within
       /\ pc[p] = "index" => stack[p] = <<>> /\ DOMAIN nodeCache = Met(p)
=============================================================================
