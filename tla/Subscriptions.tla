---------------------------- MODULE Subscriptions ----------------------------
(***************************************************************************)
(* SubscriptionManager (internal/opcua/subscription.go): logical           *)
(* subscriptions, the interval groups that carry them, the intents         *)
(* persisted in the store, and the restores that run when a session        *)
(* recovery or the ReconnectWatcher has replaced the connection.           *)
(*                                                                         *)
(* subscribeInternal and Unsubscribe hold the manager's mutex from start   *)
(* to end and are one step each.  A restore takes the mutex several times: *)
(* it clears the maps, lists the intents, and subscribes one intent per    *)
(* step, so tool calls and other restores can come in between.             *)
(***************************************************************************)
EXTENDS Integers, Sequences, FiniteSets, FiniteSetsExt, Functions

CONSTANTS
  Ids,          \* subscription ids (uuids)
  Nodes,        \* node IDs
  Malformed,    \* the node IDs ua.ParseNodeID rejects
  Intervals,    \* publishing intervals
  Requests,     \* the node ID lists clients ask for
  SubIds,       \* bound: names for gopcua Subscriptions
  Main,         \* main's goroutine: warmStart
  Watcher,      \* the ReconnectWatcher goroutine: rebuild
  Recoverers,   \* callers whose session recovery runs resubscribe
  NotifyCap,    \* STORE_NOTIFY_CHAN_BUFFER
  MaxHandles,   \* bound: client handles issued by one process
  MaxChanges,   \* bound: connection changes and restarts
  MaxFaults     \* bound: failed or refused server and store calls

Restorers == {Main, Watcher} \cup Recoverers

ASSUME SubscriptionsAssumption ==
  /\ IsFiniteSet(Ids) /\ IsFiniteSet(Nodes)
  /\ Malformed \subseteq Nodes
  /\ Requests \subseteq Seq(Nodes) \ {<<>>}
  /\ Main # Watcher /\ Main \notin Recoverers /\ Watcher \notin Recoverers
  /\ NotifyCap \in Nat /\ MaxHandles \in Nat
  /\ MaxChanges \in Nat /\ MaxFaults \in Nat

VARIABLES
  link,        \* the Client's connection: down, up, or up with a lost session
  server,      \* gopcua Subscriptions alive on it: their items, handle -> node
  records,     \* subscriptions: id -> nodes and interval
  groups,      \* intervalGroups: interval -> gopcua Subscription and its maps
  nextHandle,  \* the last client handle issued
  intents,     \* the store's subscriptions bucket: id -> nodes and interval
  heard,       \* a connection was dialed that reports to the watcher
  running,     \* started and not stopped: handler set, pump and watcher running
  pc, todo,    \* each restore's program point and the intents still to restore
  notifyCh,    \* notifications in flight: the handle and the node behind it
  batch,       \* the pump's batch: node written and node it came from
  unused,      \* history: ids no Subscribe has drawn yet
  unsaved,     \* history: records whose last PutSubscription failed
  skipped,     \* history: intents a restore failed to bring back
  changes, faults

restore == <<pc, todo>>
pumped  == <<notifyCh, batch>>
memory  == <<records, groups, nextHandle>>
history == <<unused, unsaved, skipped>>
vars == <<link, heard, server, memory, intents, running, restore, pumped, history,
          changes, faults>>

Empty == [x \in {} |-> x]
Put(f, k, v) == [x \in DOMAIN f \cup {k} |-> IF x = k THEN v ELSE f[x]]
Without(f, S) == Restrict(f, DOMAIN f \ S)

\* g's entries, and f's elsewhere.
Update(f, g) ==
  [x \in DOMAIN f \cup DOMAIN g |-> IF x \in DOMAIN g THEN g[x] ELSE f[x]]

\* The process is up: main starts to serve once warmStart has returned.
Serving == running /\ pc[Main] = "idle"

\* n calls to the server or the store fail, or are refused.
Failures(n) == faults + n <= MaxFaults /\ faults' = faults + n

Init ==
  /\ link \in {"up", "down"}
  /\ heard = FALSE
  /\ server = Empty
  /\ records = Empty /\ groups = Empty /\ nextHandle = 0
  /\ intents = Empty
  /\ running = TRUE
  /\ pc = [r \in Restorers |-> "idle"]
  /\ todo = [r \in Restorers |-> Empty]
  /\ notifyCh = <<>> /\ batch = {}
  /\ unused = Ids /\ unsaved = {} /\ skipped = {}
  /\ changes = 0 /\ faults = 0

-----------------------------------------------------------------------------
(***************************************************************************)
(* subscribeInternal(id, nodes, i).                                        *)
(***************************************************************************)

\* s names no gopcua Subscription, alive or dead.
IsFresh(s) ==
  s \notin DOMAIN server /\ \A i \in DOMAIN groups : groups[i].sub # s

\* The name of a new gopcua Subscription.
FreshSub == CHOOSE s \in SubIds : IsFresh(s)

NewGroup == [sub |-> FreshSub, refs |-> 0, route |-> Empty, item |-> Empty]

\* The group of interval i, created when there is none.
Group(i) == IF i \in DOMAIN groups THEN groups[i] ELSE NewGroup

\* What the server holds once that group's Subscription has been created.
Opened(i) == IF i \in DOMAIN groups THEN server
             ELSE Put(server, Group(i).sub, Empty)

CanOpen(i) == i \in DOMAIN groups \/ link = "up"

\* client.Subscribe fails: nothing is created.
CreateFails(i) ==
  /\ i \notin DOMAIN groups
  /\ Failures(IF link = "up" THEN 1 ELSE 0)
  /\ UNCHANGED <<server, memory, intents, unsaved>>

\* A node ID does not parse: the group, if new, stays behind with no reference.
ParseFails(nodes, i) ==
  /\ CanOpen(i)
  /\ \E k \in DOMAIN nodes :
       /\ nodes[k] \in Malformed
       /\ \A j \in 1 .. k - 1 : nodes[j] \notin Malformed
       /\ nextHandle' = nextHandle + k - 1
  /\ groups' = Put(groups, i, Group(i))
  /\ server' = Opened(i)
  /\ Failures(0)
  /\ UNCHANGED <<records, intents, unsaved>>

\* Mutant: ParseNodeID's error is ignored.
ParsesAnything(nodes, i) == CanOpen(i)

Parses(nodes, i) ==
  CanOpen(i) /\ \A k \in DOMAIN nodes : nodes[k] \notin Malformed

\* The Monitor request fails: as above, and the handles are used up.
MonitorFails(nodes, i) ==
  /\ Parses(nodes, i)
  /\ Failures(IF Group(i).sub \in DOMAIN Opened(i) THEN 1 ELSE 0)
  /\ nextHandle' = nextHandle + Len(nodes)
  /\ groups' = Put(groups, i, Group(i))
  /\ server' = Opened(i)
  /\ UNCHANGED <<records, intents, unsaved>>

\* The items the server creates when it rejects the nodes in rej.
Items(nodes, rej) ==
  [h \in {nextHandle + k : k \in {j \in DOMAIN nodes : nodes[j] \notin rej}}
     |-> nodes[h - nextHandle]]

\* The nodes the server did not reject, in their order.
Accepted(nodes, rej) ==
  LET taken[k \in 0 .. Len(nodes)] ==
        IF k = 0 THEN <<>>
        ELSE IF nodes[k] \in rej THEN taken[k - 1]
        ELSE Append(taken[k - 1], nodes[k])
  IN taken[Len(nodes)]

\* The handle recorded for a node is the last one requested for it.
LastHandles(nodes, rej) ==
  [n \in Range(nodes) \ rej |->
     nextHandle + Max({k \in DOMAIN nodes : nodes[k] = n})]

\* Monitor succeeded and every node was rejected: a group without references
\* is cancelled again, and forgotten even if that fails.
NoneAccepted(nodes, i) ==
  /\ Parses(nodes, i) /\ Group(i).sub \in DOMAIN Opened(i)
  /\ Failures(1)
  /\ nextHandle' = nextHandle + Len(nodes)
  /\ IF Group(i).refs = 0
       THEN /\ groups' = Without(groups, {i})
            /\ server' \in {Opened(i), Without(server, {Group(i).sub})}
       ELSE UNCHANGED <<groups, server>>
  /\ UNCHANGED <<records, intents, unsaved>>

\* Mutant: the reference is only counted for the group's first subscription.
CountFirst(g) == [g EXCEPT !.refs = 1]

\* RefCount++.
AddRef(g) == [g EXCEPT !.refs = @ + 1]

\* Mutant: restores do not write the intent back.
SaveNew(id, e) ==
  IF id \in DOMAIN intents THEN UNCHANGED intents ELSE intents' = Put(intents, id, e)

\* PutSubscription.
Save(id, e) == intents' = Put(intents, id, e)

\* At least one node was accepted: the record, the reference, and the intent,
\* with the accepted nodes only.  A failure to persist leaves the record.
SomeAccepted(id, nodes, i) ==
  /\ Parses(nodes, i) /\ Group(i).sub \in DOMAIN Opened(i)
  /\ \E rej \in SUBSET Range(nodes) :
       LET items == Items(nodes, rej)
           entry == [nodes |-> Accepted(nodes, rej), interval |-> i]
           g == [sub   |-> Group(i).sub,
                 refs  |-> Group(i).refs,
                 route |-> Update(Group(i).route, items),
                 item  |-> Update(Group(i).item, LastHandles(nodes, rej))]
       IN /\ rej # Range(nodes)
          /\ nextHandle' = nextHandle + Len(nodes)
          /\ groups' = Put(groups, i, AddRef(g))
          /\ server' = Put(server, g.sub, Update(Opened(i)[g.sub], items))
          /\ records' = Put(records, id, entry)
          /\ \/ /\ Save(id, entry)
                /\ unsaved' = unsaved \ {id}
                /\ Failures(IF rej = {} THEN 0 ELSE 1)
             \/ /\ UNCHANGED intents
                /\ unsaved' = unsaved \cup {id}
                /\ Failures(IF rej = {} THEN 1 ELSE 2)

subscribeInternal(id, nodes, i) ==
  /\ nextHandle + Len(nodes) <= MaxHandles
  /\ i \in DOMAIN groups \/ \E s \in SubIds : IsFresh(s)
  /\ \/ CreateFails(i) \/ ParseFails(nodes, i) \/ MonitorFails(nodes, i)
     \/ NoneAccepted(nodes, i) \/ SomeAccepted(id, nodes, i)

\* The tool call, under a fresh uuid.
Subscribe(id, nodes, i) ==
  /\ Serving
  /\ id \in unused
  /\ unused' = unused \ {id}
  /\ subscribeInternal(id, nodes, i)
  /\ UNCHANGED <<link, heard, running, restore, pumped, skipped, changes>>

-----------------------------------------------------------------------------
(***************************************************************************)
(* Unsubscribe(id).  An id without a record is an error that changes       *)
(* nothing.                                                                *)
(***************************************************************************)

\* The items Unsubscribe finds for the nodes of a record.
Found(g, nodes) == {g.item[n] : n \in Range(nodes) \cap DOMAIN g.item}

\* Mutant: every handle of the node is removed, not only the recorded one.
DetachAll(g, nodes) ==
  [g EXCEPT !.route = Without(@, {h \in DOMAIN @ : @[h] \in Range(nodes)}),
            !.item = Without(@, Range(nodes)),
            !.refs = @ - 1]

\* The map deletions of Unsubscribe, and RefCount--.
Detach(g, nodes) ==
  [sub   |-> g.sub,
   refs  |-> g.refs - 1,
   route |-> Without(g.route, Found(g, nodes)),
   item  |-> Without(g.item, Range(nodes))]

\* RefCount <= 0.
LastRef(g) == g.refs <= 0

\* The server after Unmonitor, and after Cancel for the last reference.
Released(g, handles) ==
  IF g.sub \notin DOMAIN server THEN server
  ELSE IF LastRef(g) THEN Without(server, {g.sub})
  ELSE Put(server, g.sub, Without(server[g.sub], handles))

\* A failure to release is logged, one to delete the intent is returned;
\* neither changes what happens to the maps.
Unsubscribe(id) ==
  /\ Serving
  /\ id \in DOMAIN records
  /\ \E releases, deletes \in BOOLEAN :
       /\ LET i == records[id].interval
              nodes == records[id].nodes
              g == Detach(groups[i], nodes)
          IN IF i \in DOMAIN groups
               THEN /\ groups' = IF LastRef(g) THEN Without(groups, {i})
                                 ELSE Put(groups, i, g)
                    /\ server' = IF releases THEN Released(g, Found(groups[i], nodes))
                                 ELSE server
               ELSE UNCHANGED <<groups, server>>
       /\ intents' = IF deletes THEN Without(intents, {id}) ELSE intents
       /\ Failures((IF releases THEN 0 ELSE 1) + (IF deletes THEN 0 ELSE 1))
  /\ records' = Without(records, {id})
  /\ unsaved' = unsaved \ {id}
  /\ UNCHANGED <<link, heard, nextHandle, running, restore, pumped, unused,
                 skipped, changes>>

-----------------------------------------------------------------------------
(***************************************************************************)
(* Restores.  main's warmStart begins at "list", restoreFromIntent (called *)
(* by rebuild and resubscribe once the connection is replaced) at "clear". *)
(***************************************************************************)
Goto(r, label) == pc' = [pc EXCEPT ![r] = label]

\* Mutant: the handle counter starts over with the maps.
ClearAll ==
  records' = Empty /\ groups' = Empty /\ nextHandle' = 0

\* Mutant: the groups of the dead connection are kept.
ClearRecords == records' = Empty /\ UNCHANGED <<groups, nextHandle>>

\* The maps discarded under the mutex.
Clear == records' = Empty /\ groups' = Empty /\ UNCHANGED nextHandle

RestoreClear(r) ==
  /\ pc[r] = "clear"
  /\ Clear
  /\ unsaved' = {} /\ skipped' = {}
  /\ Goto(r, "list")
  /\ UNCHANGED <<link, heard, server, intents, running, todo, pumped, unused, changes,
                 faults>>

\* ListSubscriptions.
RestoreList(r) ==
  /\ pc[r] = "list"
  /\ todo' = [todo EXCEPT ![r] = intents]
  /\ Goto(r, "restore")
  /\ UNCHANGED <<link, heard, server, memory, intents, running, pumped, history,
                 changes, faults>>

\* It fails: nothing is restored, and main goes on without a manager.
RestoreListFails(r) ==
  /\ pc[r] = "list"
  /\ Failures(1)
  /\ Goto(r, "idle")
  /\ running' = (running /\ r # Main)
  /\ skipped' = skipped \cup DOMAIN intents
  /\ UNCHANGED <<link, heard, server, memory, intents, todo, pumped, unused, unsaved,
                 changes>>

\* One intent of the list (uuids come in no particular order).  A failure is
\* logged and the intent skipped.
RestoreOne(r, id) ==
  /\ pc[r] = "restore" /\ id \in DOMAIN todo[r]
  /\ subscribeInternal(id, todo[r][id].nodes, todo[r][id].interval)
  /\ todo' = [todo EXCEPT ![r] = Without(@, {id})]
  /\ skipped' = IF id \in DOMAIN records' \/ faults' = faults THEN skipped
                ELSE skipped \cup {id}
  /\ UNCHANGED <<link, heard, running, pc, pumped, unused, changes>>

RestoreDone(r) ==
  /\ pc[r] = "restore" /\ todo[r] = Empty
  /\ Goto(r, "idle")
  /\ UNCHANGED <<link, heard, server, memory, intents, running, todo, pumped, history,
                 changes, faults>>

-----------------------------------------------------------------------------
(***************************************************************************)
(* The pump.  A notification names its item by the client handle; what it  *)
(* is about, its node, is kept beside it for the properties.               *)
(***************************************************************************)

\* gopcua delivers a data change of an item.
Notify(s, h) ==
  /\ s \in DOMAIN server /\ h \in DOMAIN server[s]
  /\ Len(notifyCh) < NotifyCap
  /\ notifyCh' = Append(notifyCh, [handle |-> h, node |-> server[s][h]])
  /\ UNCHANGED <<link, heard, server, memory, intents, running, restore, batch,
                 history, changes, faults>>

\* lookupNodeIDLocked: the nodes some group routes the handle to.
Lookup(h) ==
  {groups[i].route[h] : i \in {j \in DOMAIN groups : h \in DOMAIN groups[j].route}}

\* handleNotification; an unknown handle is dropped.
PumpTake ==
  /\ running /\ notifyCh # <<>>
  /\ notifyCh' = Tail(notifyCh)
  /\ LET n == Head(notifyCh) IN
       IF Lookup(n.handle) = {} THEN UNCHANGED batch
       ELSE \E to \in Lookup(n.handle) :
              batch' = {e \in batch : e.to # to} \cup {[to |-> to, from |-> n.node]}
  /\ UNCHANGED <<link, heard, server, memory, intents, running, restore, history,
                 changes, faults>>

\* The ticker, or a full batch: the entries go to the values bucket.
PumpFlush ==
  /\ running /\ batch # {}
  /\ batch' = {}
  /\ UNCHANGED <<link, heard, server, memory, intents, running, restore, notifyCh,
                 history, changes, faults>>

\* Stop: the handler is unset, pump (after a last flush) and watcher exit.
Stop ==
  /\ Serving
  /\ running' = FALSE
  /\ batch' = {}
  /\ UNCHANGED <<link, heard, server, memory, intents, restore, notifyCh, history,
                 changes, faults>>

-----------------------------------------------------------------------------
(***************************************************************************)
(* The connection, as Connection models it: gopcua Subscriptions live and  *)
(* die with it.                                                            *)
(***************************************************************************)
Change(l, h) ==
  /\ changes < MaxChanges
  /\ changes' = changes + 1
  /\ link' = l
  /\ heard' = h
  /\ server' = Empty
  /\ UNCHANGED <<intents, unused, faults>>

\* The server drops the session, or the connection dies.
LoseSession ==
  /\ link = "up"
  /\ Change("stale", heard)
  /\ UNCHANGED <<memory, running, restore, pumped, unsaved, skipped>>

\* Disconnect, or a reconnect that failed.
GoDown ==
  /\ link # "down"
  /\ Change("down", heard)
  /\ UNCHANGED <<memory, running, restore, pumped, unsaved, skipped>>

\* EnsureConnected's Connect: no handler runs.
Connect ==
  /\ link = "down" /\ pc[Main] = "idle"
  /\ Change("up", TRUE)
  /\ UNCHANGED <<memory, running, restore, pumped, unsaved, skipped>>

\* A session recovery or the watcher's rebuild replaced the connection.  The
\* watcher hears of connections dialed after it registered its channel only.
Reconnect(r) ==
  /\ Serving
  /\ r # Main /\ pc[r] = "idle"
  /\ IF r = Watcher THEN heard ELSE link # "down"
  /\ Change("up", TRUE)
  /\ Goto(r, "clear")
  /\ UNCHANGED <<memory, running, todo, pumped, unsaved, skipped>>

\* The process ends and is started again: only the store survives.
Restart ==
  /\ Change("up", FALSE) \/ Change("down", FALSE)
  /\ records' = Empty /\ groups' = Empty /\ nextHandle' = 0
  /\ running' = TRUE
  /\ pc' = [r \in Restorers |-> IF r = Main THEN "list" ELSE "idle"]
  /\ todo' = [r \in Restorers |-> Empty]
  /\ notifyCh' = <<>> /\ batch' = {}
  /\ unsaved' = {} /\ skipped' = {}

-----------------------------------------------------------------------------
Restoring(r) ==
  \/ RestoreClear(r) \/ RestoreList(r) \/ RestoreListFails(r)
  \/ RestoreDone(r) \/ \E id \in Ids : RestoreOne(r, id)

Next ==
  \/ \E id \in Ids, nodes \in Requests, i \in Intervals : Subscribe(id, nodes, i)
  \/ \E id \in Ids : Unsubscribe(id)
  \/ \E r \in Restorers : Restoring(r) \/ Reconnect(r)
  \/ \E s \in SubIds : \E h \in 1 .. MaxHandles : Notify(s, h)
  \/ PumpTake \/ PumpFlush \/ Stop
  \/ LoseSession \/ GoDown \/ Connect \/ Restart

\* A goroutine in restoreFromIntent keeps running, and so does the pump.
Fairness ==
  /\ \A r \in Restorers : WF_vars(Restoring(r))
  /\ WF_vars(PumpTake) /\ WF_vars(PumpFlush)

Spec     == Init /\ [][Next]_vars
FairSpec == Spec /\ Fairness
-----------------------------------------------------------------------------
(***************************************************************************)
(* Correctness.                                                            *)
(***************************************************************************)
Entry == [nodes : Seq(Nodes \ Malformed), interval : Intervals]

IsMap(f, D, R) == DOMAIN f \subseteq D /\ \A x \in DOMAIN f : f[x] \in R

IsGroup(g) ==
  /\ g.sub \in SubIds /\ g.refs \in Nat
  /\ IsMap(g.route, 1 .. MaxHandles, Nodes \ Malformed)
  /\ IsMap(g.item, Nodes \ Malformed, 1 .. MaxHandles)

\* Every variable keeps its type; in particular no reference count is ever
\* negative and no malformed node ID is recorded, routed or persisted.
TypeOK ==
  /\ link \in {"down", "up", "stale"}
  /\ DOMAIN server \subseteq SubIds
  /\ \A s \in DOMAIN server : IsMap(server[s], 1 .. MaxHandles, Nodes \ Malformed)
  /\ IsMap(records, Ids, Entry) /\ IsMap(intents, Ids, Entry)
  /\ DOMAIN groups \subseteq Intervals
  /\ \A i \in DOMAIN groups : IsGroup(groups[i])
  /\ nextHandle \in 0 .. MaxHandles
  /\ heard \in BOOLEAN /\ running \in BOOLEAN
  /\ pc \in [Restorers -> {"idle", "clear", "list", "restore"}]
  /\ \A r \in Restorers : IsMap(todo[r], Ids, Entry)
  /\ notifyCh \in Seq([handle : 1 .. MaxHandles, node : Nodes])
  /\ batch \subseteq [to : Nodes, from : Nodes]
  /\ unused \subseteq Ids /\ unsaved \subseteq Ids /\ skipped \subseteq Ids
  /\ changes \in Nat /\ faults \in Nat

Members(i) == {id \in DOMAIN records : records[id].interval = i}

\* The architecture document: a group is only torn down once its last logical
\* subscription unsubscribes.  The reference count never falls below the
\* number of recorded subscriptions, whatever restores and tool calls overlap.
GroupOutlivesMembers ==
  \A id \in DOMAIN records :
    LET i == records[id].interval IN
      i \in DOMAIN groups /\ groups[i].refs >= Cardinality(Members(i))

\* Every node of a recorded subscription has an item routed to it in the
\* subscription's group, on the server too while the group's gopcua
\* Subscription lives, even after Unsubscribe of another subscription took
\* away the item recorded for the same node.
SubscribedIsMonitored ==
  \A id \in DOMAIN records : \A n \in Range(records[id].nodes) :
    LET g == groups[records[id].interval] IN
      \E h \in DOMAIN g.route :
        /\ g.route[h] = n
        /\ g.sub \in DOMAIN server => h \in DOMAIN server[g.sub]

\* A notification is cached under the node it is about, also when it was sent
\* on a connection that has been replaced since and its maps discarded.
NoMisrouting == \A e \in batch : e.to = e.from

\* A recorded subscription is persisted with exactly the recorded nodes and
\* interval, unless the store refused: a restore repeats what is listed.
RecordsPersisted ==
  \A id \in DOMAIN records \ unsaved :
    id \in DOMAIN intents /\ intents[id] = records[id]

\* The server monitors each node of the subscription id on the connection that
\* is up now.
Monitored(id) ==
  /\ id \in DOMAIN records
  /\ LET s == groups[records[id].interval].sub IN
       /\ s \in DOMAIN server
       /\ Range(records[id].nodes) \subseteq Range(server[s])

\* warmStart's comment: a single restoration failure is skipped rather than
\* aborting the rest.  When a restore begins on a new connection (rebuild,
\* resubscribe) or after a start, every persisted subscription is recorded and
\* monitored again on the server as it is then, after whatever still discards
\* the maps, or the user unsubscribes it, or its own restoration fails, or the
\* connection is lost first; whatever other restores, calls and failures come
\* in between.
RestoredAfterReconnect ==
  \A id \in Ids :
    (/\ pc[Main] = "list" \/ \E r \in Restorers : pc[r] = "clear"
     /\ link = "up" /\ id \in DOMAIN intents)
      ~> (\/ /\ \A r \in Restorers : pc[r] # "clear"
             /\ Monitored(id) \/ id \in skipped
          \/ id \notin DOMAIN intents \/ link # "up")
-----------------------------------------------------------------------------
(***************************************************************************)
(* The inductive invariant behind these properties.                        *)
(***************************************************************************)

\* The handles g routes to n, and the members of group i that monitor n.
Handles(g, n) == {h \in DOMAIN g.route : g.route[h] = n}
Takers(i, n)  == {id \in Members(i) : n \in Range(records[id].nodes)}

\* g, as the group of interval i, counts at least its members, and routes to a
\* node as many handles as it has members that monitor the node: each
\* Unsubscribe takes one of them away, whosever it was.
Counts(i, g) ==
  /\ g.refs >= Cardinality(Members(i))
  /\ \A n \in Nodes : Cardinality(Handles(g, n)) >= Cardinality(Takers(i, n))

\* A handle that g routes is about the same node wherever else it is known.
Routes(g) ==
  \A h \in DOMAIN g.route :
    /\ h <= nextHandle
    /\ \A s \in DOMAIN server :
         h \in DOMAIN server[s] => server[s][h] = g.route[h]
    /\ \A k \in DOMAIN notifyCh :
         notifyCh[k].handle = h => notifyCh[k].node = g.route[h]

\* g has a gopcua Subscription of its own with an item, while it lives, for
\* every handle routed; the item recorded for a node is routed to it.
Owns(i, g) ==
  /\ \A j \in DOMAIN groups \ {i} : groups[j].sub # g.sub
  /\ g.sub \in DOMAIN server => DOMAIN g.route \subseteq DOMAIN server[g.sub]
  /\ \A n \in DOMAIN g.item :
       g.item[n] \in DOMAIN g.route /\ g.route[g.item[n]] = n

\* No handle is known that was not issued yet.
IssuedInv ==
  /\ \A s \in DOMAIN server : \A h \in DOMAIN server[s] : h <= nextHandle
  /\ \A k \in DOMAIN notifyCh : notifyCh[k].handle <= nextHandle

GroupInv ==
  /\ \A id \in DOMAIN records : records[id].interval \in DOMAIN groups
  /\ \A i \in DOMAIN groups :
       Counts(i, groups[i]) /\ Routes(groups[i]) /\ Owns(i, groups[i])

IndInv == IssuedInv /\ GroupInv /\ NoMisrouting /\ RecordsPersisted
=============================================================================
