# TLA+ models of opcua-mcp

opcua-mcp is an MCP server in front of one OPC-UA server. This directory holds
models of the parts of it that have state and concurrency, TLC configurations
that check them on small instances, and proofs that TLAPS checks for every
value of the constants. Source paths below are relative to `src/`.

## The system

| Component | Where | State | Operations | Hard behaviour |
|---|---|---|---|---|
| `Client` | `internal/opcua/client.go`, `session_recovery.go` | the published connection (`client`, `connected`, `clientGen`), `connGen`, `connectMu` | requests, `Connect`, `Disconnect`, `EnsureConnected`, `recoverConnection` | concurrent recoveries, a disconnect during one, retries, the old connection's close |
| `ReconnectWatcher` | `internal/opcua/reconnect_watcher.go` | `stateCh`, `everConnected` | `watch`, `Start`, `Stop` | states arrive late; it dials on the goroutine that drains its own channel |
| `SubscriptionManager` | `internal/opcua/subscription.go` | records, interval groups and their handle maps, `nextHandle`, the pump's batch | `Subscribe`, `Unsubscribe`, `warmStart`, `restoreFromIntent`, `rebuild`, `resubscribe`, `pump`, `Stop` | restores of several goroutines overlap each other and tool calls; late notifications; partial failure |
| `CachingClient` | `internal/opcua/caching_client.go` | none of its own: the store's values, browse and typeinfo buckets | `Read`, `Browse`, `GetNodeTypeInfo`, `Write` | nothing locks an entry between lookup and store; pushes write to the same bucket |
| `DiscoveryService` | `internal/opcua/discovery.go` | `nodeCache`, the Bleve index, `walkGen`, `discoveryMu` | worker, forced walks, sweep, index batch, searches, `GetNodeHierarchy`, `Stop` | walks of a graph that changes, failed browses, an index that outlives the process |
| `Store` | `internal/store` | bbolt buckets | get, put, delete, list, `Close` | use after close, failures |
| `Server` | `internal/mcp/server.go`, `cmd/opcua-mcp.go` | `httpServer`, `telemetryCancel`, `shutdownOnce` | `Start`, `setupGracefulShutdown`, `shutdown`, tool handlers | signals at any time, two transports, order of shutdown |
| Telemetry | `internal/telemetry`, `internal/mcp/telemetry_middleware.go` | counters, the loop and its sends | recording, `snapshot`, `flush`, `Start`, `Close` | recorders and snapshots share counters without a lock; the last flush and its send race process exit |
| Validation, conversion, value encoding | `client.go`, `value_convert.go`, `internal/store/value_encoding.go` | none | `Write`, `validate*`, `convert*`, `NormalizeReadValue`, `encode`, `decode` | widths, signs, NaN, overflow; two lists of types that must agree; what has no wire type or no encoding |
| Tool policy, configuration, security, logger | `tool_policy.go`, `internal/config`, `security.go`, `internal/logger` | fixed at startup | filters and choices | boundary values |

Tool handlers, the discovery worker and shutdown call the `Client` directly or
through `CachingClient`. `Client` calls back into `SubscriptionManager` after a
session recovery (`onReconnect`), and gopcua reports connection states through
a forwarder into the watcher's channel, whose goroutine calls
`SubscriptionManager.rebuild`, which calls `Client.Connect`. The pump writes
pushed values into the bucket that `CachingClient` reads. Shutdown stops all of
them in a fixed order.

What makes each correct:

- Client: one recovery per lost connection, no leaked connection, a write sent
  once, a user's disconnect respected, no operation stuck.
- SubscriptionManager: a group lives as long as it has members, every
  subscribed node is monitored and routed to itself, what is recorded is
  persisted, and comes back after a reconnect.
- CachingClient: a served value is no older than the caller allows, a write is
  not followed by reads of the value before it, pushes win in the end.
- DiscoveryService: a walk never removes what a walk has just met, cache and
  index agree, an undisturbed walk is exact, walks end.
- Server: every component is stopped once and in order, nothing taken is lost,
  shutdown ends.
- Telemetry: every recording is counted once, and the last flush has them all.
- Values: a write arrives as the value that was asked for or is refused, and a
  cached value is the one a live read would return.

## Modules

| Module | Models | MC module |
|---|---|---|
| `Connection` | `Client`, session recovery, `ReconnectWatcher`, gopcua's reports | `MCConnection` |
| `ConnectionRegister` | what `Client` promises: an atomic register of one connection | |
| `ConnectionProofs` | theorems about `Connection`, that it implements `ConnectionRegister` among them | |
| `Subscriptions` | `SubscriptionManager`, the intents in the store, gopcua Subscriptions | `MCSubscriptions` |
| `SubscriptionsProofs` | theorems about `Subscriptions` | |
| `ValueCache` | `CachingClient`, the buckets, the pump's writes | `MCValueCache` |
| `ValueCacheProofs` | theorems about `ValueCache` | |
| `Discovery` | the walks of `DiscoveryService`, the index, `GetNodeHierarchy` | `MCDiscovery` |
| `DiscoveryProofs` | theorems about `Discovery` | |
| `Lifecycle` | `main`, `Server.Start`, `shutdown`, telemetry's loop | `MCLifecycle` |
| `LifecycleProofs` | theorems about `Lifecycle` | |
| `Telemetry` | the counters, their recorders, the flush loop | `MCTelemetry` |
| `TelemetryProofs` | theorems about `Telemetry` | |
| `Values` | `Client.Write` with validation and conversion, normalisation, the store's encoding | `MCValues` |
| `ValuesProofs` | theorems about `Values` | |
| `Induction` | lemmas: induction on numbers, functions defined by recursion | |

The modules meet at narrow points. `Connection`'s label "handler" is where a
restore of `Subscriptions` runs, without `connectMu`; `Subscriptions` sees the
connection as `link` with the steps LoseSession, GoDown, Connect and Reconnect.
`ValueCache` sees subscriptions as Subscribe, Unsubscribe, LoseItems and
RestoreItems. `Lifecycle` waits for the walk, the pump and the calls as
one-step components, and its flush is one step where `Telemetry` has one per
atomic operation. `Values` is the data of the requests whose control is in
`Connection` (writes) and `ValueCache` (reads and pushes).

### Connection

A connection is named by its generation, the value of `connGen.Add(1)` when it
was dialed; `conn[g]` says what became of it. `Callers` are request handlers,
`Watcher` the watcher's goroutine; each has the locals of the Go functions
(`gen` is the generation read first, `snap` the client it holds, `fresh` the one
it dials). The labels of `pc` are the places where the code can be interleaved:
before `snapshot`, in the request, waiting for `connectMu`, between dial
attempts, in an attempt, before publishing, before closing the retired
connection, in the reconnect handler. Everything between `connectMu.Lock` and
`Unlock` keeps `connectMu`.

The operations "read", "write" and "ensure" stand for every request: all reads
and browses go through `withSessionRecovery`, writes through `sendWrite`,
`opcua_connect` through `EnsureConnected`. A request ends in one of three ways,
done, an error, a stale session, the distinction `isStaleSessionError` makes;
what it carries is left out. A read of several nodes that falls back to single
reads may end either way on an error. `HttpMode` chooses whether `main` dialed
before the watcher registered its channel. gopcua and the server contribute
LoseSession, AutoReconnect and Die, and the states a dial reports. `maxRetries`
is drawn from `Retries` in Init and then fixed, so that one run has several
settings of `OPCUA_MAX_RETRIES`; with 0, a dial publishes a client that was
never opened (DialNothing).

`ConnectionRegister` is the abstraction the callers rely on: a register with a
connection and a generation, where each change (Publish, Retire) takes a new
generation and has to wait until the connection taken out before it is closed.
It says nothing of locks, dialing or the watcher. The refinement maps the
register to `client`, `connected` and `clientGen`, and "replaced" to the
connection that the holder of `connectMu` is about to close (BeingClosed).

### Subscriptions

`records`, `groups` and `nextHandle` are the manager's fields; a group has the
gopcua Subscription (`sub`), its reference count and both maps. `intents` is the
store's bucket, `server` what is alive on the OPC-UA server: the items of each
Subscription by client handle. `subscribeInternal` and `Unsubscribe` hold the
manager's mutex throughout and are one step, with one disjunct for each way
out: creation fails, a node ID does not parse, `Monitor` fails, no node is
accepted, some are (and persisting may fail). A restore is several steps, since
the code releases the mutex between clearing the maps, listing the intents and
each subscription. Restores run in `main` (`warmStart`), the watcher (`rebuild`)
and callers (`resubscribe`). The watcher rebuilds only after a connection that
reports to it has been dialed in this life of the process (`heard`). A
notification carries the handle and, for the properties only, the node it is
about.

### ValueCache

The device's value of a key is a version number; `born[k][v]` is when version v
appeared, so an entry's age can be compared with when its value was current. A
call looks keys up one by one, reads all misses with one live request, and
stores them one by one. A write, the check of the entry and its deletion are
three steps. `took` and `suspect` in an entry are history for the properties:
how long the answer was under way, and whether one of the two known races made
it. `SEARCH_ENABLE_CACHE` is on, as otherwise nothing is cached.

### Discovery

`discoverNodeRecursive` is a stack of frames, one per active call, each with the
references still to process; the walk of a frame is the code's depth-first
order. Address spaces are functions from nodes to lists of references, and may
change during a walk. The index is the set of node IDs it holds; `searching` is
the setting that there is one, and a walk without an index ends after the sweep
(NoIndex). A batch takes every cached node but those that `batch.Index` refuses,
which are logged and left out; or it fails as a whole, and what was swept is
forgotten. A restart empties the cache and finds the index as it was. `touched`,
`exact`, `synced`, `strays` and `refused` are history: `strays` are the entries
that an earlier process or a failed batch left, until a walk has met or swept
their node; `refused` are the nodes the last batch did not take. Searches are
not modelled.

### Lifecycle

`main` and `shutdown` are sequences of labels; the signal goroutine may begin
shutdown at any point after `setupGracefulShutdown`. `sending` holds, for each
payload under way, how many tool calls it counts. The model lets stdin end with
calls in flight, as the stdio transport does not wait for them. The join of the
watcher is in `Connection`; discovery is enabled.

### Telemetry

Each `Add`, each `LoadOrStore` of a new key and each `Swap` is a step, since each
is one atomic operation and nothing else orders them. `adds[r]` is what is left
of the recording of r: `recordToolCall` is three Adds, a failed call has a
fourth. A snapshot reads the fixed counters in the code's order and then the
two maps, where a `Range` meets keys in any order and may miss one that is
stored while it runs (Skip). `loop = "disabled"` is the no-op implementation.
`recorded`, `flushed` and `due` are history: what was added, what was handed to
a send, and what had been added when the context was cancelled.

### Values

A value is a Go kind and a number or an abstract string; the strings are named
by the parser that accepts them. Integers have widths and floats a precision,
scaled down by `MCValues`, so wrapping, truncation and rounding happen where
they do in the code; floats are counted in halves, which gives each number a
neighbour with a fraction. `Rounded` yields the nearest float of a kind, the
even one of two, or an infinity. `Inf`, `NaN`, `MaxExponent` and `MaxTime` are
constants that stand for the infinity, for NaN, for how far the exponents reach
and for the times that fit the wire. A conversion of a float that does not fit
an integer type depends on the processor, so `build` chooses once between
saturating and a fixed result. A write goes through the labels of `pc`: type
information (or the fallback without it), validation, conversion, the request. A
node has a ValueRank, and what the code reads of it is only whether it is
greater than 0 (`IsArray`): rank 0 (one or more dimensions) counts as a scalar
like -1 (scalar), -2 (any) and -3 (scalar or one dimension), and rank 2 and
above as a flat list. The server takes a scalar where the rank allows one and a
list where it allows one dimension (TakesScalar, TakesList). Reads and
notifications of the node's value happen between writes; how they interleave
with writes is in `ValueCache`. What goes on the wire follows from the Go type
of the converted value, as in `ua.NewVariant`; a time is written as UnixNano,
which wraps (`WireTime`). The server accepts values of the node's type, and may
accept anything where it has no type to compare. `kept` is history: the last
value given to `PutValue` that is, or holds, no null and no decoded structure.

## Runs

Each run that passes has, for every property, a mutant of the model (the
operators commented "Mutant:") under which TLC finds that property violated.

| Run | Configuration | What it shows |
|---|---|---|
| `connection_safety` | `MCConnectionSafety.cfg` | two callers and the watcher, HTTP mode: TypeOK, OpenIsOwned, PublishedIsCurrent, RecoversOnce, BoundedCalls, RecoveryNeverConnects, ImplementsRegister |
| `connection_liveness` | `MCConnectionLiveness.cfg` | stdio mode under fairness, none (`OPCUA_MAX_RETRIES=0`), one or two dial attempts and a channel that two overfill: OperationsEnd, WatchedDeathRepaired, StopCompletes |
| `disconnect_stays` | `MCDisconnectStays.cfg` | violated: a rebuild under way undoes a user's disconnect |
| `subscriptions_safety` | `MCSubscriptionsSafety.cfg` | TypeOK, GroupOutlivesMembers, SubscribedIsMonitored, NoMisrouting, RecordsPersisted |
| `subscriptions_liveness` | `MCSubscriptionsLiveness.cfg` | RestoredAfterReconnect, with two changes of connection and one failure |
| `cache_pushes` | `MCValueCachePushes.cfg` | TypeOK, BoundedStaleness, OnlyRacesLeaveStaleEntries, PushCorrects |
| `cache_batch` | `MCValueCacheBatch.cfg` | BoundedStaleness for reads of several nodes and the metadata buckets |
| `discovery` | `MCDiscovery.cfg` | TypeOK, WalkIsExact, IndexFollowsCache, HierarchyIsComplete, NeverSweepsMet, WalksEnd |
| `lifecycle` | `MCLifecycle.cfg` | both transports: TypeOK, StoreOutlivesPump, FinalFlush, ShutdownEnds |
| `telemetry` | `MCTelemetry.cfg` | TypeOK, Conservation, LastFlushIsComplete |
| `values` | `MCValues.cfg` | every DataType against every kind of Go value: TypeOK, ValidatedConverts, SentAsDeclared, AcknowledgedArrives, StoredReadsAsLive |
| `shutdown_finishes` | `MCShutdownFinishes.cfg` | violated: in HTTP mode the process ends in the middle of shutdown |

### Bounds

- Connection: two callers suffice for every race of two recoveries, a recovery
  with a disconnect, and either with the watcher. The safety run has three
  operations (one to get a connection that reports to the watcher, two that
  race), one fault and seven generations, more than three operations and the
  rebuilds they cause can use. The theorems do not depend on these numbers.
  `connection_liveness` is about the watcher's channel, so it scales 16 down to
  2: each attempt of a dial reports up to two states, so one attempt fits into
  the empty channel and two do not, as in the code eight do and nine do not. Two
  attempts jam it, and TLC shows that nothing else makes an operation or the
  watcher wait forever. StopCompletes asks that the states still owed fit beside
  those already queued (Overfull). Five generations are enough for two
  operations and the rebuild they cause.
- Subscriptions: two ids (interchangeable), two nodes and a malformed one, one
  interval, two changes of connection, one failure. Two ids share a node and a
  group; two changes let restores of two goroutines overlap; the four handles of
  the safety run subscribe two ids and restore both, or one of them with two
  nodes. Groups of different intervals share nothing but the handle counter. `subscriptions_liveness` also has two
  changes and one failure, which may strike a restore in its middle, with one
  request and no notifications; six handles are what two restores of both ids
  and a call in between use. CHECK_DEADLOCK is off there, and in
  `connection_liveness`: with every bound used up nothing need be enabled, and a
  jammed channel does stop its processes.
- ValueCache: `MaxAges` is one tick and the clock reaches two, so an entry can
  be fresh, just fresh and too old. Two versions, two calls, a queue of one.
  `cache_batch` trades pushes and failures for two value keys and a metadata
  key, so that a batch has hits and misses.
- Discovery: seven address spaces of five nodes at depth limit 2 and two nodes
  per browse: a chain longer than the limit, a fork, a space whose nodes can
  vanish, one too wide, a shared node, a shared node met first on the longer
  path, a cycle. Two walks overlap or follow each other, with one change and
  one failure (a browse, a batch, a refused node) or restart; so a walk can
  follow a restart on an index that lists vanished nodes.
- Lifecycle: two calls at once and in all, two sends under way, enough for a
  call counted before, during and after a flush.
- Telemetry: two recorders, one tool and one error kind, two recordings and one
  send under way when the ticker fires: enough for an Add before, between and
  after the reads of a snapshot, and a key stored while a Range runs. Nothing
  in the model depends on how many there are, and the theorems are for any.
- Values: one write and one value set by the device, since nothing is carried
  from one write to the next. The widths 8, 16, 32 and 64 become 2, 3, 5 and 7
  bits and the mantissas 4 and 6, which keeps their order: float32 is exact for
  int16 and not for int32, float64 for int32 and not for int64. Requests are
  the limits of every integer kind and their neighbours in every kind that has
  them, with halves, numbers beyond uint64, every class of string, nulls,
  objects and lists of up to two elements; every DataType is a scalar and an
  array node, of free and of fixed length, and some are of the other ranks.
  float32 ends at 480 halves and float64 at 2016, so a Double overflows a Float
  node; times wrap at 100 halves, within int64. JSON gives only float64, bool,
  string, null, objects and lists; the other kinds are those of Go callers.

VIEW and SYMMETRY: `LiveView` of `MCConnection` and `MCValueCache` forgets locals
of idle processes, which every operation sets before it reads them. States that
differ in them alone have the same steps and satisfy the same properties, so the
view is sound for the liveness properties of `connection_liveness` too.
`SafetyView` of `MCSubscriptions` leaves out `skipped`, a history variable that only
RestoredAfterReconnect reads. Symmetry is
used for callers and ids, which no property distinguishes, and never in a run
with a liveness property.

### Fairness

- Connection: requests, dials and closes are bounded by the request and close
  timeouts, so every program point that is not a wait for the mutex is weakly
  fair (Proceeds). An attempt that has reported Connecting ends by reporting
  what became of it: that send, not a failure without one, is what fairness
  promises, so a full channel does hold the dial up. `connectMu` is a Go mutex,
  which hands itself to a waiter that has waited long: Acquire is strongly fair.
  The watcher's select and the forwarders are weakly fair. Nothing makes a
  caller begin an operation, a session be lost, or gopcua repair one.
- Subscriptions: a goroutine inside a restore keeps running. Tool calls,
  faults and reconnects have no fairness.
- ValueCache: the server publishes a change of a monitored item and the pump's
  select takes each ready case.
- Discovery: a walk's browses are bounded, the mutex is as above.
- Lifecycle: startup and shutdown keep running, walks and sends end by their
  timeouts, and a select does not pass over a closed channel forever (strong
  fairness for the worker, whose ticker may fire in between).

## Where documentation and code differ

Two statements are kept as runs, each with the trace TLC finds:

1. "a user-initiated disconnect stays disconnected" (`client.go:288-290`,
   `README.md:270`). The watcher has taken the Closed of a dead connection and
   waits for `connectMu`; the user's `Disconnect` gets it first; `rebuild` then
   calls `Connect`, which does not ask. What does hold, and is proved, is that
   session recovery never does this (RecoveryNeverConnects).
2. "shutdown stops every long-lived component in dependency order and flushes
   telemetry one last time" (`server.go:1266`). In HTTP mode
   `httpServer.Shutdown` makes `Start` return `ErrServerClosed`, and `main` calls
   `log.Fatal` while the other goroutine is still about to disconnect, close the
   store and flush.

Other surprises met while modelling; the actions of the models have them, and
the passing properties are worded around them:

- The connection HTTP mode dials first has no state forwarder, so the watcher
  never hears of its death; the next request repairs it
  (WatchedDeathRepaired).
- `recoverConnection` returns nil when the generation changed because of a
  disconnect or somebody else's failed dial; `EnsureConnected` then reports
  `ConnectOutcomeReconnected` although the client is down.
- The "client is not connected" of `recoverConnection` never runs: a caller that
  waits for `connectMu` has seen the client connected at its generation, and
  whatever ends that connection also bumps `clientGen`.
- "Stop stops the watcher and waits for its goroutine to exit"
  (`reconnect_watcher.go:48`). A forwarder sends while its dial holds `connectMu`,
  and the channel of 16 is drained only by the goroutine that runs `rebuild`.
  With nine or more dial attempts and a server that refuses sessions the channel
  fills and the dial blocks for good: when the watcher dials itself, when it
  waits for the `connectMu` of a caller that dials, and when it has exited.
  Every later connect, disconnect, recovery and Stop then waits too. States
  already queued lower the number of attempts this takes. OperationsEnd,
  WatchedDeathRepaired and StopCompletes name it (Jammed, Overfull).
- With `OPCUA_MAX_RETRIES=0`, which `Validate` accepts, a client that was never
  opened is published as connected (DialNothing). A recovery whose own request is
  cancelled publishes nil for everyone.
- `Connect` runs no reconnect handler: after a start in stdio mode, persisted
  subscriptions are not restored when the user connects. Nor
  are the groups of the lost connection discarded: a Subscribe of their interval,
  or a restore still under way, joins a group whose gopcua Subscription is dead
  and fails at Monitor, until the next recovery runs the handler
  (RestoredAfterReconnect asks the connection to stay up).
- A Subscribe between a reconnect and the clearing of the maps leaves its
  gopcua Subscription alive without anyone routing it.
- "Unsubscribe removes every node in the logical subscription id at once"
  (`subscription.go:283`). A group has one handle per node. A second
  subscription to the node overwrites the first one's, so the first item stays
  monitored and routed after both are gone, as long as the group lives. What
  does hold is that no subscribed node loses its last item that way
  (SubscribedIsMonitored).
- A restore subscribes, and persists again, an id that was unsubscribed after
  the list was read.
- A read in flight across a write stores the old value after the invalidation,
  and a live read in flight overwrites a newer pushed entry.
- A pushed entry is served without an age check after its node is unsubscribed.
- A node met first at the depth limit is not walked again when it is met nearer
  to the root, so a walk can miss nodes within reach (WalkIsExact asks for a
  tree). A failed browse looks like a node without references, and the subtree
  is swept. After a restart the index keeps nodes that have vanished since,
  until a walk meets or sweeps them (`strays` in IndexFollowsCache); a node that
  `batch.Index` refuses is cached and not searchable (`refused`). A cycle of
  references can make two cached nodes each other's parent, and
  `GetNodeHierarchy` does not end on them (HierarchyIsComplete asks for a space
  without cycles).
- A signal before `telemetryCancel` is set makes shutdown wait for a loop that
  is never cancelled (ShutdownEnds asks for a serving process). On stdio, tool
  calls still running when the store closes get errors from it.
- "An invalid value must never reach a live OPC-UA device" (`client.go:517-519`).
  A number beyond Float passes validation and `float32(v)` makes it an infinity
  (`client.go:1787`), which is written and acknowledged. A float beyond Int64,
  UInt64 or DateTime passes too, and the conversion's result is the processor's
  (`client.go:1744`, `1770`, `1886`); seconds whose nanoseconds exceed int64
  arrive as another date, since gopcua writes UnixNano. In each case the write
  is acknowledged with another value; AcknowledgedArrives names them
  (Unchecked). Fractions are cut off in integer nodes, and doubles rounded in
  Float nodes, without an error (Same). When the type information cannot be
  read, nothing is validated (`client.go:510-515`).
- `IsArray` is `valueRank > 0` (`client.go:1087`). A node of rank 0 takes only
  arrays but is written a scalar; one of rank 2 and above is written a flat list;
  a node of rank -2 or -3 may hold an array but only a scalar can be written
  (SentAsDeclared leaves out the first two).
- `isInRange` converts a uint64 to int64, so a number above the limit looks
  negative: refused where the type has no negative numbers, and for the signed
  types refused only by the conversion (ValidatedConverts).
- An array of Byte is converted to `[]uint8`, which is `[]byte`, so it goes out as
  a ByteString although `client.go:1415-1422` promises a typed slice; the server
  decides whether to take it (SentAsDeclared).
- A pushed null (a Bad status often has no value) or a decoded structure cannot
  be encoded (`store/value_encoding.go:55`), so the flush drops it and the pushed
  entry from before is served on, without an age check, although
  `docs/architecture.md:74-75` says subscribed nodes are served from the
  push-updated entry (StoredReadsAsLive).
- `decode` returns `v, unmarshalScalar(e, &v)`. Go does not say which of the two
  is evaluated first; StoredReadsAsLive holds as the compiler evaluates the call
  first, which Unmarshal takes for granted.

## Proofs

TLAPS checks the theorems below for every value of the constants: any finite or
infinite set of callers, any number of attempts, operations and faults, any
address spaces, keys, channel capacities, widths of integers and precisions of
floats, and both transports, under the assumptions each module states. Those say
that what is not a process is not a process, that bounds are natural numbers,
that the ids and nodes of `Subscriptions` and the nodes of `Discovery` are
finite, and of `Values`:

- NumbersAssumption: the ranges of the integer kinds nest as Go's do, float64 has
  at least the precision and range of float32, which has more than one bit, and
  no number reaches the code for infinity, which is below NaN and within the
  exponents. `Inf`, `NaN`, `MaxExponent` and `MaxTime` are constants, so Go's own
  widths satisfy it: 8 to 64 bits, mantissas of 24 and 53 bits, the largest
  floats in halves, any `Inf` above the largest float64 and `NaN` above that, and
  an exponent that reaches beyond both.
- InputsAssumption: what is asked to be written is a scalar or a list of the
  kinds a Go caller can pass, and what the device sets by itself a value gopcua
  decodes, each with numbers its kind has.

TLC evaluates each assumption on the instance of a run.

| Module | Theorem | Shows |
|---|---|---|
| `ConnectionProofs` | `TypeCorrect` | TypeOK |
| | `Invariance` | TypeOK and IndInv |
| | `NoLeak` | OpenIsOwned |
| | `PublishedCurrent` | PublishedIsCurrent |
| | `OneRecovery` | RecoversOnce |
| | `CallsBounded` | BoundedCalls |
| | `NoResurrection` | RecoveryNeverConnects |
| | `Refinement` | ImplementsRegister |
| `SubscriptionsProofs` | `Invariance`, `TypeCorrect` | TypeOK and IndInv |
| | `GroupsOutliveMembers` | GroupOutlivesMembers |
| | `RecordsArePersisted` | RecordsPersisted |
| | `SubscribedMonitored` | SubscribedIsMonitored |
| | `NoneMisrouted` | NoMisrouting |
| `ValueCacheProofs` | `Invariance`, `TypeCorrect` | IndInv, and TypeOK |
| | `StalenessBounded` | BoundedStaleness |
| | `StaleOnlyByRaces` | OnlyRacesLeaveStaleEntries |
| `DiscoveryProofs` | `Invariance`, `TypeCorrect` | TypeOK and IndInv |
| | `SweepSparesMet` | NeverSweepsMet |
| | `IndexCurrent` | IndexFollowsCache |
| | `WalkInvariance` | WalkInv |
| | `ExactWalk` | WalkIsExact |
| | `CompleteHierarchy` | HierarchyIsComplete |
| `LifecycleProofs` | `Invariance`, `TypeCorrect` | TypeOK and IndInv |
| | `StoreLast` | StoreOutlivesPump |
| | `NothingUnsent` | FinalFlush |
| `TelemetryProofs` | `Invariance`, `TypeCorrect` | TypeOK and IndInv |
| | `NothingLost` | Conservation |
| | `LastFlushCovers` | LastFlushIsComplete |
| `ValuesProofs` | `Invariance`, `TypeCorrect` | IndInv, and TypeOK |
| | `ValidationSuffices` | ValidatedConverts |
| | `DeclaredTypes` | SentAsDeclared |
| | `WritesArrive` | AcknowledgedArrives |
| | `StoreFaithful` | StoredReadsAsLive |

So every invariant and every action property that a run checks is a theorem too,
and so is the refinement. Few of them are inductive by themselves. The
strengthenings, in the module each belongs to:

Connection:

- LockInv: `connectMu` is held by exactly the process inside its critical
  section, so at most one process dials, publishes or closes.
- GenInv: `clientGen` equals `connGen` while nobody holds the mutex, lags it
  only during a dial, and no generation a caller remembers is newer. This is
  what makes the comparison in `recoverConnection` decide once: a recovery that
  goes ahead has bumped the counter, so `gen # clientGen` for all the others.
- ConnInv: generations not dialed yet have no connection; the connection being
  dialed is not closed; the one about to be closed is older than the published
  one, or nothing is published as connected.
- OpInv: which operation can be where; a recovery that dials does so while the
  client counts as connected, from which NoResurrection follows, since nobody
  else changes `connected` while it holds the mutex.
- RecoverInv: a generation that was recovered is older than the newest one.
- CallInv: how often a request can have been sent at each program point.

The refinement uses the same invariant: LockInv makes the connection about to be
closed unique, so the register's "replaced" is well defined; every action is
then Publish, Retire, a close, or a stutter of the register.

Subscriptions: GroupInv relates a group to the records and to the server.

- Counts: a group counts at least as many references as it has members, and for
  each node it routes at least as many handles as it has members that monitor
  the node. Two restores that subscribe the same id count twice and record once,
  so either may exceed the members but not fall below. An Unsubscribe takes away
  one reference and, of each of its nodes, one handle: the one recorded last,
  whosever it was. That the members it leaves keep one each is a matter of
  cardinalities (AtLeast, UnsubscribeGroups).
- Routes: a handle that a group routes belongs to the same node wherever else it
  is known, on the server, alive or not, and in a notification on its way.
- Owns: no two groups have the same gopcua Subscription, a live one has an item
  for each handle routed, and the item recorded for a node is routed to it.
- IssuedInv: nothing carries a handle beyond `nextHandle`. So a new handle is
  about no node yet, and Routes survives the clearing of the maps. This is what
  NoMisrouting needs of handles that are never given out twice.

ValueCache: AgeInv ties a version to a time. An answer holds versions that were
current when it was sampled, an entry made of it keeps that time as `at - took`,
and a version that appears later appears after it. AckInv adds what in-flight
answers may hold: not older than what is acknowledged, or noted in `late`. No
pushed entry takes part in either, so LiveTypes leaves out the types of the
queue and the batch. TypeOK adds those, and needs AgeInv for `took`, which is a
difference of two times.

Discovery: MuInv, the walk under way is the one that holds `discoveryMu`;
DepthInv, a call that browses is within the limit, which bounds the stack;
SeenInv, every node cached since that walk began carries its generation, so the
sweep's condition cannot select it; IndexInv, the index exceeds the cache only by
strays and by what the walk under way has swept and not yet batched, which no
entry of the cache is, and once a batch was written and until the next walk
begins it lacks only what that batch refused.

WalkInv is about a walk that nothing disturbs. PathInv: the calls of the walk
are a path of references from the root, call i at a node that i - 1 references
lead to. CoverInv: a node that was met was visited, is about to be, or was met
at the depth limit, and what a visited node refers to was met or is still to be
processed. ParentInv: the entry of a node that was met names a node that was met
and refers to it, or none under the root. AgeInv: no entry is of a later
generation than the latest walk's. When the stack is empty, CoverInv gives
WalkIsExact by induction on the distance from the root, and ParentInv gives
HierarchyIsComplete: a chain of parents that did not stop would visit more nodes
than there are.

Lifecycle: StartInv, nothing is served or counted before main has started
telemetry; StepInv, what shutdown has done by each step, so that the store is
closed after the pump has ended; FlushInv, the context is cancelled by shutdown
alone, and the loop that saw it ends with a flush after which nothing is counted.

Telemetry: FlushInv, a snapshot is held only during a flush, and it holds nothing
yet of the counters it has still to read; KeyInv, nothing is recorded under a
key that is not stored, since a key is stored before anything is added to it;
DueInv, the loop takes its last snapshot after the cancel, so what that snapshot
has read together with what was flushed before covers what was due.

Values: WriteInv says how far a write has come. In "send", and once a write was
acknowledged, the wire carries what Sending says: the request as it was, or what
validation and conversion with the node's type made of it. The theorems about
writes then are about pure functions: validateScalarValue and convertScalarValue
agree type by type (ValidatedScalarConverts), a conversion fails or yields the
Go kind of the DataType (ConvertedKind), and what it yields is the same value or
one of those that nothing checks (SameConverted). For a float, the same value
means that no float of the kind lies strictly between it and what was asked
(Nearby), which RoundedBetween proves of `Rounded` for any number within the
kind's range. StoreInv: what waits in the batch is normalized, so `Encodes` and
`Storable` agree on it and `decode` undoes `encode`. TypeOK rests on the numbers
being representable: RoundedIsFloat, proved from the recursion of powers, says
that `Rounded` yields a float of its kind or an infinity, that of two neighbours
it takes the one with an even quotient included, and FloatIsDouble that every
float32 is a float64.

The proof of each step has one case per action, and under it the conjuncts that
the action can disturb; where TypeOK is proved, the other parts use it.

Definitions by recursion (the handles of a request, `Unrouted`, `Reached`,
`Ancestors`, `Two`) are recursive functions. The library's induction theorems
have an operator as parameter, which the provers here cannot instantiate;
`Induction` states what is needed with sets and functions instead. From the
well-foundedness of < on Nat it derives that a set of naturals that is not empty
has a least element, from that CountingTo (a set with 0 that is closed under
successor up to n has 0 .. n) and Recursion (a function given by its value at 0
and a step from k - 1 to k exists and satisfies its equations). No module uses
RECURSIVE.

Only model-checked: the liveness properties, OperationsEnd, WatchedDeathRepaired,
StopCompletes, RestoredAfterReconnect, PushCorrects, WalksEnd and ShutdownEnds.
Fairness and ENABLED are out of the prover's reach.

## Not modelled

- Argument parsing and rendering in the tool handlers and resources, the logger:
  no state that a property is about.
- The search tiers over Bleve: queries whose answer the engine's scoring
  decides; `docs/architecture.md` lists known gaps there.
- `Validate` of the configuration, the tool filter, the choice of endpoint and
  user token: pure functions of the configuration, evaluated once.
- Of telemetry the nodeCount gauge, which is stored and never reset, the
  payload's layout, the keywords of `classifyErrorText` and the environment
  switches.
- Lists of lists in values, strings character by character.
- The JSON encoding of the other entries of the store, and bbolt itself: a
  bucket is a map with atomic operations that may fail.

## Plan

Done: the seven models, their runs, the register that `Connection` refines, and
the proofs above. Left, in this order:

1. A composition of `Connection` and `Subscriptions` in which `link` is derived
   from the published connection and "handler" runs the restore. Its state is
   the product of two runs that already take minutes, so it needs its own,
   smaller constants and would take the place of `subscriptions_liveness`.
2. `SubscriptionSet`, an abstract specification of the manager: a set of
   subscriptions that is persisted and comes back after a reconnect.
   `Subscriptions` is to refine it.
3. The handler of `Connection` and the restore of `Subscriptions` share one
   fact that could be proved without the product: a restore begins only after the
   generation it restores for was published.
