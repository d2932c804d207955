----------------------------- MODULE ValueCache -----------------------------
(***************************************************************************)
(* CachingClient (internal/opcua/caching_client.go) over the store's       *)
(* values, browse and typeinfo buckets, with the pump that writes pushed   *)
(* values into the same bucket (subscription.go).  SEARCH_ENABLE_CACHE is  *)
(* on; without it every call goes straight to the Client.                  *)
(*                                                                         *)
(* Nothing locks an entry between its read and its write: a lookup, the    *)
(* live read, its reply and each PutValue are separate steps, and so are a *)
(* write, the check of the entry and its deletion.  The device's value of  *)
(* a key is its version number; born[k][v] is when version v appeared.     *)
(***************************************************************************)
EXTENDS Integers, Sequences, FiniteSets, FiniteSetsExt, Functions

CONSTANTS
  ValueKeys,   \* node IDs, keys of the values bucket
  MetaKeys,    \* keys of the browse and typeinfo buckets
  Callers,     \* tool calls in flight
  MaxAges,     \* max_age_ms of reads, and the TTLs of browse and typeinfo
  QueueCap,    \* STORE_NOTIFY_CHAN_BUFFER
  MaxClock,    \* bound: time
  MaxVersion,  \* bound: values a key takes
  MaxCalls,    \* bound: calls
  MaxFaults    \* bound: failed calls and lost connections

Keys == ValueKeys \cup MetaKeys

ASSUME ValueCacheAssumption ==
  /\ ValueKeys # {} /\ ValueKeys \cap MetaKeys = {}
  /\ MaxAges \subseteq Nat
  /\ QueueCap \in Nat /\ MaxClock \in Nat /\ MaxVersion \in Nat \ {0}
  /\ MaxCalls \in Nat /\ MaxFaults \in Nat

VARIABLES
  clock,
  born,        \* the server: when each version of a key appeared
  cache,       \* the store's entries
  subscribed,  \* nodes of recorded subscriptions
  pushing,     \* those whose monitored item is alive on the server
  sent,        \* the version last pushed for a node, 0 if none
  queue,       \* notifyCh
  batch,       \* the pump's batch: node -> version and ReceivedAt
  pc, age, want, miss, got, now, late, key, wrote,   \* the callers' locals
  acked,       \* history: latest version whose Write returned success
  calls, faults

reader == <<age, want, miss, got, now, late>>
writer == <<key, wrote, acked>>
push   == <<subscribed, pushing, sent, queue, batch>>
vars   == <<clock, born, cache, push, pc, reader, writer, calls, faults>>

Empty == [x \in {} |-> x]
Put(f, k, v) == [x \in DOMAIN f \cup {k} |-> IF x = k THEN v ELSE f[x]]
Without(f, S) == Restrict(f, DOMAIN f \ S)

\* The version the server has now.
Device(k) == Len(born[k])

\* n calls fail.
Failures(n) == faults + n <= MaxFaults /\ faults' = faults + n

Init ==
  /\ clock = 0
  /\ born = [k \in Keys |-> <<0>>]
  /\ cache = Empty
  /\ subscribed = {} /\ pushing = {}
  /\ sent = [k \in ValueKeys |-> 0]
  /\ queue = <<>> /\ batch = Empty
  /\ pc = [p \in Callers |-> "idle"]
  /\ age = [p \in Callers |-> 0]
  /\ want = [p \in Callers |-> {}]
  /\ miss = [p \in Callers |-> {}]
  /\ got = [p \in Callers |-> Empty]
  /\ now = [p \in Callers |-> 0]
  /\ late = [p \in Callers |-> {}]
  /\ key \in [Callers -> {CHOOSE k \in ValueKeys : TRUE}]
  /\ wrote = [p \in Callers |-> 0]
  /\ acked = [k \in ValueKeys |-> 0]
  /\ calls = 0 /\ faults = 0

Goto(p, label) == pc' = [pc EXCEPT ![p] = label]

Begin(p, label) ==
  /\ pc[p] = "idle"
  /\ calls < MaxCalls
  /\ calls' = calls + 1
  /\ Goto(p, label)

-----------------------------------------------------------------------------
(***************************************************************************)
(* Read, Browse and GetNodeTypeInfo.                                       *)
(***************************************************************************)

\* Read takes a list of nodes, Browse and GetNodeTypeInfo one key.
ReadStart(p, S, a) ==
  /\ Begin(p, "lookup")
  /\ S # {} /\ (S \subseteq ValueKeys \/ \E k \in MetaKeys : S = {k})
  /\ want' = [want EXCEPT ![p] = S]
  /\ age' = [age EXCEPT ![p] = a]
  /\ miss' = [miss EXCEPT ![p] = {}]
  /\ UNCHANGED <<clock, born, cache, push, got, now, late, writer, faults>>

\* An entry is served if it was pushed, or if it is live and young enough; any
\* other source is a miss.
Serves(k, a) ==
  k \in DOMAIN cache
    /\ \/ cache[k].source = "subscription"
       \/ cache[k].source = "live" /\ clock - cache[k].at <= a

\* Mutant: a hit renews the entry.
TouchRenewing(k) == cache' = [cache EXCEPT ![k].at = clock]

\* A hit leaves the store alone.
Touch(k) == UNCHANGED cache

\* One GetValue (or GetBrowse, GetTypeInfo); an error counts as a miss.
Lookup(p, k) ==
  /\ pc[p] = "lookup" /\ k \in want[p]
  /\ want' = [want EXCEPT ![p] = @ \ {k}]
  /\ \/ /\ Serves(k, age[p]) /\ Failures(0)
        /\ Touch(k)
        /\ UNCHANGED miss
     \/ /\ Failures(IF Serves(k, age[p]) THEN 1 ELSE 0)
        /\ miss' = [miss EXCEPT ![p] = @ \cup {k}]
        /\ UNCHANGED cache
  /\ Goto(p, IF want'[p] # {} THEN "lookup"
             ELSE IF miss'[p] = {} THEN "idle" ELSE "live")
  /\ UNCHANGED <<clock, born, push, age, got, now, late, writer, calls>>

\* readLive: the server answers for every missing key at once ...
ReadLive(p) ==
  /\ pc[p] = "live"
  /\ got' = [got EXCEPT ![p] =
               [k \in miss[p] |-> [val |-> Device(k), sampled |-> clock]]]
  /\ late' = [late EXCEPT ![p] = {}]
  /\ Goto(p, "reply")
  /\ UNCHANGED <<clock, born, cache, push, age, want, miss, now, writer, calls,
                 faults>>

\* ... or the read fails, and with it the whole call.
ReadFails(p) ==
  /\ pc[p] = "live"
  /\ Failures(1)
  /\ Goto(p, "idle")
  /\ UNCHANGED <<clock, born, cache, push, reader, writer, calls>>

\* The answer arrives: time.Now(), the ReceivedAt of all entries.
Reply(p) ==
  /\ pc[p] = "reply"
  /\ now' = [now EXCEPT ![p] = clock]
  /\ Goto(p, "put")
  /\ UNCHANGED <<clock, born, cache, push, age, want, miss, got, late, writer,
                 calls, faults>>

\* One PutValue with Source "live"; its failure is logged.  It overwrites
\* whatever the entry has become since the lookup.  took, how long the answer
\* was under way, and suspect are history.
PutLive(p, k) ==
  /\ pc[p] = "put" /\ k \in DOMAIN got[p]
  /\ \/ /\ cache' = Put(cache, k,
                        [val |-> got[p][k].val, at |-> now[p],
                         source |-> "live", took |-> now[p] - got[p][k].sampled,
                         suspect |-> k \in late[p]])
        /\ Failures(0)
     \/ UNCHANGED cache /\ Failures(1)
  /\ got' = [got EXCEPT ![p] = Without(@, {k})]
  /\ Goto(p, IF DOMAIN got[p] = {k} THEN "idle" ELSE "put")
  /\ UNCHANGED <<clock, born, push, age, want, miss, now, late, writer, calls>>

-----------------------------------------------------------------------------
(***************************************************************************)
(* Write.                                                                  *)
(***************************************************************************)
WriteStart(p, k) ==
  /\ Begin(p, "write")
  /\ key' = [key EXCEPT ![p] = k]
  /\ UNCHANGED <<clock, born, cache, push, reader, wrote, acked, faults>>

\* A new version of k on the server.
NewVersion(k) ==
  /\ Device(k) < MaxVersion
  /\ born' = [born EXCEPT ![k] = Append(@, clock)]

\* Client.Write succeeds.
WriteApplied(p) ==
  /\ pc[p] = "write"
  /\ NewVersion(key[p])
  /\ wrote' = [wrote EXCEPT ![p] = Device(key[p]) + 1]
  /\ Goto(p, "check")
  /\ UNCHANGED <<clock, cache, push, reader, key, acked, calls, faults>>

\* Client.Write fails: refused, or applied and the answer lost.
WriteFails(p) ==
  /\ pc[p] = "write"
  /\ Failures(1)
  /\ UNCHANGED born \/ NewVersion(key[p])
  /\ Goto(p, "idle")
  /\ UNCHANGED <<clock, cache, push, reader, writer, calls>>

\* Write returns success.  Live reads in flight that the server answered
\* before the write are noted.
Acknowledge(p) ==
  LET k == key[p] IN
    /\ acked' = [acked EXCEPT ![k] = Max({@, wrote[p]})]
    /\ late' = [r \in Callers |->
                  IF k \in DOMAIN got[r] THEN late[r] \cup {k} ELSE late[r]]
    /\ Goto(p, "idle")

\* An entry that an invalidation should have removed and did not.
Suspected(k) == [cache EXCEPT ![k].suspect = TRUE]

\* Mutant: only an entry that has expired is deleted.
MustDeleteExpired(k) ==
  k \in DOMAIN cache /\ cache[k].source # "subscription" /\ cache[k].at < clock

\* The entry is deleted unless it is absent or pushed.
MustDelete(k) == k \in DOMAIN cache /\ cache[k].source # "subscription"

\* The invalidation's GetValue; when it fails the entry stays.
WriteCheck(p) ==
  /\ pc[p] = "check"
  /\ \/ /\ MustDelete(key[p]) /\ Failures(0)
        /\ Goto(p, "delete")
        /\ UNCHANGED <<cache, late, acked>>
     \/ /\ ~MustDelete(key[p]) /\ Failures(0)
        /\ Acknowledge(p)
        /\ UNCHANGED cache
     \/ /\ key[p] \in DOMAIN cache /\ Failures(1)
        /\ cache' = Suspected(key[p])
        /\ Acknowledge(p)
  /\ UNCHANGED <<clock, born, push, age, want, miss, got, now, key, wrote,
                 calls>>

\* DeleteValue; its failure is logged.
WriteDelete(p) ==
  /\ pc[p] = "delete"
  /\ \/ cache' = Without(cache, {key[p]}) /\ Failures(0)
     \/ /\ key[p] \in DOMAIN cache /\ Failures(1)
        /\ cache' = Suspected(key[p])
  /\ Acknowledge(p)
  /\ UNCHANGED <<clock, born, push, age, want, miss, got, now, key, wrote,
                 calls>>

-----------------------------------------------------------------------------
(***************************************************************************)
(* Pushes.  A monitored item reports its first value and every change; a   *)
(* notification whose handle is no longer routed is dropped by the pump,   *)
(* which is the same as taking it off the queue when the routing ends.     *)
(***************************************************************************)
Subscribe(k) ==
  /\ k \notin subscribed
  /\ subscribed' = subscribed \cup {k}
  /\ pushing' = pushing \cup {k}
  /\ sent' = [sent EXCEPT ![k] = 0]
  /\ UNCHANGED <<clock, born, cache, queue, batch, pc, reader, writer, calls,
                 faults>>

\* A queue without the notifications of k.
Unrouted(q, k) ==
  LET left[i \in 0 .. Len(q)] ==
        IF i = 0 THEN <<>>
        ELSE IF q[i].key = k THEN left[i - 1]
        ELSE Append(left[i - 1], q[i])
  IN left[Len(q)]

\* Neither the batch nor the cached entry is touched.
Unsubscribe(k) ==
  /\ k \in subscribed
  /\ subscribed' = subscribed \ {k}
  /\ pushing' = pushing \ {k}
  /\ queue' = Unrouted(queue, k)
  /\ UNCHANGED <<clock, born, cache, sent, batch, pc, reader, writer, calls,
                 faults>>

\* The connection is lost and its monitored items with it ...
LoseItems ==
  /\ pushing # {}
  /\ Failures(1)
  /\ pushing' = {}
  /\ UNCHANGED <<clock, born, cache, subscribed, sent, queue, batch, pc, reader,
                 writer, calls>>

\* ... and restored by a reconnect, with new handles.
RestoreItems ==
  /\ pushing # subscribed
  /\ pushing' = subscribed
  /\ sent' = [k \in ValueKeys |-> 0]
  /\ queue' = <<>>
  /\ UNCHANGED <<clock, born, cache, subscribed, batch, pc, reader, writer,
                 calls, faults>>

Notify(k) ==
  /\ k \in pushing /\ sent[k] # Device(k)
  /\ Len(queue) < QueueCap
  /\ queue' = Append(queue, [key |-> k, val |-> Device(k)])
  /\ sent' = [sent EXCEPT ![k] = Device(k)]
  /\ UNCHANGED <<clock, born, cache, subscribed, pushing, batch, pc, reader,
                 writer, calls, faults>>

\* handleNotification.
PumpTake ==
  /\ queue # <<>>
  /\ queue' = Tail(queue)
  /\ batch' = Put(batch, Head(queue).key, [val |-> Head(queue).val, at |-> clock])
  /\ UNCHANGED <<clock, born, cache, subscribed, pushing, sent, pc, reader,
                 writer, calls, faults>>

\* Mutant: Source is left empty.
PushedUnlabelled(k) ==
  [val |-> batch[k].val, at |-> batch[k].at, source |-> "", took |-> 0,
   suspect |-> FALSE]

Pushed(k) ==
  [val |-> batch[k].val, at |-> batch[k].at, source |-> "subscription",
   took |-> 0, suspect |-> FALSE]

\* Mutant: a pushed value does not replace an entry.
StorePushedOnce(k) ==
  cache' = IF k \in DOMAIN cache THEN cache ELSE Put(cache, k, Pushed(k))

StorePushed(k) == cache' = Put(cache, k, Pushed(k))

\* flush writes the batch one entry at a time; a failure loses the entry.
PumpFlush(k) ==
  /\ k \in DOMAIN batch
  /\ \/ StorePushed(k) /\ Failures(0)
     \/ UNCHANGED cache /\ Failures(1)
  /\ batch' = Without(batch, {k})
  /\ UNCHANGED <<clock, born, subscribed, pushing, sent, queue, pc, reader,
                 writer, calls>>

-----------------------------------------------------------------------------
Tick ==
  /\ clock < MaxClock
  /\ clock' = clock + 1
  /\ UNCHANGED <<born, cache, push, pc, reader, writer, calls, faults>>

\* The value changes without this program's doing.
DeviceChange(k) ==
  /\ NewVersion(k)
  /\ UNCHANGED <<clock, cache, push, pc, reader, writer, calls, faults>>

\* The process ends and is started again: the store survives.
Restart ==
  /\ Failures(1)
  /\ pc' = [p \in Callers |-> "idle"]
  /\ got' = [p \in Callers |-> Empty]
  /\ pushing' = {} /\ queue' = <<>> /\ batch' = Empty
  /\ UNCHANGED <<clock, born, cache, subscribed, sent, age, want, miss, now,
                 late, writer, calls>>

Call(p) ==
  \/ \E k \in Keys : Lookup(p, k) \/ PutLive(p, k)
  \/ ReadLive(p) \/ ReadFails(p) \/ Reply(p)
  \/ WriteApplied(p) \/ WriteFails(p) \/ WriteCheck(p) \/ WriteDelete(p)

Pump == PumpTake \/ \E k \in ValueKeys : PumpFlush(k)

\* No call is in flight and nothing is left to push.
Quiescent ==
  /\ \A p \in Callers : pc[p] \in {"idle", "write"}
  /\ queue = <<>> /\ batch = Empty
  /\ UNCHANGED vars

Next ==
  \/ \E p \in Callers, S \in SUBSET Keys, a \in MaxAges : ReadStart(p, S, a)
  \/ \E p \in Callers, k \in ValueKeys : WriteStart(p, k)
  \/ \E p \in Callers : Call(p)
  \/ \E k \in ValueKeys : Subscribe(k) \/ Unsubscribe(k) \/ Notify(k)
  \/ LoseItems \/ RestoreItems \/ Pump
  \/ Tick \/ Restart \/ \E k \in Keys : DeviceChange(k)
  \/ Quiescent

\* The server publishes, and the pump's select takes every ready case.
Fairness ==
  /\ \A k \in ValueKeys : WF_vars(Notify(k)) /\ WF_vars(PumpFlush(k))
  /\ WF_vars(PumpTake)

Spec     == Init /\ [][Next]_vars
FairSpec == Spec /\ Fairness
-----------------------------------------------------------------------------
(***************************************************************************)
(* Correctness.                                                            *)
(***************************************************************************)
Versions == 1 .. MaxVersion
Times    == 0 .. MaxClock
Entries  == [val : Versions, at : Times, source : {"live", "subscription"},
             took : Times, suspect : BOOLEAN]

IsMap(f, D, R) == DOMAIN f \subseteq D /\ \A x \in DOMAIN f : f[x] \in R

\* Every variable keeps its type; only values are ever marked as pushed.
TypeOK ==
  /\ clock \in Times
  /\ \A k \in Keys : born[k] \in Seq(Times) /\ Device(k) \in Versions
  /\ IsMap(cache, Keys, Entries)
  /\ \A k \in DOMAIN cache \cap MetaKeys : cache[k].source = "live"
  /\ subscribed \subseteq ValueKeys /\ pushing \subseteq subscribed
  /\ sent \in [ValueKeys -> 0 .. MaxVersion]
  /\ queue \in Seq([key : ValueKeys, val : Versions]) /\ Len(queue) <= QueueCap
  /\ IsMap(batch, ValueKeys, [val : Versions, at : Times])
  /\ pc \in [Callers -> {"idle", "lookup", "live", "reply", "put",
                         "write", "check", "delete"}]
  /\ age \in [Callers -> MaxAges \cup {0}] /\ now \in [Callers -> Times]
  /\ want \in [Callers -> SUBSET Keys] /\ miss \in [Callers -> SUBSET Keys]
  /\ late \in [Callers -> SUBSET Keys]
  /\ \A p \in Callers :
       IsMap(got[p], Keys, [val : Versions, sampled : Times])
  /\ key \in [Callers -> ValueKeys] /\ wrote \in [Callers -> 0 .. MaxVersion]
  /\ acked \in [ValueKeys -> 0 .. MaxVersion]
  /\ calls \in Nat /\ faults \in Nat

\* A value that Read, Browse or GetNodeTypeInfo serves from a live entry under
\* max age a was still the server's value a ago, but for the time the read
\* that fetched it took, however often the entry was served in between.
BoundedStaleness ==
  \A k \in DOMAIN cache : \A a \in MaxAges :
    (cache[k].source = "live" /\ Serves(k, a) /\ cache[k].val < Device(k)) =>
      born[k][cache[k].val + 1] >= clock - a - cache[k].took

\* Once Write has returned success, a live entry older than the value written
\* can only come from a read the server had answered before and that was
\* stored afterwards, or from an invalidation the store refused.
OnlyRacesLeaveStaleEntries ==
  \A k \in DOMAIN cache \cap ValueKeys :
    (cache[k].source = "live" /\ ~cache[k].suspect) => cache[k].val >= acked[k]

\* The comment of Write: the next subscription push corrects a subscribed
\* entry, which is why Write leaves it alone.  While a node's item lives, and
\* as long as no call has failed, a pushed entry older than the device's value
\* is brought up to date or gives way to a live one.
PushCorrects ==
  \A k \in ValueKeys : \A v \in 2 .. MaxVersion :
    (/\ k \in pushing /\ Device(k) = v /\ faults = 0
     /\ k \in DOMAIN cache /\ cache[k].source = "subscription")
      ~> (\/ k \notin pushing \/ k \notin DOMAIN cache \/ faults # 0
          \/ cache[k].val >= v \/ cache[k].source = "live")
-----------------------------------------------------------------------------
(***************************************************************************)
(* The inductive invariant behind BoundedStaleness and                     *)
(* OnlyRacesLeaveStaleEntries.                                             *)
(***************************************************************************)

\* The types of what live reads and writes touch; those of the queue and the
\* batch, which only become pushed entries, do not matter to them.
IsEntry(e) ==
  e = [val |-> e.val, at |-> e.at, source |-> e.source, took |-> e.took,
       suspect |-> e.suspect]

LiveTypes ==
  /\ clock \in Nat /\ born \in [Keys -> Seq(Nat)]
  /\ DOMAIN cache \subseteq Keys
  /\ \A k \in DOMAIN cache :
       /\ IsEntry(cache[k])
       /\ cache[k].source = "live" =>
            cache[k].val \in Nat /\ cache[k].at \in Nat /\ cache[k].took \in Nat
  /\ DOMAIN pc = Callers /\ now \in [Callers -> Nat]
  /\ miss \in [Callers -> SUBSET Keys] /\ late \in [Callers -> SUBSET Keys]
  /\ DOMAIN got = Callers
  /\ \A p \in Callers : IsMap(got[p], Keys, [val : Nat, sampled : Nat])
  /\ key \in [Callers -> ValueKeys] /\ wrote \in [Callers -> Nat]
  /\ acked \in [ValueKeys -> Nat]

\* Version v of k was still the server's at time t.
CurrentAt(k, v, t) == v < Device(k) => born[k][v + 1] >= t

\* An answer holds the values of when it was sampled, and what is stored from
\* it keeps that time, as at - took.
AgeInv ==
  /\ \A p \in Callers : \A k \in DOMAIN got[p] :
       /\ got[p][k].sampled <= clock
       /\ CurrentAt(k, got[p][k].val, got[p][k].sampled)
       /\ pc[p] = "put" => got[p][k].sampled <= now[p]
  /\ \A k \in DOMAIN cache : cache[k].source = "live" =>
       /\ cache[k].at - cache[k].took <= clock
       /\ CurrentAt(k, cache[k].val, cache[k].at - cache[k].took)

\* An answer or a live entry older than an acknowledged write is marked.
AckInv ==
  /\ \A k \in ValueKeys : acked[k] <= Device(k)
  /\ \A p \in Callers :
       pc[p] \in {"check", "delete"} => wrote[p] <= Device(key[p])
  /\ \A p \in Callers : \A k \in DOMAIN got[p] \cap ValueKeys :
       k \notin late[p] => got[p][k].val >= acked[k]
  /\ OnlyRacesLeaveStaleEntries

IndInv == LiveTypes /\ AgeInv /\ AckInv
=============================================================================
