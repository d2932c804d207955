----------------------------- MODULE Telemetry -----------------------------
(***************************************************************************)
(* Usage counters (internal/telemetry): tool calls and the caching client  *)
(* add to them without a lock, and the flush loop reads and resets them    *)
(* one by one and sends what it has read.  Each Add, each LoadOrStore and  *)
(* each Swap is a step of its own, since each is one atomic operation.     *)
(*                                                                         *)
(* Lifecycle has the same loop with one counter and a flush in one step,   *)
(* among the other components that shutdown waits for.                     *)
(***************************************************************************)
EXTENDS Naturals, Sequences, SequencesExt

CONSTANTS
  Callers,   \* goroutines that record: tool calls in flight
  Tools,     \* tool names: keys of aggregator.toolCalls
  Kinds,     \* knownErrorKinds: keys of aggregator.errorCounts
  Other,     \* ErrKindOther
  Errors,    \* what RecordError may be given
  Params,    \* numbers of arguments of a tool call
  MaxSends,  \* bound: sends in flight when the flush ticker fires
  MaxRecords \* bound: recordings begun

Fixed    == {"count", "params", "hits", "misses"}
Keys     == Tools \cup Kinds
Counters == Fixed \cup Keys

ASSUME TelemetryAssumption ==
  /\ Fixed \cap Keys = {} /\ Tools \cap Kinds = {} /\ Other \in Kinds
  /\ Params \subseteq Nat /\ MaxSends \in Nat /\ MaxRecords \in Nat

VARIABLES
  agg,        \* the counters
  known,      \* keys that have a counter in their sync.Map
  adds,       \* what each recorder has still to add
  loop,       \* the flush loop: disabled, off, waiting, flushing, last, done
  todo,       \* counters the flush under way has not yet read
  snap,       \* what it has read
  sending,    \* payloads under way
  cancelled,  \* the context given to Start is cancelled
  recorded, flushed,  \* history: totals added, and handed to a send
  due,                \* history: recorded when the context was cancelled
  begun               \* recordings begun

vars == <<agg, known, adds, loop, todo, snap, sending, cancelled, recorded,
          flushed, due, begun>>

Zero == [c \in Counters |-> 0]

\* New: a no-op when telemetry is disabled.
Init ==
  /\ agg = Zero /\ known = {}
  /\ adds = [r \in Callers |-> <<>>]
  /\ loop \in {"disabled", "off"}
  /\ todo = {} /\ snap = Zero
  /\ sending = <<>>
  /\ cancelled = FALSE
  /\ recorded = Zero /\ flushed = Zero /\ due = Zero
  /\ begun = 0

-----------------------------------------------------------------------------
(***************************************************************************)
(* Recording.                                                              *)
(***************************************************************************)
Addition == [counter : Counters, by : Nat]

One(c) == [counter |-> c, by |-> 1]

\* recordToolCall, recordError and recordCacheResult, as the Adds they make.
ToolCall(t, n) ==
  <<One("count"), [counter |-> "params", by |-> n], One(t)>>

\* Mutant: whatever RecordError is given becomes a key.
AsGiven(e) == e

normalizeErrorKind(e) == IF e \in Kinds THEN e ELSE Other

ErrorOf(e)         == <<One(normalizeErrorKind(e))>>
CacheResult(isHit) == <<One(IF isHit THEN "hits" ELSE "misses")>>

\* telemetryMiddleware: the call, and its error if it failed.
Reported ==
  LET calls == {ToolCall(t, n) : t \in Tools, n \in Params}
  IN  calls \cup {a \o ErrorOf(e) : a \in calls, e \in Errors}

Looked == {CacheResult(h) : h \in BOOLEAN}

\* r begins to record; disabled telemetry records nothing.
Record(r, a) ==
  /\ adds[r] = <<>>
  /\ begun < MaxRecords /\ begun' = begun + 1
  /\ adds' = IF loop = "disabled" THEN adds ELSE [adds EXCEPT ![r] = a]
  /\ UNCHANGED <<agg, known, loop, todo, snap, sending, cancelled, recorded,
                 flushed, due>>

\* What r adds next.
Due(r) == Head(adds[r])

\* counter()'s LoadOrStore of a key that has no counter yet.
LoadOrStore(r) ==
  /\ adds[r] # <<>>
  /\ Due(r).counter \in Keys \ known
  /\ known' = known \cup {Due(r).counter}
  /\ UNCHANGED <<agg, adds, loop, todo, snap, sending, cancelled, recorded,
                 flushed, due, begun>>

Add(r) ==
  /\ adds[r] # <<>>
  /\ Due(r).counter \notin Keys \ known
  /\ agg' = [agg EXCEPT ![Due(r).counter] = @ + Due(r).by]
  /\ recorded' = [recorded EXCEPT ![Due(r).counter] = @ + Due(r).by]
  /\ adds' = [adds EXCEPT ![r] = Tail(@)]
  /\ UNCHANGED <<known, loop, todo, snap, sending, cancelled, flushed, due,
                 begun>>

-----------------------------------------------------------------------------
(***************************************************************************)
(* run, flush and snapshot.                                                *)
(***************************************************************************)
Start ==
  /\ loop \in {"disabled", "off"}
  /\ loop' = IF loop = "disabled" THEN loop ELSE "waiting"
  /\ UNCHANGED <<agg, known, adds, todo, snap, sending, cancelled, recorded,
                 flushed, due, begun>>

Flush(to) ==
  /\ loop = "waiting"
  /\ loop' = to
  /\ todo' = Counters
  /\ UNCHANGED <<agg, known, adds, snap, sending, cancelled, recorded, flushed,
                 due, begun>>

FlushTick == Len(sending) < MaxSends /\ Flush("flushing")

\* Mutant: the loop returns without a last flush when its context is done.
LastFlushForgotten ==
  /\ cancelled /\ loop = "waiting"
  /\ loop' = "done"
  /\ UNCHANGED <<agg, known, adds, todo, snap, sending, cancelled, recorded,
                 flushed, due, begun>>

\* ctx.Done: a last flush, and run returns.
LastFlush == cancelled /\ Flush("last")

\* The order in which snapshot reads; a Range visits keys in any order.
Order == <<{"count"}, {"params"}, {"hits"}, {"misses"}, Tools, Kinds>>

IsNext(c) ==
  \E i \in DOMAIN Order :
    c \in Order[i] /\ \A j \in 1 .. i - 1 : Order[j] \cap todo = {}

\* Mutant: a counter is read, but not reset.
LoadOnly(c) == snap' = [snap EXCEPT ![c] = agg[c]] /\ UNCHANGED agg

\* Swap(0).
ReadAndReset(c) ==
  /\ snap' = [snap EXCEPT ![c] = agg[c]]
  /\ agg' = [agg EXCEPT ![c] = 0]

Swap(c) ==
  /\ c \in todo \ (Keys \ known) /\ IsNext(c)
  /\ ReadAndReset(c)
  /\ todo' = todo \ {c}
  /\ UNCHANGED <<known, adds, loop, sending, cancelled, recorded, flushed, due,
                 begun>>

\* Range does not visit a key without a counter; one stored while it runs may
\* be visited or not.
Skip(c) ==
  /\ c \in todo \cap (Keys \ known) /\ IsNext(c)
  /\ todo' = todo \ {c}
  /\ UNCHANGED <<agg, known, adds, loop, snap, sending, cancelled, recorded,
                 flushed, due, begun>>

\* The payload goes to a goroutine of its own.
FlushEnd ==
  /\ loop \in {"flushing", "last"} /\ todo = {}
  /\ sending' = Append(sending, snap)
  /\ flushed' = [c \in Counters |-> flushed[c] + snap[c]]
  /\ snap' = Zero
  /\ loop' = IF loop = "flushing" THEN "waiting" ELSE "done"
  /\ UNCHANGED <<agg, known, adds, todo, cancelled, recorded, due, begun>>

\* A send succeeds, fails or times out; it is not tried again.
SendEnds ==
  /\ \E i \in DOMAIN sending : sending' = RemoveAt(sending, i)
  /\ UNCHANGED <<agg, known, adds, loop, todo, snap, cancelled, recorded,
                 flushed, due, begun>>

\* The caller cancels the context (Lifecycle: shutdown).
Cancel ==
  /\ cancelled' = TRUE
  /\ due' = IF cancelled THEN due ELSE recorded
  /\ UNCHANGED <<agg, known, adds, loop, todo, snap, sending, recorded,
                 flushed, begun>>

-----------------------------------------------------------------------------
Adding   == \E r \in Callers : LoadOrStore(r) \/ Add(r)
Flushing == FlushEnd \/ \E c \in Counters : Swap(c) \/ Skip(c)

Next ==
  \/ \E r \in Callers, a \in Reported \cup Looked : Record(r, a)
  \/ Adding
  \/ Start \/ FlushTick \/ LastFlush \/ Flushing
  \/ SendEnds \/ Cancel

Spec == Init /\ [][Next]_vars
-----------------------------------------------------------------------------
(***************************************************************************)
(* Correctness.                                                            *)
(***************************************************************************)
\* Every variable keeps its type; in particular only tool names and known
\* error kinds ever become keys, never the text of an error.
TypeOK ==
  /\ agg \in [Counters -> Nat] /\ snap \in [Counters -> Nat]
  /\ recorded \in [Counters -> Nat] /\ flushed \in [Counters -> Nat]
  /\ due \in [Counters -> Nat]
  /\ known \subseteq Keys /\ todo \subseteq Counters
  /\ adds \in [Callers -> Seq(Addition)]
  /\ loop \in {"disabled", "off", "waiting", "flushing", "last", "done"}
  /\ cancelled \in BOOLEAN
  /\ sending \in Seq([Counters -> Nat])
  /\ begun \in Nat

\* Nothing is lost and nothing is counted twice between recorders that add
\* without a lock and a snapshot that reads and resets counter by counter.
Conservation ==
  \A c \in Counters : recorded[c] = agg[c] + snap[c] + flushed[c]

\* When the loop has ended, every Add made before the context was cancelled
\* is in some payload, whatever flush was under way then and whatever keys
\* were being added.
LastFlushIsComplete ==
  loop = "done" => \A c \in Counters : flushed[c] >= due[c]
-----------------------------------------------------------------------------
(***************************************************************************)
(* The inductive invariant behind both.                                    *)
(***************************************************************************)

\* A snapshot is being taken only during a flush, and holds nothing yet of
\* the counters it has still to read.
FlushInv ==
  /\ loop \notin {"flushing", "last"} =>
       todo = {} /\ \A c \in Counters : snap[c] = 0
  /\ \A c \in todo : snap[c] = 0

\* A key is stored before anything is added to it.
KeyInv == \A c \in Keys \ known : recorded[c] = 0

\* The loop takes its last snapshot after the cancel, so what it has read by
\* then covers what was due.
DueInv ==
  /\ loop \in {"last", "done"} => cancelled
  /\ \A c \in Counters : due[c] <= recorded[c]
  /\ loop = "last" =>
       \A c \in Counters \ todo : snap[c] + flushed[c] >= due[c]

IndInv ==
  FlushInv /\ KeyInv /\ DueInv /\ Conservation /\ LastFlushIsComplete
=============================================================================
