------------------------------ MODULE Lifecycle ------------------------------
(***************************************************************************)
(* Server's life (internal/mcp/server.go, cmd/opcua-mcp.go): Start brings  *)
(* up the discovery worker, the telemetry loop and the transport;          *)
(* shutdown takes everything down once, on a signal or when stdin ends.    *)
(* The components appear as far as shutdown waits for them: the discovery  *)
(* worker, the subscription manager's pump, the tool calls in flight, the  *)
(* telemetry loop and its sends.  pending is any one of the counters of    *)
(* Telemetry, which models recording and flushing step by step.            *)
(*                                                                         *)
(* main, the signal goroutine, the components and the tool calls run       *)
(* concurrently.  main's fatal exits and os.Exit end all of them at once.  *)
(***************************************************************************)
EXTENDS Naturals, Sequences, SequencesExt

CONSTANTS
  Transports,  \* transports to consider, of "stdio" and "http"
  Callers,     \* tool calls in flight
  MaxCalls,    \* bound: tool calls
  MaxSends     \* bound: sends in flight when the flush ticker fires

ASSUME LifecycleAssumption ==
  /\ Transports \subseteq {"stdio", "http"}
  /\ MaxCalls \in Nat /\ MaxSends \in Nat

VARIABLES
  transport,
  main,       \* what main does next
  sig,        \* the signal goroutine: off, armed, in shutdown
  step,       \* how far the one run of shutdown has come
  exit,       \* how the process ended: no, done (after shutdown), fatal
  store,      \* the bbolt store: absent (Open failed), open, closed
  worker,     \* discoveryWorker: off, walking, idle, done
  stopChans,  \* how often DiscoveryService.stopChan was closed
  pump,       \* SubscriptionManager.pump: absent, running, done
  stopCh,     \* SubscriptionManager.stopCh is closed
  batch,      \* the pump holds values it has not stored
  http,       \* httpServer: absent, handle, listening, closed
  call, calls,
  loop,       \* telemetry's flush loop: disabled, off, running, done
  cancelSet,  \* Server.telemetryCancel is set
  cancelled,  \* the context given to telemetry.Start is cancelled
  pending,    \* tool calls counted since the last flush, before the cancel
  sending     \* payloads under way: the tool calls each counts

life   == <<transport, main, sig, step, exit>>
comps  == <<worker, stopChans, pump, stopCh, batch, http>>
served == <<call, calls>>
tel    == <<loop, cancelSet, cancelled, pending, sending>>
vars   == <<life, store, comps, served, tel>>

Alive == exit = "no"

\* main up to Server.Start: the store may have failed to open, and the
\* manager's Start too; telemetry may be off.
Init ==
  /\ transport \in Transports
  /\ main = "signals" /\ sig = "off" /\ step = "off" /\ exit = "no"
  /\ store \in {"absent", "open"}
  /\ pump \in IF store = "open" THEN {"absent", "running"} ELSE {"absent"}
  /\ worker = "off" /\ stopChans = 0
  /\ stopCh = FALSE /\ batch = FALSE
  /\ http = "absent"
  /\ call = [c \in Callers |-> "idle"] /\ calls = 0
  /\ loop \in {"disabled", "off"}
  /\ cancelSet = FALSE /\ cancelled = FALSE
  /\ pending = 0 /\ sending = <<>>

-----------------------------------------------------------------------------
(***************************************************************************)
(* main: Server.Start.                                                     *)
(***************************************************************************)

\* SetupTools refuses an allowlist that names no tool: log.Fatal.
SetupFails ==
  /\ Alive /\ main = "signals"
  /\ exit' = "fatal"
  /\ UNCHANGED <<transport, main, sig, step, store, comps, served, tel>>

\* setupGracefulShutdown.
ArmSignals ==
  /\ Alive /\ main = "signals"
  /\ sig' = "armed"
  /\ main' = "discovery"
  /\ UNCHANGED <<transport, step, exit, store, comps, served, tel>>

\* discovery.Start: the worker begins with a walk.
StartDiscovery ==
  /\ Alive /\ main = "discovery"
  /\ worker' = "walking"
  /\ main' = "cancel"
  /\ UNCHANGED <<transport, sig, step, exit, store, stopChans, pump, stopCh,
                 batch, http, served, tel>>

SetCancel ==
  /\ Alive /\ main = "cancel"
  /\ cancelSet' = TRUE
  /\ main' = "telemetry"
  /\ UNCHANGED <<transport, sig, step, exit, store, comps, served, loop,
                 cancelled, pending, sending>>

\* telemetry.Start.
StartTelemetry ==
  /\ Alive /\ main = "telemetry"
  /\ loop' = IF loop = "disabled" THEN loop ELSE "running"
  /\ main' = IF transport = "stdio" THEN "serving" ELSE "handle"
  /\ UNCHANGED <<transport, sig, step, exit, store, comps, served, cancelSet,
                 cancelled, pending, sending>>

\* startHTTP keeps the handle for shutdown ...
KeepHandle ==
  /\ Alive /\ main = "handle"
  /\ http' = "handle"
  /\ main' = "listen"
  /\ UNCHANGED <<transport, sig, step, exit, store, worker, stopChans, pump,
                 stopCh, batch, served, tel>>

\* ... and listens, unless the port is taken: log.Fatal.
Listen ==
  /\ Alive /\ main = "listen"
  /\ \/ http' = "listening" /\ main' = "serving" /\ UNCHANGED exit
     \/ exit' = "fatal" /\ UNCHANGED <<http, main>>
  /\ UNCHANGED <<transport, sig, step, store, worker, stopChans, pump, stopCh,
                 batch, served, tel>>

\* httpServer.Start returns ErrServerClosed as soon as Shutdown is called, and
\* main takes it for a failure to start: log.Fatal.
ServerClosed ==
  /\ Alive /\ main = "serving" /\ http = "closed"
  /\ exit' = "fatal"
  /\ UNCHANGED <<transport, main, sig, step, store, comps, served, tel>>

\* Mutant: shutdown without shutdownOnce.
OnceForgotten == step' = "discovery"

\* shutdownOnce.Do: the first caller runs shutdown, others wait for its end.
Once == step' = IF step = "off" THEN "discovery" ELSE step

\* serveStdio: stdin ends.
StdinEnds ==
  /\ Alive /\ main = "serving" /\ transport = "stdio"
  /\ Once
  /\ main' = "shutdown"
  /\ UNCHANGED <<transport, sig, exit, store, comps, served, tel>>

\* The first SIGTERM or interrupt; later ones stay in the channel.
Signal ==
  /\ Alive /\ sig = "armed"
  /\ Once
  /\ sig' = "shutdown"
  /\ UNCHANGED <<transport, main, exit, store, comps, served, tel>>

\* shutdown returns to both callers: os.Exit(0), or main returns.
Exit ==
  /\ Alive /\ step = "done"
  /\ sig = "shutdown" \/ main = "shutdown"
  /\ exit' = "done"
  /\ UNCHANGED <<transport, main, sig, step, store, comps, served, tel>>

-----------------------------------------------------------------------------
(***************************************************************************)
(* shutdown, in order.                                                     *)
(***************************************************************************)
At(s)   == Alive /\ step = s
Then(s) == step' = s /\ UNCHANGED <<transport, main, sig, exit>>

\* discovery.Stop closes stopChan ...
StopDiscovery ==
  /\ At("discovery")
  /\ stopChans' = stopChans + 1
  /\ Then("worker")
  /\ UNCHANGED <<store, worker, pump, stopCh, batch, http, served, tel>>

\* Mutant: nothing is joined.
JoinedAnyway(c) == TRUE

\* A WaitGroup's Wait returns: the goroutine ended, or never started.
Joined(c) == c \in {"off", "absent", "done"}

\* ... and joins the worker, however long its walk takes.
JoinWorker ==
  /\ At("worker")
  /\ Joined(worker)
  /\ Then("manager")
  /\ UNCHANGED <<store, comps, served, tel>>

\* subscriptionManager.Stop closes stopCh ...
StopManager ==
  /\ At("manager")
  /\ stopCh' = (pump # "absent")
  /\ Then("pump")
  /\ UNCHANGED <<store, worker, stopChans, pump, batch, http, served, tel>>

\* ... and joins the pump (and the watcher, see Connection).
JoinPump ==
  /\ At("pump")
  /\ Joined(pump)
  /\ Then("http")
  /\ UNCHANGED <<store, comps, served, tel>>

\* httpServer.Shutdown; before Start it finds no server to close.
ShutdownHttp ==
  /\ At("http")
  /\ http' = IF http = "listening" THEN "closed" ELSE http
  /\ Then("disconnect")
  /\ UNCHANGED <<store, worker, stopChans, pump, stopCh, batch, served, tel>>

\* The calls in flight have ended, or the five seconds for them are over;
\* opcuaClient.Disconnect (see Connection).
Disconnect ==
  /\ At("disconnect")
  /\ Then("store")
  /\ UNCHANGED <<store, comps, served, tel>>

CloseStore ==
  /\ At("store")
  /\ store' = IF store = "open" THEN "closed" ELSE store
  /\ Then("cancel")
  /\ UNCHANGED <<comps, served, tel>>

\* Mutant: the telemetry context is not cancelled.
CancelForgotten == UNCHANGED cancelled

\* telemetryCancel, if Start has set it.
Cancel == cancelled' = cancelSet

CancelTelemetry ==
  /\ At("cancel")
  /\ Cancel
  /\ Then("flush")
  /\ UNCHANGED <<store, comps, served, loop, cancelSet, pending, sending>>

\* Mutant: telemetry.Close only waits for the loop.
LoopEnded == loop # "running"

\* telemetry.Close: the loop and every send have ended.
Flushed == loop # "running" /\ sending = <<>>

CloseTelemetry ==
  /\ At("flush")
  /\ Flushed
  /\ Then("done")
  /\ UNCHANGED <<store, comps, served, tel>>

-----------------------------------------------------------------------------
(***************************************************************************)
(* The components.                                                         *)
(***************************************************************************)
Worker(from, to) ==
  /\ Alive /\ worker = from /\ worker' = to
  /\ UNCHANGED <<life, store, stopChans, pump, stopCh, batch, http, served, tel>>

WalkEnds   == Worker("walking", "idle")
WorkerTick == Worker("idle", "walking")
WorkerExit == stopChans > 0 /\ Worker("idle", "done")

Pump(b) ==
  /\ Alive /\ pump = "running"
  /\ batch' = b
  /\ UNCHANGED <<life, store, worker, stopChans, stopCh, http, served, tel>>

\* A notification is taken; the batch is stored.
PumpTake  == Pump(TRUE) /\ UNCHANGED pump
PumpFlush == batch /\ Pump(FALSE) /\ UNCHANGED pump

\* stopCh is closed: a last flush.
PumpExit == stopCh /\ Pump(FALSE) /\ pump' = "done"

\* The transport hands a tool call to its handler.  Signals do not stop the
\* stdio transport from reading.
Accepting ==
  \/ transport = "stdio" /\ main = "serving"
  \/ transport = "http" /\ http = "listening"

CallStart(c) ==
  /\ Alive /\ Accepting
  /\ call[c] = "idle" /\ calls < MaxCalls
  /\ call' = [call EXCEPT ![c] = "running"]
  /\ calls' = calls + 1
  /\ UNCHANGED <<life, store, comps, tel>>

\* telemetryMiddleware counts the call when its handler returns.
CallEnd(c) ==
  /\ Alive /\ call[c] = "running"
  /\ call' = [call EXCEPT ![c] = "idle"]
  /\ pending' = IF loop = "disabled" \/ cancelled THEN pending ELSE pending + 1
  /\ UNCHANGED <<life, store, comps, calls, loop, cancelSet,
                 cancelled, sending>>

\* flush: the counters are read and reset, and the payload is sent by a
\* goroutine of its own.
Flush ==
  /\ Alive /\ loop = "running"
  /\ sending' = Append(sending, pending)
  /\ pending' = 0
  /\ UNCHANGED <<life, store, comps, served, cancelSet, cancelled>>

FlushTick == Len(sending) < MaxSends /\ Flush /\ UNCHANGED loop
LastFlush == cancelled /\ Flush /\ loop' = "done"

\* A send succeeds, fails or times out; it is not tried again.
SendEnds ==
  /\ Alive
  /\ \E i \in DOMAIN sending : sending' = RemoveAt(sending, i)
  /\ UNCHANGED <<life, store, comps, served, loop, cancelSet, cancelled, pending>>

-----------------------------------------------------------------------------
Start ==
  \/ ArmSignals \/ StartDiscovery \/ SetCancel \/ StartTelemetry
  \/ KeepHandle \/ Listen

Shutdown ==
  \/ StopDiscovery \/ JoinWorker \/ StopManager \/ JoinPump \/ ShutdownHttp
  \/ Disconnect \/ CloseStore \/ CancelTelemetry \/ CloseTelemetry \/ Exit

Ended == ~Alive /\ UNCHANGED vars

Next ==
  \/ SetupFails \/ Start \/ ServerClosed
  \/ StdinEnds \/ Signal \/ Shutdown
  \/ WalkEnds \/ WorkerTick \/ WorkerExit
  \/ PumpTake \/ PumpFlush \/ PumpExit
  \/ \E c \in Callers : CallStart(c) \/ CallEnd(c)
  \/ FlushTick \/ LastFlush \/ SendEnds
  \/ Ended

\* Walks and sends are bounded by their timeouts; a select does not pass over
\* a closed channel forever.
Fairness ==
  /\ WF_vars(Start) /\ WF_vars(Shutdown) /\ WF_vars(WalkEnds)
  /\ SF_vars(WorkerExit) /\ WF_vars(PumpExit)
  /\ WF_vars(LastFlush) /\ WF_vars(SendEnds)

Spec     == Init /\ [][Next]_vars
FairSpec == Spec /\ Fairness
-----------------------------------------------------------------------------
(***************************************************************************)
(* Correctness.                                                            *)
(***************************************************************************)

\* Every variable keeps its type; in particular stopChan is closed at most
\* once (a second close panics), whoever calls shutdown and when.
TypeOK ==
  /\ transport \in Transports
  /\ main \in {"signals", "discovery", "cancel", "telemetry", "handle",
               "listen", "serving", "shutdown"}
  /\ sig \in {"off", "armed", "shutdown"}
  /\ step \in {"off", "discovery", "worker", "manager", "pump", "http",
               "disconnect", "store", "cancel", "flush", "done"}
  /\ exit \in {"no", "done", "fatal"}
  /\ store \in {"absent", "open", "closed"}
  /\ worker \in {"off", "walking", "idle", "done"} /\ stopChans \in 0 .. 1
  /\ pump \in {"absent", "running", "done"}
  /\ stopCh \in BOOLEAN /\ batch \in BOOLEAN
  /\ http \in {"absent", "handle", "listening", "closed"}
  /\ call \in [Callers -> {"idle", "running"}] /\ calls \in 0 .. MaxCalls
  /\ loop \in {"disabled", "off", "running", "done"}
  /\ cancelSet \in BOOLEAN /\ cancelled \in BOOLEAN
  /\ pending \in Nat /\ sending \in Seq(Nat)

\* The pump never writes to a closed store, and what it had taken by then is
\* stored: shutdown joins it before the store closes.
StoreOutlivesPump == store = "closed" => pump # "running" /\ ~batch

\* A process that ends by shutdown has sent every tool call counted before the
\* telemetry context was cancelled.
FinalFlush ==
  (exit = "done" /\ cancelled) =>
    pending = 0 /\ \A i \in DOMAIN sending : sending[i] = 0

\* Shutdown of a server that serves ends the process, whatever walk, batch,
\* tool call or send is under way.
ShutdownEnds ==
  (step = "discovery" /\ main \in {"serving", "shutdown"}) ~> ~Alive

\* The comment of shutdown: it stops every component and flushes telemetry one
\* last time.  A serving process that began it does not end before it is done.
ShutdownFinishes == (~Alive /\ main = "serving" /\ step # "off") => step = "done"
-----------------------------------------------------------------------------
(***************************************************************************)
(* The inductive invariant behind StoreOutlivesPump and FinalFlush.        *)
(***************************************************************************)

\* Until main has started telemetry nothing is served, counted or sent, and
\* disabled telemetry never counts.
StartInv ==
  /\ main \in {"signals", "discovery", "cancel", "telemetry"} =>
       /\ http = "absent" /\ loop \in {"disabled", "off"}
       /\ \A c \in Callers : call[c] = "idle"
  /\ loop = "off" => main \in {"signals", "discovery", "cancel", "telemetry"}
  /\ loop \in {"disabled", "off"} => pending = 0 /\ sending = <<>>

\* What shutdown has done by each step.
StepInv ==
  /\ step \in {"off", "discovery"} => stopChans = 0
  /\ step \in {"http", "disconnect", "store", "cancel", "flush", "done"} =>
       pump # "running"
  /\ pump # "running" => ~batch
  /\ store = "closed" => step \in {"cancel", "flush", "done"}

\* The context is cancelled by shutdown alone, after that nothing is counted,
\* and the loop ends with a flush; so when shutdown is done nothing that was
\* counted is left to send.
FlushInv ==
  /\ cancelled => step \in {"flush", "done"}
  /\ loop = "done" => cancelled /\ pending = 0
  /\ step = "done" /\ cancelled => pending = 0 /\ sending \in Seq({0})
  /\ exit = "done" => step = "done"

IndInv == StartInv /\ StepInv /\ FlushInv
=============================================================================
