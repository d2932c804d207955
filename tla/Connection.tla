----------------------------- MODULE Connection -----------------------------
(***************************************************************************)
(* The OPC-UA connection of internal/opcua: Client's connect, disconnect   *)
(* and session recovery (client.go, session_recovery.go) together with the *)
(* ReconnectWatcher (reconnect_watcher.go) and the state forwarders that   *)
(* connect the two.                                                        *)
(*                                                                         *)
(* A connection is named by its generation, the value connGen.Add(1)       *)
(* returned when it was dialed; 0 stands for a nil client.  Callers are    *)
(* request handlers (tools, discovery, shutdown); the Watcher is the       *)
(* goroutine that runs ReconnectWatcher.watch.  Each runs one operation at *)
(* a time, and pc, op, gen, snap, fresh, attempt, failed and runs are its  *)
(* locals.                                                                 *)
(***************************************************************************)
EXTENDS Naturals, Sequences, FiniteSets

CONSTANTS
  Callers,      \* goroutines that call the Client
  Watcher,      \* the ReconnectWatcher goroutine
  NoProc,       \* connectMu is free
  Retries,      \* the values of OPCUA_MAX_RETRIES to consider
  StateChCap,   \* capacity of the watcher's channel (16 in the code)
  HttpMode,     \* TRUE: main connects before the watcher registers
  MaxGen,       \* bound: generations
  MaxOps,       \* bound: operations begun by callers
  MaxFaults     \* bound: sessions lost and connections that die

Procs == Callers \cup {Watcher}
Gen   == 1 .. MaxGen
Gen0  == 0 .. MaxGen

ASSUME ProcAssumption == Watcher \notin Callers /\ NoProc \notin Procs
ASSUME BoundAssumption ==
  /\ MaxGen \in Nat \ {0} /\ MaxOps \in Nat /\ MaxFaults \in Nat
  /\ Retries \subseteq Nat /\ StateChCap \in Nat /\ HttpMode \in BOOLEAN

VARIABLES
  connectMu,      \* the holder of Client.connectMu
  connGen,        \* Client.connGen
  clientGen,      \* Client.clientGen
  client,         \* Client.client: the published connection, 0 if nil
  connected,      \* Client.connected
  conn,           \* what has become of each connection
  watched,        \* connections dialed with a state forwarder
  notify,         \* where a dead connection's forwarder call stands
  stateCh,        \* ReconnectWatcher.stateCh
  everConnected,  \* watch's local
  watching,       \* the watcher's life: on, stopping, off
  pc, op, gen, snap, fresh, attempt, failed, runs,
  outcome,        \* what the last operation told its caller
  recoveries,     \* history: session recoveries begun, per generation
  maxRetries,     \* config OPCUA_MAX_RETRIES: attempts of one dial
  ops, faults     \* the bounds' counters

shared == <<connGen, clientGen, client, connected>>
chan   == <<watched, notify, stateCh, everConnected, watching>>
locals == <<pc, op, gen, snap, fresh, attempt, failed, runs, outcome>>
bounds == <<maxRetries, ops, faults>>
vars   == <<connectMu, shared, conn, chan, locals, recoveries, bounds>>

RecoverOps == {"read", "write", "ensure"}
Ops        == RecoverOps \cup {"connect", "rebuild", "disconnect"}
Status     == {"none", "live", "stale", "dead", "closed"}
Labels     == {"idle", "fn", "call", "lock", "dial", "connecting",
               "publish", "retire", "close", "handler"}
\* Labels at which a process holds connectMu.
Critical   == {"dial", "connecting", "publish", "retire", "close"}
Outcomes   == {"none", "done", "error", "reconnected"}
ConnState  == {"Connecting", "Connected", "Closed"}

-----------------------------------------------------------------------------
(***************************************************************************)
(* main: in HTTP mode the first connection is dialed before                *)
(* ReconnectWatcher.Start registers stateCh, so it has no forwarder (or    *)
(* the dial failed).  In stdio mode nothing is connected.                  *)
(***************************************************************************)
Init ==
  /\ maxRetries \in Retries
  /\ connectMu = NoProc
  /\ watched = {}
  /\ notify = [g \in Gen |-> "none"]
  /\ stateCh = <<>>
  /\ everConnected = FALSE
  /\ watching = "on"
  /\ pc = [p \in Procs |-> "idle"]
  /\ op = [p \in Procs |-> "read"]
  /\ gen = [p \in Procs |-> 0]
  /\ snap = [p \in Procs |-> 0]
  /\ fresh = [p \in Procs |-> 0]
  /\ attempt = [p \in Procs |-> 0]
  /\ failed = [p \in Procs |-> FALSE]
  /\ runs = [p \in Procs |-> 0]
  /\ outcome = [p \in Procs |-> "none"]
  /\ recoveries = [g \in Gen0 |-> 0]
  /\ ops = 0 /\ faults = 0
  /\ \/ /\ ~HttpMode
        /\ connGen = 0 /\ clientGen = 0 /\ client = 0 /\ connected = FALSE
        /\ conn = [g \in Gen |-> "none"]
     \/ /\ HttpMode
        /\ connGen = 1 /\ clientGen = 1
        /\ connected \in BOOLEAN
        /\ client = IF connected THEN 1 ELSE 0
        /\ conn = [g \in Gen |-> IF g = 1 /\ connected /\ maxRetries > 0
                               THEN "live" ELSE "none"]

-----------------------------------------------------------------------------
(***************************************************************************)
(* Operations of a caller up to the point where they need connectMu.  A    *)
(* "read" stands for every request that withSessionRecovery wraps (Read,   *)
(* Browse, GetNode...), a "write" for sendWrite, an "ensure" for           *)
(* opcua_connect with its health check (probe).                            *)
(***************************************************************************)

\* IsConnected.
IsConnected == connected /\ client # 0

\* p returns to its caller with outcome o.
Finish(p, o) ==
  /\ pc' = [pc EXCEPT ![p] = "idle"]
  /\ outcome' = [outcome EXCEPT ![p] = o]

\* withSessionRecovery, sendWrite and EnsureConnected all start with liveGen().
Begin(p, o) ==
  /\ pc[p] = "idle"
  /\ ops < MaxOps
  /\ ops' = ops + 1
  /\ op' = [op EXCEPT ![p] = o]
  /\ gen' = [gen EXCEPT ![p] = clientGen]
  /\ runs' = [runs EXCEPT ![p] = 0]
  /\ outcome' = [outcome EXCEPT ![p] = "none"]
  /\ pc' = [pc EXCEPT ![p] = IF o = "disconnect" THEN "lock" ELSE "fn"]
  /\ UNCHANGED <<connectMu, shared, conn, chan, snap, fresh, attempt, failed,
                 recoveries, maxRetries, faults>>

\* snapshot() and the not-connected return; EnsureConnected connects instead.
Snapshot(p) ==
  /\ pc[p] = "fn"
  /\ IF IsConnected
       THEN /\ snap' = [snap EXCEPT ![p] = client]
            /\ runs' = [runs EXCEPT ![p] = @ + 1]
            /\ pc' = [pc EXCEPT ![p] = "call"]
            /\ UNCHANGED <<op, outcome>>
       ELSE /\ UNCHANGED <<snap, runs>>
            /\ IF op[p] = "ensure"
                 THEN /\ op' = [op EXCEPT ![p] = "connect"]
                      /\ pc' = [pc EXCEPT ![p] = "lock"]
                      /\ UNCHANGED outcome
                 ELSE /\ Finish(p, "error")
                      /\ UNCHANGED op
  /\ UNCHANGED <<connectMu, shared, conn, chan, gen, fresh, attempt, failed,
                 recoveries, bounds>>

\* The server executed the request: read or written, or the probe passed.
ReplyOk(p) ==
  /\ pc[p] = "call"
  /\ conn[snap[p]] = "live"
  /\ Finish(p, "done")
  /\ UNCHANGED <<connectMu, shared, conn, chan, op, gen, snap, fresh, attempt,
                 failed, runs, recoveries, bounds>>

\* An error that is not a stale session is returned as it is, or, by a read of
\* several nodes, turned into one result per node (readIndividually); for the
\* health check of EnsureConnected any failure is a reason to reconnect.
ReplyError(p) ==
  /\ pc[p] = "call"
  /\ \/ /\ op[p] = "ensure"
        /\ pc' = [pc EXCEPT ![p] = "lock"] /\ UNCHANGED outcome
     \/ op[p] # "ensure" /\ Finish(p, "error")
     \/ op[p] = "read" /\ Finish(p, "done")
  /\ UNCHANGED <<connectMu, shared, conn, chan, op, gen, snap, fresh, attempt,
                 failed, runs, recoveries, bounds>>

\* isStaleSessionError: the session is gone or the client has no channel.
\* withSessionRecovery runs fn at most twice; sendWrite sends once.
ReplyStale(p) ==
  /\ pc[p] = "call"
  /\ conn[snap[p]] # "live"
  /\ IF op[p] = "read" /\ runs[p] = 2
       THEN Finish(p, "error")
       ELSE pc' = [pc EXCEPT ![p] = "lock"] /\ UNCHANGED outcome
  /\ UNCHANGED <<connectMu, shared, conn, chan, op, gen, snap, fresh, attempt,
                 failed, runs, recoveries, bounds>>

\* Mutant: sendWrite retries like a read.
AfterRecoverRetryingWrites(p) ==
  IF op[p] \in {"read", "write"}
    THEN pc' = [pc EXCEPT ![p] = "fn"] /\ UNCHANGED outcome
    ELSE Finish(p, "reconnected")

\* What follows a recoverConnection that returned nil: a read runs again, a
\* write reports that it was not applied, EnsureConnected reports success.
AfterRecover(p) ==
  IF op[p] = "read"
    THEN pc' = [pc EXCEPT ![p] = "fn"] /\ UNCHANGED outcome
    ELSE Finish(p, "reconnected")

-----------------------------------------------------------------------------
(***************************************************************************)
(* recoverConnection, Connect and Disconnect under connectMu.              *)
(***************************************************************************)

\* connectLocked up to the dial: connGen.Add(1).
StartConnect(p) ==
  /\ connectMu = NoProc
  /\ connGen < MaxGen
  /\ connectMu' = p
  /\ connGen' = connGen + 1
  /\ fresh' = [fresh EXCEPT ![p] = connGen + 1]
  /\ attempt' = [attempt EXCEPT ![p] = 0]
  /\ failed' = [failed EXCEPT ![p] = FALSE]
  /\ watched' = watched \cup {connGen + 1}
  /\ pc' = [pc EXCEPT ![p] = "dial"]
  /\ UNCHANGED <<clientGen, client, connected, conn, notify, stateCh,
                 everConnected, watching, op, gen, snap, runs, outcome, bounds>>

\* Mutant: recoverConnection does not compare generations.
ReplacedNever(p) == FALSE

\* Another caller has replaced (or retired) the connection p failed on.
Replaced(p) == clientGen # gen[p]

\* recoverConnection returns without reconnecting: nil when the connection has
\* been replaced, "client is not connected" when it has been retired.  (The
\* second never runs: whatever retires a connection also bumps clientGen.)
RecoverSkip(p) ==
  /\ pc[p] = "lock" /\ op[p] \in RecoverOps
  /\ connectMu = NoProc
  /\ Replaced(p) \/ ~IsConnected
  /\ IF Replaced(p) THEN AfterRecover(p) ELSE Finish(p, "error")
  /\ UNCHANGED <<connectMu, shared, conn, chan, op, gen, snap, fresh, attempt,
                 failed, runs, recoveries, bounds>>

\* Mutant: recoverConnection reconnects without looking at the client first.
RecoverBlindly(p) ==
  /\ pc[p] = "lock" /\ op[p] \in RecoverOps
  /\ StartConnect(p)
  /\ recoveries' = [recoveries EXCEPT ![gen[p]] = @ + 1]

RecoverStart(p) ==
  /\ pc[p] = "lock" /\ op[p] \in RecoverOps
  /\ ~Replaced(p) /\ IsConnected
  /\ StartConnect(p)
  /\ recoveries' = [recoveries EXCEPT ![gen[p]] = @ + 1]

Connect(p) ==
  /\ pc[p] = "lock" /\ op[p] \in {"connect", "rebuild"}
  /\ StartConnect(p)
  /\ UNCHANGED recoveries

\* Mutant: Disconnect leaves the generation alone.
TakeDownKeepingGen == connected' = FALSE /\ UNCHANGED clientGen

\* The client is down as of a new generation.
TakeDown == connected' = FALSE /\ clientGen' = connGen + 1

\* Disconnect: the connection is retired under mu, then closed if it was up.
Disconnect(p) ==
  /\ pc[p] = "lock" /\ op[p] = "disconnect"
  /\ connectMu = NoProc
  /\ connGen < MaxGen
  /\ connectMu' = p
  /\ connGen' = connGen + 1
  /\ TakeDown
  /\ snap' = [snap EXCEPT ![p] = IF connected THEN client ELSE 0]
  /\ pc' = [pc EXCEPT ![p] = "close"]
  /\ UNCHANGED <<client, conn, chan, op, gen, fresh, attempt, failed, runs,
                 outcome, recoveries, bounds>>

-----------------------------------------------------------------------------
(***************************************************************************)
(* dialGopcua.  gopcua reports Connecting, then Connected, or Closed when  *)
(* the session cannot be created; the calling goroutine sends each state,  *)
(* and blocks while the channel is full.  No one else can bump connGen     *)
(* during a dial, so the forwarder's generation check passes.              *)
(***************************************************************************)
Emit(s) ==
  /\ Len(stateCh) < StateChCap
  /\ stateCh' = Append(stateCh, s)

\* Mutant: one attempt too many.
MoreAttemptsInclusive(p) == attempt[p] <= maxRetries

\* The condition of the retry loop.
MoreAttempts(p) == attempt[p] < maxRetries

\* Certificates, endpoint lookup or NewClient fail before any attempt.
DialSetupFails(p) ==
  /\ pc[p] = "dial" /\ attempt[p] = 0
  /\ failed' = [failed EXCEPT ![p] = TRUE]
  /\ pc' = [pc EXCEPT ![p] = "publish"]
  /\ UNCHANGED <<connectMu, shared, conn, chan, op, gen, snap, fresh, attempt,
                 runs, outcome, recoveries, bounds>>

\* OPCUA_MAX_RETRIES=0: the loop never runs and the unopened client is returned.
DialNothing(p) ==
  /\ pc[p] = "dial" /\ attempt[p] = 0 /\ maxRetries = 0
  /\ pc' = [pc EXCEPT ![p] = "publish"]
  /\ UNCHANGED <<connectMu, shared, conn, chan, op, gen, snap, fresh, attempt,
                 failed, runs, outcome, recoveries, bounds>>

DialAttempt(p) ==
  /\ pc[p] = "dial" /\ MoreAttempts(p)
  /\ attempt' = [attempt EXCEPT ![p] = @ + 1]
  /\ Emit("Connecting")
  /\ pc' = [pc EXCEPT ![p] = "connecting"]
  /\ UNCHANGED <<connectMu, shared, conn, watched, notify, everConnected,
                 watching, op, gen, snap, fresh, failed, runs, outcome,
                 recoveries, bounds>>

DialOk(p) ==
  /\ pc[p] = "connecting"
  /\ conn' = [conn EXCEPT ![fresh[p]] = "live"]
  /\ Emit("Connected")
  /\ pc' = [pc EXCEPT ![p] = "publish"]
  /\ UNCHANGED <<connectMu, shared, watched, notify, everConnected, watching,
                 op, gen, snap, fresh, attempt, failed, runs, outcome,
                 recoveries, bounds>>

\* A failed attempt: no channel (no state), or no session (Closed).  The last
\* one ends the dial with an error.
DialFails(p) ==
  /\ pc[p] = "connecting"
  /\ UNCHANGED stateCh \/ Emit("Closed")
  /\ pc' = [pc EXCEPT ![p] = IF MoreAttempts(p) THEN "dial" ELSE "publish"]
  /\ failed' = [failed EXCEPT ![p] = ~MoreAttempts(p)]
  /\ UNCHANGED <<connectMu, shared, conn, watched, notify, everConnected,
                 watching, op, gen, snap, fresh, attempt, runs, outcome,
                 recoveries, bounds>>

-----------------------------------------------------------------------------
(***************************************************************************)
(* The rest of connectLocked and of its callers.                           *)
(***************************************************************************)

\* Mutant: clientGen is not set together with client.
SwapInClientOnly(p) ==
  /\ client' = IF failed[p] THEN 0 ELSE fresh[p]
  /\ connected' = ~failed[p]
  /\ UNCHANGED clientGen

\* The assignments of connectLocked under mu.
SwapIn(p) ==
  /\ client' = IF failed[p] THEN 0 ELSE fresh[p]
  /\ connected' = ~failed[p]
  /\ clientGen' = fresh[p]

\* connectLocked swaps the new connection in and remembers the old one.
Publish(p) ==
  /\ pc[p] = "publish"
  /\ snap' = [snap EXCEPT ![p] = client]
  /\ SwapIn(p)
  /\ pc' = [pc EXCEPT ![p] = "retire"]
  /\ UNCHANGED <<connectMu, connGen, conn, chan, op, gen, fresh, attempt,
                 failed, runs, outcome, recoveries, bounds>>

\* Mutant: the replaced connection is not closed.
CloseForgotten(g) == UNCHANGED conn

\* Closing a connection; 0 is nil.  Its Closed state is dropped by its
\* forwarder, because connGen has moved on.
CloseConn(g) ==
  conn' = [h \in Gen |-> IF h = g THEN "closed" ELSE conn[h]]

\* Mutant: connectMu is not released.
UnlockForgotten == UNCHANGED connectMu

Unlock == connectMu' = NoProc

\* watch's reset after onPermanentDeath returns.
WatchAgain ==
  /\ pc' = [pc EXCEPT ![Watcher] = "idle"]
  /\ everConnected' = FALSE

\* closeRetired, then connectMu is released.  A successful recovery or
\* rebuild goes on to restore the subscriptions ("handler"); the reconnect
\* handler is registered until SubscriptionManager.Stop.
Retire(p) ==
  /\ pc[p] = "retire"
  /\ CloseConn(snap[p])
  /\ Unlock
  /\ \/ /\ op[p] = "connect"
        /\ Finish(p, IF failed[p] THEN "error" ELSE "done")
        /\ UNCHANGED everConnected
     \/ /\ op[p] = "rebuild" /\ failed[p]
        /\ WatchAgain
        /\ UNCHANGED outcome
     \/ /\ op[p] \in RecoverOps /\ failed[p]
        /\ Finish(p, "error")
        /\ UNCHANGED everConnected
     \/ /\ ~failed[p]
        /\ op[p] = "rebuild" \/ (op[p] \in RecoverOps /\ watching = "on")
        /\ pc' = [pc EXCEPT ![p] = "handler"]
        /\ UNCHANGED <<outcome, everConnected>>
     \/ /\ ~failed[p]
        /\ op[p] \in RecoverOps /\ watching # "on"
        /\ AfterRecover(p)
        /\ UNCHANGED everConnected
  /\ UNCHANGED <<shared, watched, notify, stateCh, watching, op, gen, snap,
                 fresh, attempt, failed, runs, recoveries, bounds>>

\* restoreFromIntent has run (modelled in Subscriptions), without connectMu.
Handler(p) ==
  /\ pc[p] = "handler"
  /\ IF op[p] = "rebuild"
       THEN WatchAgain /\ UNCHANGED outcome
       ELSE AfterRecover(p) /\ UNCHANGED everConnected
  /\ UNCHANGED <<connectMu, shared, conn, watched, notify, stateCh, watching,
                 op, gen, snap, fresh, attempt, failed, runs, recoveries,
                 bounds>>

\* Disconnect's Close and the release of connectMu.
CloseDone(p) ==
  /\ pc[p] = "close"
  /\ CloseConn(snap[p])
  /\ Unlock
  /\ Finish(p, "done")
  /\ UNCHANGED <<shared, chan, op, gen, snap, fresh, attempt, failed, runs,
                 recoveries, bounds>>

-----------------------------------------------------------------------------
(***************************************************************************)
(* ReconnectWatcher.                                                       *)
(***************************************************************************)

\* watch: only Closed after a Connected starts a rebuild.
Watch ==
  /\ watching # "off" /\ pc[Watcher] = "idle"
  /\ stateCh # <<>>
  /\ stateCh' = Tail(stateCh)
  /\ everConnected' = (everConnected \/ Head(stateCh) = "Connected")
  /\ IF Head(stateCh) = "Closed" /\ everConnected
       THEN /\ pc' = [pc EXCEPT ![Watcher] = "lock"]
            /\ op' = [op EXCEPT ![Watcher] = "rebuild"]
       ELSE UNCHANGED <<pc, op>>
  /\ UNCHANGED <<connectMu, shared, conn, watched, notify, watching, gen, snap,
                 fresh, attempt, failed, runs, outcome, recoveries, bounds>>

\* SubscriptionManager.Stop unregisters the handler and closes stopCh.
Stop ==
  /\ watching = "on"
  /\ watching' = "stopping"
  /\ UNCHANGED <<connectMu, shared, conn, watched, notify, stateCh,
                 everConnected, locals, recoveries, bounds>>

WatchExit ==
  /\ watching = "stopping" /\ pc[Watcher] = "idle"
  /\ watching' = "off"
  /\ UNCHANGED <<connectMu, shared, conn, watched, notify, stateCh,
                 everConnected, locals, recoveries, bounds>>

\* Mutant: the forwarder keeps the states of retired connections only.
RetiredOnly(g) == connGen # g

\* stateForwarder's condition.
StillLive(g) == connGen = g

\* stateForwarder's check of connGen for the Closed of a dead connection ...
Forward(g) ==
  /\ notify[g] = "check"
  /\ notify' = [notify EXCEPT ![g] = IF StillLive(g) THEN "send" ELSE "none"]
  /\ UNCHANGED <<connectMu, shared, conn, watched, stateCh, everConnected,
                 watching, locals, recoveries, bounds>>

\* ... and its send, which may happen any time later.
Send(g) ==
  /\ notify[g] = "send"
  /\ Emit("Closed")
  /\ notify' = [notify EXCEPT ![g] = "none"]
  /\ UNCHANGED <<connectMu, shared, conn, watched, everConnected, watching,
                 locals, recoveries, bounds>>

-----------------------------------------------------------------------------
(***************************************************************************)
(* gopcua and the server: a session is lost, gopcua's own reconnect        *)
(* restores it, or gopcua gives the connection up for good.                *)
(***************************************************************************)
LoseSession(g) ==
  /\ conn[g] = "live" /\ faults < MaxFaults
  /\ conn' = [conn EXCEPT ![g] = "stale"]
  /\ faults' = faults + 1
  /\ UNCHANGED <<connectMu, shared, chan, locals, recoveries, maxRetries, ops>>

AutoReconnect(g) ==
  /\ conn[g] = "stale"
  /\ conn' = [conn EXCEPT ![g] = "live"]
  /\ UNCHANGED <<connectMu, shared, chan, locals, recoveries, bounds>>

Die(g) ==
  /\ conn[g] \in {"live", "stale"} /\ faults < MaxFaults
  /\ conn' = [conn EXCEPT ![g] = "dead"]
  /\ faults' = faults + 1
  /\ notify' = [notify EXCEPT ![g] = IF g \in watched THEN "check" ELSE @]
  /\ UNCHANGED <<connectMu, shared, watched, stateCh, everConnected, watching,
                 locals, recoveries, maxRetries, ops>>

-----------------------------------------------------------------------------
Operation(p) ==
  \/ Snapshot(p) \/ ReplyOk(p) \/ ReplyError(p) \/ ReplyStale(p)
  \/ DialSetupFails(p) \/ DialNothing(p) \/ DialAttempt(p) \/ DialOk(p)
  \/ DialFails(p) \/ Publish(p) \/ Retire(p) \/ Handler(p) \/ CloseDone(p)

Acquire(p) ==
  RecoverSkip(p) \/ RecoverStart(p) \/ Connect(p) \/ Disconnect(p)

\* Every goroutine waits for work.
Quiescent == (\A p \in Procs : pc[p] = "idle") /\ UNCHANGED vars

Next ==
  \/ \E p \in Callers, o \in RecoverOps \cup {"disconnect"} : Begin(p, o)
  \/ \E p \in Procs : Operation(p) \/ Acquire(p)
  \/ Watch \/ Stop \/ WatchExit
  \/ \E g \in Gen : Forward(g) \/ Send(g)
  \/ \E g \in Gen : LoseSession(g) \/ AutoReconnect(g) \/ Die(g)
  \/ Quiescent

\* Calls, dials and closes are bounded by the request timeout.  An attempt that
\* has a state to send ends by sending it: nothing turns it into one that finds
\* no server and sends none.
Proceeds(p) == Operation(p) /\ (pc[p] = "connecting" => stateCh' # stateCh)

\* Go's mutex hands itself to a waiter that has waited long enough.
Fairness ==
  /\ \A p \in Procs : WF_vars(Proceeds(p)) /\ SF_vars(Acquire(p))
  /\ WF_vars(Watch) /\ WF_vars(WatchExit)
  /\ \A g \in Gen : WF_vars(Forward(g)) /\ WF_vars(Send(g))

Spec     == Init /\ [][Next]_vars
FairSpec == Spec /\ Fairness
-----------------------------------------------------------------------------
(***************************************************************************)
(* Correctness.                                                            *)
(***************************************************************************)

\* Every variable keeps its type: generations within the counter's range,
\* locals of the ten program points, at most one holder of connectMu.
TypeOK ==
  /\ connectMu \in Procs \cup {NoProc}
  /\ connGen \in Gen0 /\ clientGen \in Gen0 /\ client \in Gen0
  /\ connected \in BOOLEAN
  /\ conn \in [Gen -> Status]
  /\ watched \in SUBSET Gen
  /\ notify \in [Gen -> {"none", "check", "send"}]
  /\ stateCh \in Seq(ConnState) /\ Len(stateCh) <= StateChCap
  /\ everConnected \in BOOLEAN
  /\ watching \in {"on", "stopping", "off"}
  /\ pc \in [Procs -> Labels] /\ op \in [Procs -> Ops]
  /\ gen \in [Procs -> Gen0] /\ snap \in [Procs -> Gen0]
  /\ fresh \in [Procs -> Gen0]
  /\ maxRetries \in Retries
  /\ attempt \in [Procs -> 0 .. maxRetries] /\ failed \in [Procs -> BOOLEAN]
  /\ runs \in [Procs -> Nat] /\ outcome \in [Procs -> Outcomes]
  /\ recoveries \in [Gen0 -> Nat]
  /\ ops \in Nat /\ faults \in Nat

\* No connection is leaked: one that is open is the published one, or the
\* goroutine that dialed it is about to publish it, or the goroutine that
\* retired it (connectLocked, Disconnect) is about to close it.
OpenIsOwned ==
  \A g \in Gen : conn[g] \in {"live", "stale"} =>
    \/ connected /\ client = g
    \/ \E p \in Procs : pc[p] = "publish" /\ ~failed[p] /\ fresh[p] = g
    \/ \E p \in Procs : pc[p] \in {"retire", "close"} /\ snap[p] = g

\* A client that reports itself connected publishes the connection its
\* clientGen names, and never one that connectLocked or Disconnect closed.
PublishedIsCurrent ==
  connected => /\ client # 0 /\ client = clientGen
               /\ conn[client] # "closed"

\* Concurrent callers that failed on the same generation reconnect once:
\* recoverConnection replaces a generation at most one time.
RecoversOnce == \A g \in Gen0 : recoveries[g] <= 1

\* A read runs at most twice and a write request is sent at most once,
\* whatever connects, disconnects and dies around it (withSessionRecovery,
\* sendWrite).
BoundedCalls ==
  \A p \in Procs : runs[p] <= (IF op[p] = "read" THEN 2 ELSE 1)

\* The connection replaced last, until the holder of connectMu has closed it.
BeingClosed ==
  IF connectMu # NoProc /\ pc[connectMu] \in {"retire", "close"}
    THEN snap[connectMu] ELSE 0

Register ==
  INSTANCE ConnectionRegister
    WITH reg <- client, up <- connected, gen <- clientGen,
         replaced <- BeingClosed,
         closed <- {g \in Gen : conn[g] = "closed"}

\* connectLocked, recoverConnection and Disconnect, with all their steps and
\* whatever runs in between, look to their callers like one register with a
\* generation: see ConnectionRegister.
ImplementsRegister == Register!Spec

\* Only Connect (asked for by the user, or the watcher's rebuild) turns a
\* client that is not connected into one that is: session recovery never
\* brings back a connection that was retired while it waited for connectMu.
RecoveryNeverConnects ==
  [][ (~connected /\ connected') =>
        \E p \in Procs : pc[p] = "publish" /\ op[p] \in {"connect", "rebuild"}
    ]_vars

\* The watcher receives nothing: it is rebuilding, or waits for connectMu to
\* rebuild, or has exited.
Deaf == pc[Watcher] \in {"lock", "dial", "connecting"} \/ watching = "off"

\* The holder of connectMu has to send a state to the full channel while the
\* watcher is deaf.
Jammed ==
  /\ Deaf /\ Len(stateCh) = StateChCap
  /\ connectMu # NoProc /\ pc[connectMu] \in {"dial", "connecting"}

\* States the attempts left to a dial can still report: Connecting, and what
\* became of it, by each.
Owed(p) ==
  CASE pc[p] = "dial"       -> 2 * (maxRetries - attempt[p])
    [] pc[p] = "connecting" -> 2 * (maxRetries - attempt[p]) + 1
    [] OTHER                -> 0

\* With what forwarders are about to send, they do not fit into the channel
\* that the deaf watcher leaves undrained.
Overfull ==
  /\ Deaf
  /\ \E p \in Procs :
       /\ Owed(p) > 0
       /\ Len(stateCh) + Owed(p) + Cardinality({g \in Gen : notify[g] = "send"})
            > StateChCap

\* The one thing that makes an operation wait forever is the watcher's channel:
\* every call, connect, disconnect, recovery and rebuild ends, unless a dial
\* under connectMu has to send to it when it is full and its only reader waits
\* for that same mutex, is the goroutine that dials, or has exited.
OperationsEnd == \A p \in Procs : pc[p] # "idle" ~> (pc[p] = "idle" \/ Jammed)

\* A published connection that dies for good is replaced or reported as down
\* while the watcher runs, without any request having to fail on it first,
\* unless the channel jams.
WatchedDeathRepaired ==
  \A g \in Gen :
    (g \in watched /\ conn[g] = "dead" /\ client = g /\ connected)
      ~> (~(client = g /\ connected) \/ watching # "on" \/ Jammed)

\* ReconnectWatcher.Stop returns, the watcher's goroutine exits once asked, as
\* long as the dials it waits for or runs itself have room in the channel for
\* two states per attempt they have left.
StopCompletes == watching = "stopping" ~> (watching = "off" \/ Overfull)

\* The comment of Disconnect: a user-initiated disconnect stays disconnected
\* until the user connects (a retired client keeps its pointer, a failed
\* dial leaves nil).
DisconnectStays ==
  [][ (~connected /\ client # 0 /\ connected') =>
        \E p \in Procs : pc[p] = "publish" /\ op[p] = "connect"
    ]_vars
-----------------------------------------------------------------------------
(***************************************************************************)
(* The inductive invariant behind the safety properties, in named parts.   *)
(***************************************************************************)
Dialing == {"dial", "connecting", "publish"}

\* connectMu is held exactly by the process inside its critical section.
LockInv == \A p \in Procs : pc[p] \in Critical <=> connectMu = p

\* clientGen lags connGen only while a dial is under way, and then by less
\* than the generation being dialed.
GenInv ==
  /\ client <= clientGen /\ clientGen <= connGen
  /\ connectMu = NoProc => clientGen = connGen
  /\ \A p \in Procs :
       /\ gen[p] <= clientGen
       /\ pc[p] \in Dialing =>
            fresh[p] = connGen /\ fresh[p] \in Gen /\ clientGen < connGen
       /\ pc[p] \in {"retire", "close"} => clientGen = connGen

\* What a generation's connection can be before and while it is dialed, and
\* which connection the holder of connectMu may close.
ConnInv ==
  /\ \A g \in Gen : g > connGen => conn[g] = "none"
  /\ \A p \in Procs :
       /\ pc[p] \in {"dial", "connecting"} =>
            conn[fresh[p]] = "none" /\ ~failed[p]
       /\ pc[p] = "publish" => conn[fresh[p]] # "closed"
       /\ pc[p] = "publish" /\ failed[p] => conn[fresh[p]] = "none"
       /\ pc[p] = "retire" => snap[p] < clientGen
       /\ pc[p] = "close" => ~connected /\ snap[p] <= clientGen

\* Which operation can be at which point; a recovery that dials does so while
\* the client is connected.
OpInv ==
  \A p \in Procs :
    /\ pc[p] \in Dialing \cup {"retire", "handler"} => op[p] # "disconnect"
    /\ pc[p] = "handler" => op[p] # "connect"
    /\ pc[p] \in Dialing /\ op[p] \in RecoverOps => connected
    /\ op[p] = "rebuild" => p = Watcher
    /\ p = Watcher => /\ pc[p] # "idle" => op[p] = "rebuild"
                      /\ pc[p] \notin {"fn", "call", "close"}
                      /\ runs[p] = 0

\* A generation that was recovered is older than the newest one.
RecoverInv == \A g \in Gen0 : recoveries[g] > 0 => g < connGen

\* How often fn can have run at each point.
CallInv ==
  \A p \in Procs :
    /\ pc[p] \in {"fn", "call"} => op[p] \in RecoverOps
    /\ op[p] = "read" /\ pc[p] \notin {"idle", "call"} => runs[p] <= 1
    /\ op[p] # "read" /\ pc[p] = "fn" => runs[p] = 0

IndInv ==
  /\ LockInv /\ GenInv /\ ConnInv /\ OpInv /\ RecoverInv /\ CallInv
  /\ OpenIsOwned /\ PublishedIsCurrent /\ RecoversOnce /\ BoundedCalls
=============================================================================
