-------------------------- MODULE ConnectionProofs --------------------------
(***************************************************************************)
(* Theorems about Connection for any number of callers, any number of      *)
(* retries, any channel capacity and any bounds.                           *)
(***************************************************************************)
EXTENDS Connection, TLAPS

\* Generations are natural numbers up to MaxGen.
LEMMA GenFacts ==
  /\ 0 \in Gen0 /\ 1 \in Gen0 /\ Gen \subseteq Gen0
  /\ \A g \in Gen0 : g \in Nat /\ g <= MaxGen
  /\ \A g \in Gen0 : g < MaxGen => g + 1 \in Gen
  /\ \A g \in Gen0 : g # 0 => g \in Gen
BY BoundAssumption DEF Gen, Gen0

LEMMA ProcFacts == Watcher \in Procs /\ \A p \in Callers : p \in Procs
BY DEF Procs

\* The state machine keeps its types, in every operation of the client, the
\* watcher and the server.
THEOREM TypeCorrect == Spec => []TypeOK
<1>1. Init => TypeOK
  <2> SUFFICES ASSUME Init PROVE TypeOK
    OBVIOUS
  <2>1. /\ connGen \in Gen0 /\ clientGen \in Gen0 /\ client \in Gen0
        /\ connected \in BOOLEAN
    BY GenFacts DEF Init
  <2>2. conn \in [Gen -> Status]
    BY DEF Init, Status
  <2>3. /\ maxRetries \in Retries /\ attempt \in [Procs -> 0 .. maxRetries]
        /\ Len(stateCh) <= StateChCap
    BY BoundAssumption DEF Init
  <2>4. /\ pc \in [Procs -> Labels] /\ op \in [Procs -> Ops]
        /\ outcome \in [Procs -> Outcomes]
    BY DEF Init, Labels, Ops, RecoverOps, Outcomes
  <2>5. /\ gen \in [Procs -> Gen0] /\ snap \in [Procs -> Gen0]
        /\ fresh \in [Procs -> Gen0]
    BY GenFacts DEF Init
  <2>6. /\ failed \in [Procs -> BOOLEAN] /\ runs \in [Procs -> Nat]
        /\ recoveries \in [Gen0 -> Nat]
    BY DEF Init
  <2>7. stateCh \in Seq(ConnState)
    BY DEF Init
  <2>8. /\ everConnected \in BOOLEAN /\ watching \in {"on", "stopping", "off"}
        /\ connectMu \in Procs \cup {NoProc} /\ watched \in SUBSET Gen
        /\ notify \in [Gen -> {"none", "check", "send"}]
        /\ ops \in Nat /\ faults \in Nat
    BY DEF Init
  <2>9. QED
    BY <2>1, <2>2, <2>3, <2>4, <2>5, <2>6, <2>7, <2>8 DEF TypeOK
<1>2. TypeOK /\ [Next]_vars => TypeOK'
  <2> SUFFICES ASSUME TypeOK, [Next]_vars PROVE TypeOK'
    OBVIOUS
  <2> USE DEF TypeOK, shared, chan, locals, bounds
  <2>1. ASSUME NEW p \in Callers, NEW o \in RecoverOps \cup {"disconnect"},
               Begin(p, o)
        PROVE  TypeOK'
    <3>1. p \in Procs /\ o \in Ops
      BY ProcFacts DEF Ops, RecoverOps
    <3>2. pc' \in [Procs -> Labels] /\ outcome' \in [Procs -> Outcomes]
      BY <2>1, <3>1 DEF Begin, Labels, Outcomes
    <3>3. /\ op' \in [Procs -> Ops] /\ gen' \in [Procs -> Gen0]
          /\ runs' \in [Procs -> Nat] /\ ops' \in Nat
      BY <2>1, <3>1 DEF Begin
    <3>4. QED
      BY <2>1, <3>1, <3>2, <3>3 DEF Begin
  <2>2. ASSUME NEW p \in Procs, Snapshot(p)
        PROVE  TypeOK'
    <3>1. CASE IsConnected
      <4>1. snap' \in [Procs -> Gen0] /\ pc' \in [Procs -> Labels]
        BY <2>2, <3>1 DEF Snapshot, Labels
      <4>2. runs' \in [Procs -> Nat]
        <5>1. runs' = [runs EXCEPT ![p] = @ + 1]
          BY <2>2, <3>1 DEF Snapshot
        <5>2. QED
          BY <5>1
      <4>3. QED
        BY <2>2, <3>1, <4>1, <4>2 DEF Snapshot
    <3>2. CASE ~IsConnected /\ op[p] = "ensure"
      BY <2>2, <3>2 DEF Snapshot, Labels, Ops
    <3>3. CASE ~IsConnected /\ op[p] # "ensure"
      BY <2>2, <3>3 DEF Snapshot, Finish, Labels, Outcomes
    <3>4. QED
      BY <3>1, <3>2, <3>3
  <2>3. ASSUME NEW p \in Procs, ReplyOk(p) \/ ReplyError(p) \/ ReplyStale(p)
        PROVE  TypeOK'
    BY <2>3 DEF ReplyOk, ReplyError, ReplyStale, Finish, Labels, Outcomes
  <2>4. ASSUME NEW p \in Procs, DialSetupFails(p) \/ DialNothing(p)
        PROVE  TypeOK'
    BY <2>4 DEF DialSetupFails, DialNothing, Labels
  <2>5. ASSUME NEW p \in Procs, DialAttempt(p)
        PROVE  TypeOK'
    <3>1. attempt[p] \in 0 .. maxRetries
      BY DEF TypeOK
    <3>2. attempt[p] < maxRetries
      BY <2>5 DEF DialAttempt, MoreAttempts
    <3>3. attempt[p] + 1 \in 0 .. maxRetries
      <4>1. ASSUME NEW a \in 0 .. maxRetries, a < maxRetries
            PROVE  a + 1 \in 0 .. maxRetries
        BY <4>1, BoundAssumption
      <4>2. QED
        BY <3>1, <3>2, <4>1
    <3>4. attempt' \in [Procs -> 0 .. maxRetries]
      BY <2>5, <3>3 DEF DialAttempt
    <3>5. stateCh' \in Seq(ConnState) /\ Len(stateCh') <= StateChCap
      BY <2>5, BoundAssumption DEF DialAttempt, Emit, ConnState
    <3>6. QED
      BY <2>5, <3>4, <3>5 DEF DialAttempt, Labels
  <2>6. ASSUME NEW p \in Procs, DialOk(p)
        PROVE  TypeOK'
    <3>1. stateCh' \in Seq(ConnState) /\ Len(stateCh') <= StateChCap
      BY <2>6, BoundAssumption DEF DialOk, Emit, ConnState
    <3>2. QED
      BY <2>6, <3>1 DEF DialOk, Labels, Status
  <2>7. ASSUME NEW p \in Procs, DialFails(p)
        PROVE  TypeOK'
    <3>1. stateCh' \in Seq(ConnState) /\ Len(stateCh') <= StateChCap
      <4>1. CASE UNCHANGED stateCh
        BY <4>1
      <4>2. CASE Emit("Closed")
        BY <4>2, BoundAssumption DEF Emit, ConnState
      <4>3. QED
        BY <2>7, <4>1, <4>2 DEF DialFails
    <3>2. failed' \in [Procs -> BOOLEAN]
      BY <2>7 DEF DialFails
    <3>3. QED
      BY <2>7, <3>1, <3>2 DEF DialFails, Labels
  <2>8. ASSUME NEW p \in Procs, Publish(p)
        PROVE  TypeOK'
    BY <2>8, GenFacts DEF Publish, SwapIn, Labels
  <2>9. ASSUME NEW p \in Procs, Retire(p)
        PROVE  TypeOK'
    <3>1. conn' \in [Gen -> Status]
      BY <2>9 DEF Retire, CloseConn, Status
    <3>2. pc' \in [Procs -> Labels] /\ outcome' \in [Procs -> Outcomes]
      BY <2>9, ProcFacts DEF Retire, WatchAgain, Finish, AfterRecover, Labels,
                             Outcomes
    <3>3. everConnected' \in BOOLEAN
      BY <2>9 DEF Retire, WatchAgain
    <3>4. QED
      BY <2>9, <3>1, <3>2, <3>3 DEF Retire, Unlock
  <2>10. ASSUME NEW p \in Procs, Handler(p)
         PROVE  TypeOK'
    <3>1. pc' \in [Procs -> Labels] /\ outcome' \in [Procs -> Outcomes]
      BY <2>10, ProcFacts DEF Handler, WatchAgain, Finish, AfterRecover,
                              Labels, Outcomes
    <3>2. everConnected' \in BOOLEAN
      BY <2>10 DEF Handler, WatchAgain
    <3>3. QED
      BY <2>10, <3>1, <3>2 DEF Handler
  <2>11. ASSUME NEW p \in Procs, CloseDone(p)
         PROVE  TypeOK'
    <3>1. conn' \in [Gen -> Status]
      BY <2>11 DEF CloseDone, CloseConn, Status
    <3>2. QED
      BY <2>11, <3>1 DEF CloseDone, Unlock, Finish, Labels, Outcomes
  <2>12. ASSUME NEW p \in Procs, RecoverSkip(p)
         PROVE  TypeOK'
    BY <2>12 DEF RecoverSkip, AfterRecover, Finish, Labels,
                 Outcomes
  <2>13. ASSUME NEW p \in Procs, StartConnect(p),
                recoveries' \in [Gen0 -> Nat]
         PROVE  TypeOK'
    <3>1. connGen + 1 \in Gen /\ connGen + 1 \in Gen0
      BY <2>13, GenFacts DEF StartConnect
    <3>2. attempt' \in [Procs -> 0 .. maxRetries]
      BY <2>13, BoundAssumption DEF StartConnect
    <3>3. QED
      BY <2>13, <3>1, <3>2 DEF StartConnect, Labels
  <2>14. ASSUME NEW p \in Procs, RecoverStart(p) \/ Connect(p)
         PROVE  TypeOK'
    <3>1. recoveries' \in [Gen0 -> Nat]
      <4>1. CASE RecoverStart(p)
        BY <4>1 DEF RecoverStart
      <4>2. CASE Connect(p)
        BY <4>2 DEF Connect
      <4>3. QED
        BY <2>14, <4>1, <4>2
    <3>2. QED
      BY <2>13, <2>14, <3>1 DEF RecoverStart, Connect
  <2>15. ASSUME NEW p \in Procs, Disconnect(p)
         PROVE  TypeOK'
    <3>1. connGen + 1 \in Gen0 /\ 0 \in Gen0
      BY <2>15, GenFacts DEF TakeDown, Disconnect
    <3>2. QED
      BY <2>15, <3>1 DEF TakeDown, Disconnect, Labels
  <2>16. ASSUME Watch
         PROVE  TypeOK'
    <3>1. stateCh' \in Seq(ConnState) /\ Len(stateCh') <= StateChCap
      BY <2>16, BoundAssumption DEF Watch
    <3>2. everConnected' \in BOOLEAN
      BY <2>16 DEF Watch
    <3>3. pc' \in [Procs -> Labels] /\ op' \in [Procs -> Ops]
      BY <2>16, ProcFacts DEF Watch, Labels, Ops
    <3>4. QED
      BY <2>16, <3>1, <3>2, <3>3 DEF Watch
  <2>17. ASSUME Stop \/ WatchExit
         PROVE  TypeOK'
    BY <2>17 DEF Stop, WatchExit
  <2>18. ASSUME NEW g \in Gen, Forward(g)
         PROVE  TypeOK'
    <3>1. notify' \in [Gen -> {"none", "check", "send"}]
      BY <2>18 DEF Forward
    <3>2. QED
      BY <2>18, <3>1 DEF Forward
  <2>19. ASSUME NEW g \in Gen, Send(g)
         PROVE  TypeOK'
    <3>1. stateCh' \in Seq(ConnState) /\ Len(stateCh') <= StateChCap
      BY <2>19, BoundAssumption DEF Send, Emit, ConnState
    <3>2. QED
      BY <2>19, <3>1 DEF Send
  <2>20. ASSUME NEW g \in Gen, LoseSession(g) \/ AutoReconnect(g)
         PROVE  TypeOK'
    <3>1. CASE LoseSession(g)
      <4>1. conn' \in [Gen -> Status] /\ faults' \in Nat
        BY <3>1 DEF LoseSession, Status
      <4>2. QED
        BY <3>1, <4>1 DEF LoseSession
    <3>2. CASE AutoReconnect(g)
      BY <3>2 DEF AutoReconnect, Status
    <3>3. QED
      BY <2>20, <3>1, <3>2
  <2>21. ASSUME NEW g \in Gen, Die(g)
         PROVE  TypeOK'
    <3>1. notify' \in [Gen -> {"none", "check", "send"}]
      BY <2>21 DEF Die
    <3>2. QED
      BY <2>21, <3>1 DEF Die, Status
  <2>22. CASE UNCHANGED vars
    BY <2>22 DEF vars
  <2> HIDE DEF TypeOK
  <2>23. QED
    BY <2>1, <2>2, <2>3, <2>4, <2>5, <2>6, <2>7, <2>8, <2>9, <2>10, <2>11,
       <2>12, <2>14, <2>15, <2>16, <2>17, <2>18, <2>19, <2>20, <2>21, <2>22
    DEF Next, Operation, Acquire, Quiescent
<1>3. QED
  BY <1>1, <1>2, PTL DEF Spec
-----------------------------------------------------------------------------
(***************************************************************************)
(* The inductive invariant, one lemma per part.  The actions are grouped   *)
(* by what they touch; NextCases says that the groups cover Next.          *)
(***************************************************************************)
LocalStep(p) ==
  \/ Snapshot(p) \/ ReplyOk(p) \/ ReplyError(p) \/ ReplyStale(p)
  \/ RecoverSkip(p) \/ Handler(p)

DialStep(p) ==
  \/ DialSetupFails(p) \/ DialNothing(p) \/ DialAttempt(p) \/ DialOk(p)
  \/ DialFails(p)

FaultStep(g) == LoseSession(g) \/ AutoReconnect(g) \/ Die(g)

ChanStep == Stop \/ WatchExit \/ \E g \in Gen : Forward(g) \/ Send(g)

LEMMA NextCases ==
  ASSUME [Next]_vars
  PROVE  \/ \E p \in Callers, o \in RecoverOps \cup {"disconnect"} : Begin(p, o)
         \/ \E p \in Procs :
              \/ LocalStep(p) \/ DialStep(p) \/ Publish(p) \/ Retire(p)
              \/ CloseDone(p) \/ RecoverStart(p) \/ Connect(p) \/ Disconnect(p)
         \/ Watch
         \/ \E g \in Gen : FaultStep(g)
         \/ ChanStep \/ UNCHANGED vars
BY DEF Next, Operation, Acquire, Quiescent, LocalStep, DialStep, FaultStep,
       ChanStep

LEMMA WatcherFacts ==
  /\ Watcher \in Procs /\ NoProc \notin Procs
  /\ \A p \in Callers : p \in Procs /\ p # Watcher
BY ProcAssumption DEF Procs

LEMMA GenNat ==
  /\ \A g \in Gen : g \in Nat /\ g # 0
  /\ \A g \in Gen0 : g \in Nat /\ (g # 0 => g \in Gen)
BY BoundAssumption DEF Gen, Gen0

\* Typing facts in the form the steps below use them.
LEMMA NatFacts ==
  ASSUME TypeOK
  PROVE  /\ connGen \in Nat /\ clientGen \in Nat /\ client \in Nat
         /\ gen \in [Procs -> Nat] /\ fresh \in [Procs -> Nat]
         /\ snap \in [Procs -> Nat]
         /\ client # 0 => client \in Gen
         /\ connGen < MaxGen => connGen + 1 \in Gen
<1>1. \A f : f \in [Procs -> Gen0] => f \in [Procs -> Nat]
  BY GenNat
<1>2. QED
  BY <1>1, GenFacts DEF TypeOK

\* connectMu and the critical sections stay in step.
LEMMA LockInvStep ==
  ASSUME TypeOK, LockInv, OpInv, [Next]_vars
  PROVE  LockInv'
<1> pc \in [Procs -> Labels] /\ op \in [Procs -> Ops]
  BY NatFacts DEF TypeOK
<1> USE GenNat, WatcherFacts DEF LockInv, OpInv, Critical, RecoverOps, shared,
      chan, locals, bounds
<1>1. ASSUME NEW p \in Callers,
             NEW o \in RecoverOps \cup {"disconnect"}, Begin(p, o)
      PROVE  LockInv'
  BY <1>1 DEF Begin
<1>2. ASSUME NEW p \in Procs, LocalStep(p)
      PROVE  LockInv'
  BY <1>2 DEF LocalStep, Snapshot, ReplyOk, ReplyError, ReplyStale,
     RecoverSkip, Handler, AfterRecover, WatchAgain, Finish,
     IsConnected
<1>3. ASSUME NEW p \in Procs, DialStep(p)
      PROVE  LockInv'
  BY <1>3 DEF DialStep, DialSetupFails, DialNothing, DialAttempt, DialOk,
     DialFails
<1>4. ASSUME NEW p \in Procs, Publish(p)
      PROVE  LockInv'
  BY <1>4 DEF Publish, SwapIn
<1>5. ASSUME NEW p \in Procs, Retire(p)
      PROVE  LockInv'
  BY <1>5 DEF Retire, CloseConn, Unlock, WatchAgain, Finish, AfterRecover
<1>6. ASSUME NEW p \in Procs, CloseDone(p)
      PROVE  LockInv'
  BY <1>6 DEF CloseDone, CloseConn, Unlock, Finish
<1>7. ASSUME NEW p \in Procs, RecoverStart(p) \/ Connect(p)
      PROVE  LockInv'
  BY <1>7 DEF RecoverStart, Connect, StartConnect, Replaced, IsConnected
<1>8. ASSUME NEW p \in Procs, Disconnect(p)
      PROVE  LockInv'
  BY <1>8 DEF TakeDown, Disconnect
<1>9. ASSUME Watch
      PROVE  LockInv'
  BY <1>9 DEF Watch
<1>10. ASSUME NEW g \in Gen, FaultStep(g)
      PROVE  LockInv'
  BY <1>10 DEF FaultStep, LoseSession, AutoReconnect, Die
<1>11. CASE ChanStep \/ UNCHANGED vars
  BY <1>11 DEF ChanStep, Stop, WatchExit, Forward, Send, vars
<1> HIDE DEF LockInv
<1>12. QED
  BY <1>1, <1>2, <1>3, <1>4, <1>5, <1>6, <1>7, <1>8, <1>9, <1>10, <1>11,
     NextCases

\* Generations only grow, and only under connectMu.
LEMMA GenInvStep ==
  ASSUME TypeOK, GenInv, LockInv, [Next]_vars
  PROVE  GenInv'
<1> /\ connGen \in Nat /\ clientGen \in Nat /\ client \in Nat
    /\ pc \in [Procs -> Labels]
    /\ gen \in [Procs -> Nat]
    /\ fresh \in [Procs -> Nat]
  BY NatFacts DEF TypeOK
<1> USE GenNat, WatcherFacts DEF GenInv, LockInv, Critical, Dialing, shared,
      chan, locals, bounds
<1>1. ASSUME NEW p \in Callers,
             NEW o \in RecoverOps \cup {"disconnect"}, Begin(p, o)
      PROVE  GenInv'
  BY <1>1 DEF Begin
<1>2. ASSUME NEW p \in Procs, LocalStep(p)
      PROVE  GenInv'
  BY <1>2 DEF LocalStep, Snapshot, ReplyOk, ReplyError, ReplyStale,
     RecoverSkip, Handler, AfterRecover, WatchAgain, Finish,
     IsConnected
<1>3. ASSUME NEW p \in Procs, DialStep(p)
      PROVE  GenInv'
  BY <1>3 DEF DialStep, DialSetupFails, DialNothing, DialAttempt, DialOk,
     DialFails
<1>4. ASSUME NEW p \in Procs, Publish(p)
      PROVE  GenInv'
  BY <1>4 DEF Publish, SwapIn
<1>5. ASSUME NEW p \in Procs, Retire(p)
      PROVE  GenInv'
  BY <1>5 DEF Retire, CloseConn, Unlock, WatchAgain, Finish, AfterRecover
<1>6. ASSUME NEW p \in Procs, CloseDone(p)
      PROVE  GenInv'
  BY <1>6 DEF CloseDone, CloseConn, Unlock, Finish
<1>7. ASSUME NEW p \in Procs, RecoverStart(p) \/ Connect(p)
      PROVE  GenInv'
  BY <1>7, NatFacts DEF RecoverStart, Connect, StartConnect, Replaced, IsConnected
<1>8. ASSUME NEW p \in Procs, Disconnect(p)
      PROVE  GenInv'
  BY <1>8 DEF TakeDown, Disconnect
<1>9. ASSUME Watch
      PROVE  GenInv'
  BY <1>9 DEF Watch
<1>10. ASSUME NEW g \in Gen, FaultStep(g)
      PROVE  GenInv'
  BY <1>10 DEF FaultStep, LoseSession, AutoReconnect, Die
<1>11. CASE ChanStep \/ UNCHANGED vars
  BY <1>11 DEF ChanStep, Stop, WatchExit, Forward, Send, vars
<1> HIDE DEF GenInv
<1>12. QED
  BY <1>1, <1>2, <1>3, <1>4, <1>5, <1>6, <1>7, <1>8, <1>9, <1>10, <1>11,
     NextCases

\* The connection being dialed is untouched by anyone else, and the holder of
\* connectMu closes only a connection that is no longer published.
LEMMA ConnInvStep ==
  ASSUME TypeOK, ConnInv, LockInv, GenInv, OpInv, [Next]_vars
  PROVE  ConnInv'
<1> /\ connGen \in Nat /\ clientGen \in Nat /\ client \in Nat
    /\ pc \in [Procs -> Labels]
    /\ conn \in [Gen -> Status]
    /\ fresh \in [Procs -> Nat]
    /\ snap \in [Procs -> Nat]
    /\ failed \in [Procs -> BOOLEAN]
  BY NatFacts DEF TypeOK
<1> USE GenNat, WatcherFacts DEF ConnInv, LockInv, GenInv, OpInv, Critical,
      Dialing, shared, chan, locals, bounds
<1>1. ASSUME NEW p \in Callers,
             NEW o \in RecoverOps \cup {"disconnect"}, Begin(p, o)
      PROVE  ConnInv'
  BY <1>1 DEF Begin
<1>2. ASSUME NEW p \in Procs, LocalStep(p)
      PROVE  ConnInv'
  BY <1>2 DEF LocalStep, Snapshot, ReplyOk, ReplyError, ReplyStale,
     RecoverSkip, Handler, AfterRecover, WatchAgain, Finish,
     IsConnected
<1>3. ASSUME NEW p \in Procs, DialStep(p)
      PROVE  ConnInv'
  BY <1>3 DEF DialStep, DialSetupFails, DialNothing, DialAttempt, DialOk,
     DialFails
<1>4. ASSUME NEW p \in Procs, Publish(p)
      PROVE  ConnInv'
  BY <1>4 DEF Publish, SwapIn
<1>5. ASSUME NEW p \in Procs, Retire(p)
      PROVE  ConnInv'
  BY <1>5 DEF Retire, CloseConn, Unlock, WatchAgain, Finish, AfterRecover
<1>6. ASSUME NEW p \in Procs, CloseDone(p)
      PROVE  ConnInv'
  BY <1>6 DEF CloseDone, CloseConn, Unlock, Finish
<1>7. ASSUME NEW p \in Procs, RecoverStart(p) \/ Connect(p)
      PROVE  ConnInv'
  BY <1>7, NatFacts DEF RecoverStart, Connect, StartConnect, Replaced, IsConnected
<1>8. ASSUME NEW p \in Procs, Disconnect(p)
      PROVE  ConnInv'
  BY <1>8 DEF TakeDown, Disconnect
<1>9. ASSUME Watch
      PROVE  ConnInv'
  BY <1>9 DEF Watch
<1>10. ASSUME NEW g \in Gen, FaultStep(g)
      PROVE  ConnInv'
  BY <1>10 DEF FaultStep, LoseSession, AutoReconnect, Die
<1>11. CASE ChanStep \/ UNCHANGED vars
  BY <1>11 DEF ChanStep, Stop, WatchExit, Forward, Send, vars
<1> HIDE DEF ConnInv
<1>12. QED
  BY <1>1, <1>2, <1>3, <1>4, <1>5, <1>6, <1>7, <1>8, <1>9, <1>10, <1>11,
     NextCases

\* Each operation stays on its own path, and a recovery that dials finds the
\* client connected until it publishes.
LEMMA OpInvStep ==
  ASSUME TypeOK, OpInv, LockInv, [Next]_vars
  PROVE  OpInv'
<1> /\ pc \in [Procs -> Labels]
    /\ op \in [Procs -> Ops]
    /\ runs \in [Procs -> Nat]
  BY NatFacts DEF TypeOK
<1> USE GenNat, WatcherFacts DEF OpInv, LockInv, Critical, Dialing,
      RecoverOps, shared, chan, locals, bounds
<1>1. ASSUME NEW p \in Callers,
             NEW o \in RecoverOps \cup {"disconnect"}, Begin(p, o)
      PROVE  OpInv'
  BY <1>1 DEF Begin
<1>2. ASSUME NEW p \in Procs, LocalStep(p)
      PROVE  OpInv'
  BY <1>2 DEF LocalStep, Snapshot, ReplyOk, ReplyError, ReplyStale,
     RecoverSkip, Handler, AfterRecover, WatchAgain, Finish,
     IsConnected
<1>3. ASSUME NEW p \in Procs, DialStep(p)
      PROVE  OpInv'
  BY <1>3 DEF DialStep, DialSetupFails, DialNothing, DialAttempt, DialOk,
     DialFails
<1>4. ASSUME NEW p \in Procs, Publish(p)
      PROVE  OpInv'
  BY <1>4 DEF Publish, SwapIn
<1>5. ASSUME NEW p \in Procs, Retire(p)
      PROVE  OpInv'
  BY <1>5 DEF Retire, CloseConn, Unlock, WatchAgain, Finish, AfterRecover
<1>6. ASSUME NEW p \in Procs, CloseDone(p)
      PROVE  OpInv'
  BY <1>6 DEF CloseDone, CloseConn, Unlock, Finish
<1>7. ASSUME NEW p \in Procs, RecoverStart(p) \/ Connect(p)
      PROVE  OpInv'
  BY <1>7 DEF RecoverStart, Connect, StartConnect, Replaced, IsConnected
<1>8. ASSUME NEW p \in Procs, Disconnect(p)
      PROVE  OpInv'
  BY <1>8 DEF TakeDown, Disconnect
<1>9. ASSUME Watch
      PROVE  OpInv'
  BY <1>9 DEF Watch
<1>10. ASSUME NEW g \in Gen, FaultStep(g)
      PROVE  OpInv'
  BY <1>10 DEF FaultStep, LoseSession, AutoReconnect, Die
<1>11. CASE ChanStep \/ UNCHANGED vars
  BY <1>11 DEF ChanStep, Stop, WatchExit, Forward, Send, vars
<1> HIDE DEF OpInv
<1>12. QED
  BY <1>1, <1>2, <1>3, <1>4, <1>5, <1>6, <1>7, <1>8, <1>9, <1>10, <1>11,
     NextCases

\* A recovery leaves its generation behind.
LEMMA RecoverInvStep ==
  ASSUME TypeOK, RecoverInv, GenInv, [Next]_vars
  PROVE  RecoverInv'
<1> /\ connGen \in Nat /\ clientGen \in Nat /\ client \in Nat
    /\ recoveries \in [Gen0 -> Nat]
  BY NatFacts DEF TypeOK
<1> USE GenNat, WatcherFacts DEF RecoverInv, GenInv, shared, chan, locals,
      bounds
<1>1. ASSUME NEW p \in Callers,
             NEW o \in RecoverOps \cup {"disconnect"}, Begin(p, o)
      PROVE  RecoverInv'
  BY <1>1 DEF Begin
<1>2. ASSUME NEW p \in Procs, LocalStep(p)
      PROVE  RecoverInv'
  BY <1>2 DEF LocalStep, Snapshot, ReplyOk, ReplyError, ReplyStale,
     RecoverSkip, Handler, AfterRecover, WatchAgain, Finish,
     IsConnected
<1>3. ASSUME NEW p \in Procs, DialStep(p)
      PROVE  RecoverInv'
  BY <1>3 DEF DialStep, DialSetupFails, DialNothing, DialAttempt, DialOk,
     DialFails
<1>4. ASSUME NEW p \in Procs, Publish(p)
      PROVE  RecoverInv'
  BY <1>4 DEF Publish, SwapIn
<1>5. ASSUME NEW p \in Procs, Retire(p)
      PROVE  RecoverInv'
  BY <1>5 DEF Retire, CloseConn, Unlock, WatchAgain, Finish, AfterRecover
<1>6. ASSUME NEW p \in Procs, CloseDone(p)
      PROVE  RecoverInv'
  BY <1>6 DEF CloseDone, CloseConn, Unlock, Finish
<1>7. ASSUME NEW p \in Procs, RecoverStart(p) \/ Connect(p)
      PROVE  RecoverInv'
  BY <1>7 DEF RecoverStart, Connect, StartConnect, Replaced, IsConnected
<1>8. ASSUME NEW p \in Procs, Disconnect(p)
      PROVE  RecoverInv'
  BY <1>8 DEF TakeDown, Disconnect
<1>9. ASSUME Watch
      PROVE  RecoverInv'
  BY <1>9 DEF Watch
<1>10. ASSUME NEW g \in Gen, FaultStep(g)
      PROVE  RecoverInv'
  BY <1>10 DEF FaultStep, LoseSession, AutoReconnect, Die
<1>11. CASE ChanStep \/ UNCHANGED vars
  BY <1>11 DEF ChanStep, Stop, WatchExit, Forward, Send, vars
<1> HIDE DEF RecoverInv
<1>12. QED
  BY <1>1, <1>2, <1>3, <1>4, <1>5, <1>6, <1>7, <1>8, <1>9, <1>10, <1>11,
     NextCases

\* The retry budget of each operation is respected at every point.
LEMMA CallInvStep ==
  ASSUME TypeOK, CallInv, OpInv, BoundedCalls, [Next]_vars
  PROVE  CallInv'
<1> /\ pc \in [Procs -> Labels]
    /\ op \in [Procs -> Ops]
    /\ runs \in [Procs -> Nat]
  BY NatFacts DEF TypeOK
<1> USE GenNat, WatcherFacts DEF CallInv, OpInv, BoundedCalls, Dialing,
      RecoverOps, Critical, shared, chan, locals, bounds
<1>1. ASSUME NEW p \in Callers,
             NEW o \in RecoverOps \cup {"disconnect"}, Begin(p, o)
      PROVE  CallInv'
  BY <1>1 DEF Begin
<1>2. ASSUME NEW p \in Procs, LocalStep(p)
      PROVE  CallInv'
  BY <1>2 DEF LocalStep, Snapshot, ReplyOk, ReplyError, ReplyStale,
     RecoverSkip, Handler, AfterRecover, WatchAgain, Finish,
     IsConnected
<1>3. ASSUME NEW p \in Procs, DialStep(p)
      PROVE  CallInv'
  BY <1>3 DEF DialStep, DialSetupFails, DialNothing, DialAttempt, DialOk,
     DialFails
<1>4. ASSUME NEW p \in Procs, Publish(p)
      PROVE  CallInv'
  BY <1>4 DEF Publish, SwapIn
<1>5. ASSUME NEW p \in Procs, Retire(p)
      PROVE  CallInv'
  BY <1>5 DEF Retire, CloseConn, Unlock, WatchAgain, Finish, AfterRecover
<1>6. ASSUME NEW p \in Procs, CloseDone(p)
      PROVE  CallInv'
  BY <1>6 DEF CloseDone, CloseConn, Unlock, Finish
<1>7. ASSUME NEW p \in Procs, RecoverStart(p) \/ Connect(p)
      PROVE  CallInv'
  BY <1>7 DEF RecoverStart, Connect, StartConnect, Replaced, IsConnected
<1>8. ASSUME NEW p \in Procs, Disconnect(p)
      PROVE  CallInv'
  BY <1>8 DEF TakeDown, Disconnect
<1>9. ASSUME Watch
      PROVE  CallInv'
  BY <1>9 DEF Watch
<1>10. ASSUME NEW g \in Gen, FaultStep(g)
      PROVE  CallInv'
  BY <1>10 DEF FaultStep, LoseSession, AutoReconnect, Die
<1>11. CASE ChanStep \/ UNCHANGED vars
  BY <1>11 DEF ChanStep, Stop, WatchExit, Forward, Send, vars
<1> HIDE DEF CallInv
<1>12. QED
  BY <1>1, <1>2, <1>3, <1>4, <1>5, <1>6, <1>7, <1>8, <1>9, <1>10, <1>11,
     NextCases

\* No step leaks a connection.
LEMMA OpenIsOwnedStep ==
  ASSUME TypeOK, OpenIsOwned, LockInv, GenInv, OpInv, ConnInv, PublishedIsCurrent, [Next]_vars
  PROVE  OpenIsOwned'
<1> /\ pc \in [Procs -> Labels]
    /\ conn \in [Gen -> Status]
    /\ fresh \in [Procs -> Nat]
    /\ snap \in [Procs -> Nat]
    /\ failed \in [Procs -> BOOLEAN]
  BY NatFacts DEF TypeOK
<1> USE GenNat, WatcherFacts DEF OpenIsOwned, LockInv, GenInv, OpInv, ConnInv,
      PublishedIsCurrent, Critical, Dialing, shared, chan, locals, bounds
<1>1. ASSUME NEW p \in Callers,
             NEW o \in RecoverOps \cup {"disconnect"}, Begin(p, o)
      PROVE  OpenIsOwned'
  BY <1>1 DEF Begin
<1>2. ASSUME NEW p \in Procs, LocalStep(p)
      PROVE  OpenIsOwned'
  BY <1>2 DEF LocalStep, Snapshot, ReplyOk, ReplyError, ReplyStale,
     RecoverSkip, Handler, AfterRecover, WatchAgain, Finish,
     IsConnected
<1>3. ASSUME NEW p \in Procs, DialStep(p)
      PROVE  OpenIsOwned'
  BY <1>3 DEF DialStep, DialSetupFails, DialNothing, DialAttempt, DialOk,
     DialFails
<1>4. ASSUME NEW p \in Procs, Publish(p)
      PROVE  OpenIsOwned'
  <2> SUFFICES ASSUME NEW g \in Gen, conn'[g] \in {"live", "stale"}
               PROVE  \/ connected' /\ client' = g
                      \/ pc'[p] = "retire" /\ snap'[p] = g
    OBVIOUS
  <2>1. \A q \in Procs : pc[q] \in Critical => q = p
    BY <1>4 DEF Publish
  <2>2. conn[g] \in {"live", "stale"}
    BY <1>4 DEF Publish
  <2>3. CASE connected /\ client = g
    BY <1>4, <2>3 DEF Publish
  <2>4. CASE pc[p] = "publish" /\ ~failed[p] /\ fresh[p] = g
    BY <1>4, <2>4 DEF Publish, SwapIn
  <2>5. QED
    BY <1>4, <2>1, <2>2, <2>3, <2>4 DEF Publish
<1>5. ASSUME NEW p \in Procs, Retire(p)
      PROVE  OpenIsOwned'
  BY <1>5 DEF Retire, CloseConn, Unlock, WatchAgain, Finish, AfterRecover
<1>6. ASSUME NEW p \in Procs, CloseDone(p)
      PROVE  OpenIsOwned'
  BY <1>6 DEF CloseDone, CloseConn, Unlock, Finish
<1>7. ASSUME NEW p \in Procs, RecoverStart(p) \/ Connect(p)
      PROVE  OpenIsOwned'
  BY <1>7 DEF RecoverStart, Connect, StartConnect, Replaced, IsConnected
<1>8. ASSUME NEW p \in Procs, Disconnect(p)
      PROVE  OpenIsOwned'
  BY <1>8 DEF TakeDown, Disconnect
<1>9. ASSUME Watch
      PROVE  OpenIsOwned'
  BY <1>9 DEF Watch
<1>10. ASSUME NEW g \in Gen, FaultStep(g)
      PROVE  OpenIsOwned'
  BY <1>10 DEF FaultStep, LoseSession, AutoReconnect, Die
<1>11. CASE ChanStep \/ UNCHANGED vars
  BY <1>11 DEF ChanStep, Stop, WatchExit, Forward, Send, vars
<1> HIDE DEF OpenIsOwned
<1>12. QED
  BY <1>1, <1>2, <1>3, <1>4, <1>5, <1>6, <1>7, <1>8, <1>9, <1>10, <1>11,
     NextCases

\* No step closes the published connection or publishes a closed one.
LEMMA PublishedIsCurrentStep ==
  ASSUME TypeOK, PublishedIsCurrent, GenInv, ConnInv, [Next]_vars
  PROVE  PublishedIsCurrent'
<1> /\ connGen \in Nat /\ clientGen \in Nat /\ client \in Nat
    /\ pc \in [Procs -> Labels]
    /\ conn \in [Gen -> Status]
    /\ failed \in [Procs -> BOOLEAN]
    /\ snap \in [Procs -> Nat]
    /\ fresh \in [Procs -> Nat]
  BY NatFacts DEF TypeOK
<1> USE GenNat, WatcherFacts DEF PublishedIsCurrent, GenInv, ConnInv, Dialing,
      shared, chan, locals, bounds
<1>1. ASSUME NEW p \in Callers,
             NEW o \in RecoverOps \cup {"disconnect"}, Begin(p, o)
      PROVE  PublishedIsCurrent'
  BY <1>1 DEF Begin
<1>2. ASSUME NEW p \in Procs, LocalStep(p)
      PROVE  PublishedIsCurrent'
  BY <1>2 DEF LocalStep, Snapshot, ReplyOk, ReplyError, ReplyStale,
     RecoverSkip, Handler, AfterRecover, WatchAgain, Finish,
     IsConnected
<1>3. ASSUME NEW p \in Procs, DialStep(p)
      PROVE  PublishedIsCurrent'
  <2>1. CASE DialOk(p)
    BY <2>1, NatFacts DEF DialOk
  <2>2. CASE ~DialOk(p)
    BY <1>3, <2>2 DEF DialStep, DialSetupFails, DialNothing, DialAttempt,
       DialFails
  <2>3. QED
    BY <2>1, <2>2
<1>4. ASSUME NEW p \in Procs, Publish(p)
      PROVE  PublishedIsCurrent'
  BY <1>4 DEF Publish, SwapIn
<1>5. ASSUME NEW p \in Procs, Retire(p)
      PROVE  PublishedIsCurrent'
  BY <1>5, NatFacts DEF Retire, CloseConn, Unlock, WatchAgain, Finish, AfterRecover
<1>6. ASSUME NEW p \in Procs, CloseDone(p)
      PROVE  PublishedIsCurrent'
  BY <1>6 DEF CloseDone, CloseConn, Unlock, Finish
<1>7. ASSUME NEW p \in Procs, RecoverStart(p) \/ Connect(p)
      PROVE  PublishedIsCurrent'
  BY <1>7 DEF RecoverStart, Connect, StartConnect, Replaced, IsConnected
<1>8. ASSUME NEW p \in Procs, Disconnect(p)
      PROVE  PublishedIsCurrent'
  BY <1>8 DEF TakeDown, Disconnect
<1>9. ASSUME Watch
      PROVE  PublishedIsCurrent'
  BY <1>9 DEF Watch
<1>10. ASSUME NEW g \in Gen, FaultStep(g)
      PROVE  PublishedIsCurrent'
  BY <1>10, NatFacts DEF FaultStep, LoseSession, AutoReconnect, Die
<1>11. CASE ChanStep \/ UNCHANGED vars
  BY <1>11 DEF ChanStep, Stop, WatchExit, Forward, Send, vars
<1> HIDE DEF PublishedIsCurrent
<1>12. QED
  BY <1>1, <1>2, <1>3, <1>4, <1>5, <1>6, <1>7, <1>8, <1>9, <1>10, <1>11,
     NextCases

\* No generation is recovered a second time.
LEMMA RecoversOnceStep ==
  ASSUME TypeOK, RecoversOnce, RecoverInv, GenInv, [Next]_vars
  PROVE  RecoversOnce'
<1> /\ connGen \in Nat /\ clientGen \in Nat /\ client \in Nat
    /\ recoveries \in [Gen0 -> Nat]
  BY NatFacts DEF TypeOK
<1> USE GenNat, WatcherFacts DEF RecoversOnce, RecoverInv, GenInv, shared,
      chan, locals, bounds
<1>1. ASSUME NEW p \in Callers,
             NEW o \in RecoverOps \cup {"disconnect"}, Begin(p, o)
      PROVE  RecoversOnce'
  BY <1>1 DEF Begin
<1>2. ASSUME NEW p \in Procs, LocalStep(p)
      PROVE  RecoversOnce'
  BY <1>2 DEF LocalStep, Snapshot, ReplyOk, ReplyError, ReplyStale,
     RecoverSkip, Handler, AfterRecover, WatchAgain, Finish,
     IsConnected
<1>3. ASSUME NEW p \in Procs, DialStep(p)
      PROVE  RecoversOnce'
  BY <1>3 DEF DialStep, DialSetupFails, DialNothing, DialAttempt, DialOk,
     DialFails
<1>4. ASSUME NEW p \in Procs, Publish(p)
      PROVE  RecoversOnce'
  BY <1>4 DEF Publish, SwapIn
<1>5. ASSUME NEW p \in Procs, Retire(p)
      PROVE  RecoversOnce'
  BY <1>5 DEF Retire, CloseConn, Unlock, WatchAgain, Finish, AfterRecover
<1>6. ASSUME NEW p \in Procs, CloseDone(p)
      PROVE  RecoversOnce'
  BY <1>6 DEF CloseDone, CloseConn, Unlock, Finish
<1>7. ASSUME NEW p \in Procs, RecoverStart(p) \/ Connect(p)
      PROVE  RecoversOnce'
  BY <1>7 DEF RecoverStart, Connect, StartConnect, Replaced, IsConnected
<1>8. ASSUME NEW p \in Procs, Disconnect(p)
      PROVE  RecoversOnce'
  BY <1>8 DEF TakeDown, Disconnect
<1>9. ASSUME Watch
      PROVE  RecoversOnce'
  BY <1>9 DEF Watch
<1>10. ASSUME NEW g \in Gen, FaultStep(g)
      PROVE  RecoversOnce'
  BY <1>10 DEF FaultStep, LoseSession, AutoReconnect, Die
<1>11. CASE ChanStep \/ UNCHANGED vars
  BY <1>11 DEF ChanStep, Stop, WatchExit, Forward, Send, vars
<1> HIDE DEF RecoversOnce
<1>12. QED
  BY <1>1, <1>2, <1>3, <1>4, <1>5, <1>6, <1>7, <1>8, <1>9, <1>10, <1>11,
     NextCases

\* No operation calls the server more often than it may.
LEMMA BoundedCallsStep ==
  ASSUME TypeOK, BoundedCalls, CallInv, OpInv, [Next]_vars
  PROVE  BoundedCalls'
<1> /\ pc \in [Procs -> Labels]
    /\ op \in [Procs -> Ops]
    /\ runs \in [Procs -> Nat]
  BY NatFacts DEF TypeOK
<1> USE GenNat, WatcherFacts DEF BoundedCalls, CallInv, OpInv, shared, chan,
      locals, bounds
<1>1. ASSUME NEW p \in Callers,
             NEW o \in RecoverOps \cup {"disconnect"}, Begin(p, o)
      PROVE  BoundedCalls'
  BY <1>1 DEF Begin
<1>2. ASSUME NEW p \in Procs, LocalStep(p)
      PROVE  BoundedCalls'
  BY <1>2 DEF LocalStep, Snapshot, ReplyOk, ReplyError, ReplyStale,
     RecoverSkip, Handler, AfterRecover, WatchAgain, Finish,
     IsConnected
<1>3. ASSUME NEW p \in Procs, DialStep(p)
      PROVE  BoundedCalls'
  BY <1>3 DEF DialStep, DialSetupFails, DialNothing, DialAttempt, DialOk,
     DialFails
<1>4. ASSUME NEW p \in Procs, Publish(p)
      PROVE  BoundedCalls'
  BY <1>4 DEF Publish, SwapIn
<1>5. ASSUME NEW p \in Procs, Retire(p)
      PROVE  BoundedCalls'
  BY <1>5 DEF Retire, CloseConn, Unlock, WatchAgain, Finish, AfterRecover
<1>6. ASSUME NEW p \in Procs, CloseDone(p)
      PROVE  BoundedCalls'
  BY <1>6 DEF CloseDone, CloseConn, Unlock, Finish
<1>7. ASSUME NEW p \in Procs, RecoverStart(p) \/ Connect(p)
      PROVE  BoundedCalls'
  BY <1>7 DEF RecoverStart, Connect, StartConnect, Replaced, IsConnected
<1>8. ASSUME NEW p \in Procs, Disconnect(p)
      PROVE  BoundedCalls'
  BY <1>8 DEF TakeDown, Disconnect
<1>9. ASSUME Watch
      PROVE  BoundedCalls'
  BY <1>9 DEF Watch
<1>10. ASSUME NEW g \in Gen, FaultStep(g)
      PROVE  BoundedCalls'
  BY <1>10 DEF FaultStep, LoseSession, AutoReconnect, Die
<1>11. CASE ChanStep \/ UNCHANGED vars
  BY <1>11 DEF ChanStep, Stop, WatchExit, Forward, Send, vars
<1> HIDE DEF BoundedCalls
<1>12. QED
  BY <1>1, <1>2, <1>3, <1>4, <1>5, <1>6, <1>7, <1>8, <1>9, <1>10, <1>11,
     NextCases
-----------------------------------------------------------------------------
\* The inductive invariant holds in every reachable state.
THEOREM Invariance == Spec => []IndInv
<1>1. Init => IndInv
  <2> SUFFICES ASSUME Init PROVE IndInv
    OBVIOUS
  <2> USE WatcherFacts, GenNat
  <2>1. LockInv /\ OpInv /\ CallInv /\ BoundedCalls
    BY DEF Init, LockInv, OpInv, CallInv, BoundedCalls, Critical, Dialing,
           RecoverOps
  <2>2. GenInv /\ PublishedIsCurrent
    BY BoundAssumption DEF Init, GenInv, PublishedIsCurrent, Dialing, Gen
  <2>3. ConnInv /\ OpenIsOwned
    BY DEF Init, ConnInv, OpenIsOwned
  <2>4. RecoverInv /\ RecoversOnce
    BY DEF Init, RecoverInv, RecoversOnce
  <2>5. QED
    BY <2>1, <2>2, <2>3, <2>4 DEF IndInv
<1>2. TypeOK /\ IndInv /\ [Next]_vars => IndInv'
  BY LockInvStep, GenInvStep, ConnInvStep, OpInvStep, RecoverInvStep,
     CallInvStep, OpenIsOwnedStep, PublishedIsCurrentStep, RecoversOnceStep,
     BoundedCallsStep DEF IndInv
<1>3. QED
  BY <1>1, <1>2, TypeCorrect, PTL DEF Spec

\* connectLocked, Disconnect and recovery never leak an open connection.
THEOREM NoLeak == Spec => []OpenIsOwned
BY Invariance, PTL DEF IndInv

\* A client that reports itself connected publishes its newest connection,
\* and not one that was closed.
THEOREM PublishedCurrent == Spec => []PublishedIsCurrent
BY Invariance, PTL DEF IndInv

\* However many callers fail on the same stale session, recoverConnection
\* reconnects once for it.
THEOREM OneRecovery == Spec => []RecoversOnce
BY Invariance, PTL DEF IndInv

\* withSessionRecovery runs a read at most twice, sendWrite sends once.
THEOREM CallsBounded == Spec => []BoundedCalls
BY Invariance, PTL DEF IndInv

\* Session recovery never turns a disconnected client into a connected one.
THEOREM NoResurrection == Spec => RecoveryNeverConnects
<1>1. TypeOK /\ IndInv /\ [Next]_vars =>
        [ (~connected /\ connected') =>
            \E p \in Procs : pc[p] = "publish" /\ op[p] \in {"connect", "rebuild"}
        ]_vars
  <2> SUFFICES ASSUME TypeOK, IndInv, [Next]_vars, ~connected, connected'
               PROVE  \E p \in Procs :
                        pc[p] = "publish" /\ op[p] \in {"connect", "rebuild"}
    OBVIOUS
  <2>1. PICK p \in Procs : Publish(p)
    BY NextCases, WatcherFacts
    DEF LocalStep, Snapshot, ReplyOk, ReplyError, ReplyStale, RecoverSkip,
        Handler, DialStep, DialSetupFails, DialNothing,
        DialAttempt, DialOk, DialFails, Retire, CloseDone, RecoverStart,
        Connect, StartConnect, Disconnect, TakeDown, Watch, FaultStep,
        LoseSession, AutoReconnect, Die, ChanStep, Stop, WatchExit, Forward, Send, Begin,
        vars, shared
  <2>2. pc[p] = "publish" /\ op[p] \in Ops
    BY <2>1 DEF Publish, TypeOK
  <2>3. op[p] # "disconnect" /\ op[p] \notin RecoverOps
    BY <2>2 DEF IndInv, OpInv, Dialing
  <2>4. QED
    BY <2>2, <2>3 DEF Ops
<1>2. QED
  BY <1>1, TypeCorrect, Invariance, PTL DEF Spec, RecoveryNeverConnects

-----------------------------------------------------------------------------
(***************************************************************************)
(* Connection implements ConnectionRegister.  Three actions change what    *)
(* the register holds: Publish is the register's Publish, Disconnect its   *)
(* Retire, and Retire and CloseDone its Close (or nothing, when there was  *)
(* no connection to close).  Every other step leaves the register alone.   *)
(***************************************************************************)
Closed == {g \in Gen : conn[g] = "closed"}

\* What the register is mapped to stays as it is.
Stutter ==
  /\ client' = client /\ connected' = connected /\ clientGen' = clientGen
  /\ BeingClosed' = BeingClosed /\ Closed' = Closed

\* The holder of connectMu is in its critical section, everyone else is not.
LEMMA BeingClosedFacts ==
  ASSUME LockInv
  PROVE  /\ connectMu = NoProc => BeingClosed = 0
         /\ \A p \in Procs : pc[p] \in {"retire", "close"} =>
              connectMu = p /\ BeingClosed = snap[p]
         /\ \A p \in Procs : pc[p] \in Critical => connectMu = p
         /\ \A p \in Procs : pc[p] \in {"dial", "connecting", "publish"} =>
              BeingClosed = 0
BY WatcherFacts DEF LockInv, BeingClosed, Critical

\* Steps of p that neither begin nor end a close.
LEMMA SameBeingClosed ==
  ASSUME TypeOK, LockInv, NEW p \in Procs, connectMu' = connectMu,
         pc[p] \notin {"retire", "close"}, pc'[p] \notin {"retire", "close"},
         \A q \in Procs \ {p} : pc'[q] = pc[q] /\ snap'[q] = snap[q]
  PROVE  BeingClosed' = BeingClosed
<1>1. CASE connectMu = p \/ connectMu = NoProc
  BY <1>1, WatcherFacts DEF BeingClosed
<1>2. CASE connectMu \in Procs \ {p}
  BY <1>2 DEF BeingClosed
<1>3. QED
  BY <1>1, <1>2 DEF TypeOK

\* Requests, the reconnect handler and what the watcher takes off its channel
\* change nothing the register shows.
LEMMA LocalStutters ==
  ASSUME TypeOK, LockInv, OpInv, NEW p \in Procs,
         LocalStep(p) \/ (p = Watcher /\ Watch)
                      \/ \E o \in RecoverOps \cup {"disconnect"} : Begin(p, o)
  PROVE  Stutter
<1> USE DEF shared, chan, locals, bounds, TypeOK
<1>1. /\ client' = client /\ connected' = connected /\ clientGen' = clientGen
      /\ conn' = conn /\ connectMu' = connectMu
  BY DEF LocalStep, Snapshot, ReplyOk, ReplyError, ReplyStale, RecoverSkip,
         Handler, Watch, Begin
<1>2. pc[p] \notin {"retire", "close"} /\ pc'[p] \notin {"retire", "close"}
  BY DEF LocalStep, Snapshot, ReplyOk, ReplyError, ReplyStale, RecoverSkip,
         Handler, Watch, Begin, AfterRecover, WatchAgain, Finish
<1>3. \A q \in Procs \ {p} : pc'[q] = pc[q] /\ snap'[q] = snap[q]
  <2>1. CASE LocalStep(p)
    <3>1. CASE Handler(p)
      <4>1. op[p] = "rebuild" => p = Watcher
        BY DEF OpInv
      <4>2. QED
        BY <3>1, <4>1 DEF Handler, WatchAgain, AfterRecover, Finish
    <3>2. CASE ~Handler(p)
      BY <2>1, <3>2 DEF LocalStep, Snapshot, ReplyOk, ReplyError, ReplyStale,
                        RecoverSkip, AfterRecover, Finish
    <3>3. QED
      BY <3>1, <3>2
  <2>2. CASE p = Watcher /\ Watch
    BY <2>2 DEF Watch
  <2>3. CASE \E o \in RecoverOps \cup {"disconnect"} : Begin(p, o)
    BY <2>3 DEF Begin
  <2>4. QED
    BY <2>1, <2>2, <2>3
<1>4. QED
  BY <1>1, <1>2, <1>3, SameBeingClosed DEF Stutter, Closed

\* A dial shows nothing until it has ended; a lost, repaired or dead
\* connection is not a closed one, and the dialed one was not closed before.
LEMMA DialStutters ==
  ASSUME TypeOK, LockInv, ConnInv, NEW p \in Procs, DialStep(p)
  PROVE  Stutter
<1> USE DEF shared, chan, locals, bounds, TypeOK
<1>1. /\ client' = client /\ connected' = connected /\ clientGen' = clientGen
      /\ connectMu' = connectMu
  BY DEF DialStep, DialSetupFails, DialNothing, DialAttempt, DialOk, DialFails
<1>2. pc[p] \notin {"retire", "close"} /\ pc'[p] \notin {"retire", "close"}
  BY DEF DialStep, DialSetupFails, DialNothing, DialAttempt, DialOk, DialFails
<1>3. \A q \in Procs \ {p} : pc'[q] = pc[q] /\ snap'[q] = snap[q]
  BY DEF DialStep, DialSetupFails, DialNothing, DialAttempt, DialOk, DialFails
<1>4. Closed' = Closed
  <2>1. CASE conn' = conn
    BY <2>1 DEF Closed
  <2>2. CASE DialOk(p)
    <3>1. conn[fresh[p]] = "none"
      BY <2>2 DEF ConnInv, DialOk
    <3>2. \A g \in Gen : conn'[g] = "closed" <=> conn[g] = "closed"
      BY <2>2, <3>1 DEF DialOk
    <3>3. QED
      BY <3>2 DEF Closed
  <2>3. QED
    BY <2>1, <2>2 DEF DialStep, DialSetupFails, DialNothing, DialAttempt,
                      DialFails
<1>5. QED
  BY <1>1, <1>2, <1>3, <1>4, SameBeingClosed DEF Stutter

LEMMA FaultStutters ==
  ASSUME TypeOK, NEW g \in Gen, FaultStep(g)
  PROVE  Stutter
<1> USE DEF shared, chan, locals, bounds, TypeOK
<1>1. /\ client' = client /\ connected' = connected /\ clientGen' = clientGen
      /\ BeingClosed' = BeingClosed
  BY DEF FaultStep, LoseSession, AutoReconnect, Die, BeingClosed
<1>2. \A h \in Gen : conn'[h] = "closed" <=> conn[h] = "closed"
  BY DEF FaultStep, LoseSession, AutoReconnect, Die
<1>3. QED
  BY <1>1, <1>2 DEF Stutter, Closed

LEMMA ChanStutters ==
  ASSUME ChanStep \/ UNCHANGED vars
  PROVE  Stutter
BY DEF ChanStep, Stop, WatchExit, Forward, Send, vars, shared, locals, Stutter,
       BeingClosed, Closed

\* Taking connectMu to dial shows nothing either.
LEMMA AcquireStutters ==
  ASSUME TypeOK, NEW p \in Procs, RecoverStart(p) \/ Connect(p)
  PROVE  Stutter
BY WatcherFacts
DEF TypeOK, RecoverStart, Connect, StartConnect, Stutter, BeingClosed, Closed
-----------------------------------------------------------------------------
\* connectLocked's publication is the register's.
LEMMA PublishStep ==
  ASSUME TypeOK, LockInv, GenInv, NEW p \in Procs, Publish(p)
  PROVE  Register!Publish
<1> USE DEF shared, chan, locals, bounds
<1>1. pc[p] = "publish" /\ connectMu = p
  BY BeingClosedFacts DEF Publish, Critical
<1>2. BeingClosed = 0
  BY <1>1, BeingClosedFacts
<1>3. BeingClosed' = client
  BY <1>1, WatcherFacts DEF Publish, BeingClosed, TypeOK
<1>4. clientGen' \in Nat /\ clientGen' > clientGen
  BY <1>1, NatFacts DEF Publish, SwapIn, GenInv, Dialing
<1>5. connected' \in BOOLEAN /\ client' = (IF connected' THEN clientGen' ELSE 0)
  BY DEF Publish, SwapIn, TypeOK
<1>6. {g \in Gen : conn[g] = "closed"}' = {g \in Gen : conn[g] = "closed"}
  BY DEF Publish
<1>7. QED
  BY <1>2, <1>3, <1>4, <1>5, <1>6 DEF Register!Publish, Register!NewGeneration

\* Disconnect takes the connection down and keeps it in the register.
LEMMA DisconnectStep ==
  ASSUME TypeOK, LockInv, GenInv, NEW p \in Procs, Disconnect(p)
  PROVE  Register!Retire
<1> USE DEF shared, chan, locals, bounds
<1>1. BeingClosed = 0
  BY BeingClosedFacts DEF Disconnect
<1>2. BeingClosed' = (IF connected THEN client ELSE 0)
  BY WatcherFacts DEF Disconnect, BeingClosed, TypeOK
<1>3. clientGen' \in Nat /\ clientGen' > clientGen
  BY NatFacts DEF Disconnect, TakeDown, GenInv
<1>4. connected' = FALSE /\ client' = client
  BY DEF Disconnect, TakeDown
<1>5. {g \in Gen : conn[g] = "closed"}' = {g \in Gen : conn[g] = "closed"}
  BY DEF Disconnect
<1>6. QED
  BY <1>1, <1>2, <1>3, <1>4, <1>5 DEF Register!Retire, Register!NewGeneration

\* closeRetired and Disconnect's Close close what was replaced, if anything.
LEMMA CloseStep ==
  ASSUME TypeOK, LockInv, NEW p \in Procs, Retire(p) \/ CloseDone(p)
  PROVE  Register!Close \/ Stutter
<1> USE DEF shared, chan, locals, bounds
<1>1. pc[p] \in {"retire", "close"}
  BY DEF Retire, CloseDone
<1>2. BeingClosed = snap[p] /\ snap[p] \in Gen0
  BY <1>1, BeingClosedFacts DEF TypeOK
<1>3. BeingClosed' = 0
  BY DEF Retire, CloseDone, Unlock, BeingClosed
<1>4. client' = client /\ connected' = connected /\ clientGen' = clientGen
  BY DEF Retire, CloseDone
<1>5. \A g \in Gen : conn'[g] = "closed" <=> conn[g] = "closed" \/ g = snap[p]
  BY DEF Retire, CloseDone, CloseConn
<1>6. CASE snap[p] = 0
  <2>1. Closed' = Closed
    BY <1>5, <1>6, GenNat DEF Closed
  <2>2. QED
    BY <1>2, <1>3, <1>4, <1>6, <2>1 DEF Stutter
<1>7. CASE snap[p] # 0
  <2>1. snap[p] \in Gen
    BY <1>2, <1>7, GenNat
  <2>2. {g \in Gen : conn[g] = "closed"}'
          = {g \in Gen : conn[g] = "closed"} \cup {snap[p]}
    BY <1>5, <2>1
  <2>3. QED
    BY <1>2, <1>3, <1>4, <1>7, <2>2 DEF Register!Close
<1>8. QED
  BY <1>6, <1>7

\* Client is a register with a generation: for any number of callers, retries
\* and faults, every step of the connection is a step of ConnectionRegister or
\* leaves it alone.
THEOREM Refinement == Spec => ImplementsRegister
<1>1. Init => Register!Init
  <2> SUFFICES ASSUME Init PROVE Register!Init
    OBVIOUS
  <2>1. BeingClosed = 0
    BY DEF Init, BeingClosed
  <2>2. {g \in Gen : conn[g] = "closed"} = {}
    BY DEF Init
  <2>3. QED
    BY <2>1, <2>2 DEF Init, Register!Init
<1>2. TypeOK /\ IndInv /\ [Next]_vars => [Register!Next]_Register!vars
  <2> SUFFICES ASSUME TypeOK, IndInv, [Next]_vars
               PROVE  Register!Next \/ UNCHANGED Register!vars
    OBVIOUS
  <2>1. LockInv /\ GenInv /\ ConnInv /\ OpInv
    BY DEF IndInv
  <2>2. Stutter => UNCHANGED Register!vars
    BY DEF Stutter, Closed, Register!vars
  <2>3. ASSUME NEW p \in Callers,
               NEW o \in RecoverOps \cup {"disconnect"}, Begin(p, o)
        PROVE  Stutter
    BY <2>1, <2>3, LocalStutters, WatcherFacts
  <2>4. ASSUME Watch
        PROVE  Stutter
    BY <2>1, <2>4, LocalStutters, WatcherFacts
  <2>5. ASSUME NEW p \in Procs, LocalStep(p) \/ DialStep(p) \/ RecoverStart(p)
                                  \/ Connect(p)
        PROVE  Stutter
    BY <2>1, <2>5, LocalStutters, DialStutters, AcquireStutters
  <2>6. ASSUME NEW p \in Procs, Publish(p)
        PROVE  Register!Next
    BY <2>1, <2>6, PublishStep DEF Register!Next
  <2>7. ASSUME NEW p \in Procs, Disconnect(p)
        PROVE  Register!Next
    BY <2>1, <2>7, DisconnectStep DEF Register!Next
  <2>8. ASSUME NEW p \in Procs, Retire(p) \/ CloseDone(p)
        PROVE  Register!Next \/ Stutter
    BY <2>1, <2>8, CloseStep DEF Register!Next
  <2>9. QED
    BY <2>2, <2>3, <2>4, <2>5, <2>6, <2>7, <2>8, NextCases, FaultStutters,
       ChanStutters
<1>3. QED
  BY <1>1, <1>2, TypeCorrect, Invariance, PTL
  DEF Spec, ImplementsRegister, Register!Spec
=============================================================================
