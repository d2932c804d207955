--------------------------- MODULE LifecycleProofs ---------------------------
(***************************************************************************)
(* Theorems about Lifecycle for any transports, tool calls and sends.      *)
(***************************************************************************)
EXTENDS Lifecycle, SequenceTheorems, TLAPS

\* What is left of the sends under way when one of them has ended.
LEMMA OneLess ==
  ASSUME NEW S, NEW s \in Seq(S), NEW i \in DOMAIN s
  PROVE  RemoveAt(s, i) \in Seq(S)
<1>1. i \in 1 .. Len(s) /\ Len(s) \in Nat
  OBVIOUS
<1>2. \A j \in 1 .. i - 1 : s[j] \in S
  BY <1>1
<1>3. \A j \in i + 1 .. Len(s) : s[j] \in S
  BY <1>1
<1>4. SubSeq(s, 1, i - 1) \in Seq(S) /\ SubSeq(s, i + 1, Len(s)) \in Seq(S)
  BY <1>1, <1>2, <1>3, SubSeqProperties
<1>5. QED
  BY <1>4 DEF RemoveAt

\* Every variable keeps its type, and stopChan is closed at most once, with
\* the invariant's help: shutdown's first step is taken once.
THEOREM Invariance == Spec => [](TypeOK /\ IndInv)
<1>1. Init => TypeOK /\ IndInv
  <2> SUFFICES ASSUME Init PROVE TypeOK /\ IndInv
    OBVIOUS
  <2>1. TypeOK
    <3>1. pump \in {"absent", "running", "done"}
      BY DEF Init
    <3>2. sending \in Seq(Nat) /\ calls \in 0 .. MaxCalls
      BY LifecycleAssumption DEF Init
    <3>3. call \in [Callers -> {"idle", "running"}]
      BY DEF Init
    <3>4. stopChans \in 0 .. 1 /\ pending \in Nat
      BY DEF Init
    <3>5. QED
      BY <3>1, <3>2, <3>3, <3>4, Zenon DEF Init, TypeOK
  <2>2. IndInv
    BY DEF Init, IndInv, StartInv, StepInv, FlushInv
  <2>3. QED
    BY <2>1, <2>2
<1>2. TypeOK /\ IndInv /\ [Next]_vars => TypeOK' /\ IndInv'
  <2> SUFFICES ASSUME TypeOK, IndInv, [Next]_vars PROVE TypeOK' /\ IndInv'
    OBVIOUS
  <2> USE DEF TypeOK, IndInv, StartInv, StepInv, FlushInv
  <2>1. ASSUME SetupFails \/ ServerClosed PROVE TypeOK' /\ IndInv'
    BY <2>1 DEF SetupFails, ServerClosed, Alive, comps, served, tel
  <2>2. ASSUME ArmSignals \/ StartDiscovery \/ SetCancel
        PROVE  TypeOK' /\ IndInv'
    <3>1. CASE ArmSignals
      BY <3>1 DEF ArmSignals, Alive, comps, served, tel
    <3>2. CASE StartDiscovery
      BY <3>2 DEF StartDiscovery, Alive, served, tel
    <3>3. CASE SetCancel
      BY <3>3 DEF SetCancel, Alive, comps, served
    <3>4. QED
      BY <2>2, <3>1, <3>2, <3>3
  <2>3. ASSUME StartTelemetry PROVE TypeOK' /\ IndInv'
    BY <2>3 DEF StartTelemetry, Alive, comps, served
  <2>4. ASSUME KeepHandle \/ Listen PROVE TypeOK' /\ IndInv'
    BY <2>4 DEF KeepHandle, Listen, Alive, served, tel
  <2>5. ASSUME StdinEnds \/ Signal PROVE TypeOK' /\ IndInv'
    BY <2>5 DEF StdinEnds, Signal, Once, Alive, comps, served, tel
  <2>6. ASSUME StopDiscovery \/ JoinWorker \/ StopManager
        PROVE  TypeOK' /\ IndInv'
    <3>1. CASE StopDiscovery
      BY <3>1 DEF StopDiscovery, At, Then, Alive, served, tel
    <3>2. CASE JoinWorker
      BY <3>2 DEF JoinWorker, At, Then, Alive, comps, served, tel
    <3>3. CASE StopManager
      <4>1. stopCh' \in BOOLEAN
        BY <3>3 DEF StopManager
      <4>2. QED
        BY <3>3, <4>1 DEF StopManager, At, Then, Alive, served, tel
    <3>4. QED
      BY <2>6, <3>1, <3>2, <3>3
  <2>7. ASSUME JoinPump \/ ShutdownHttp \/ Disconnect \/ CloseStore
        PROVE  TypeOK' /\ IndInv'
    BY <2>7 DEF JoinPump, Joined, ShutdownHttp, Disconnect, CloseStore, At,
       Then, Alive, comps, served, tel
  <2>8. ASSUME CancelTelemetry PROVE TypeOK' /\ IndInv'
    BY <2>8 DEF CancelTelemetry, Cancel, At, Then, Alive, comps, served
  <2>9. ASSUME CloseTelemetry PROVE TypeOK' /\ IndInv'
    <3>1. loop # "running" /\ sending = <<>> /\ step = "flush"
      BY <2>9 DEF CloseTelemetry, Flushed, At
    <3>2. pending = 0
      BY <3>1
    <3>3. QED
      BY <2>9, <3>1, <3>2 DEF CloseTelemetry, At, Then, Alive, comps, served,
         tel
  <2>10. ASSUME Exit PROVE TypeOK' /\ IndInv'
    BY <2>10 DEF Exit, Alive, comps, served, tel
  <2>11. ASSUME WalkEnds \/ WorkerTick \/ WorkerExit PROVE TypeOK' /\ IndInv'
    BY <2>11 DEF WalkEnds, WorkerTick, WorkerExit, Worker, Alive, life, served,
       tel
  <2>12. ASSUME PumpTake \/ PumpFlush \/ PumpExit PROVE TypeOK' /\ IndInv'
    <3>1. CASE PumpTake
      BY <3>1 DEF PumpTake, Pump, Alive, life, served, tel
    <3>2. CASE PumpFlush
      <4>1. pump' = pump /\ pump = "running" /\ batch' \in BOOLEAN
        BY <3>2 DEF PumpFlush, Pump
      <4>2. QED
        BY <3>2, <4>1 DEF PumpFlush, Pump, Alive, life, served, tel
    <3>3. CASE PumpExit
      <4>1. batch' \in BOOLEAN /\ ~batch' /\ pump' = "done"
        BY <3>3 DEF PumpExit, Pump
      <4>2. UNCHANGED <<life, store, worker, stopChans, stopCh, http, served,
                        tel>>
        BY <3>3 DEF PumpExit, Pump
      <4>3. QED
        BY <4>1, <4>2 DEF life, served, tel
    <3>4. QED
      BY <2>12, <3>1, <3>2, <3>3
  <2>13. ASSUME NEW c \in Callers, CallStart(c) PROVE TypeOK' /\ IndInv'
    BY <2>13, LifecycleAssumption DEF CallStart, Accepting, Alive, life, comps,
       tel
  <2>14. ASSUME NEW c \in Callers, CallEnd(c) PROVE TypeOK' /\ IndInv'
    BY <2>14 DEF CallEnd, Alive, life, comps
  <2>15. ASSUME FlushTick \/ LastFlush PROVE TypeOK' /\ IndInv'
    <3>1. /\ loop = "running" /\ pending' = 0
          /\ sending' = Append(sending, pending)
          /\ UNCHANGED <<life, store, comps, served, cancelSet, cancelled>>
      BY <2>15 DEF FlushTick, LastFlush, Flush
    <3>2. sending' \in Seq(Nat)
      BY <3>1
    <3>3. step = "done" /\ cancelled => sending' \in Seq({0})
      BY <3>1
    <3>4. \/ loop' = "running"
          \/ loop' = "done" /\ cancelled
      BY <2>15, <3>1 DEF FlushTick, LastFlush
    <3>5. QED
      BY <3>1, <3>2, <3>3, <3>4 DEF life, comps, served
  <2>16. ASSUME SendEnds PROVE TypeOK' /\ IndInv'
    <3>1. PICK i \in DOMAIN sending : sending' = RemoveAt(sending, i)
      BY <2>16 DEF SendEnds
    <3>2. sending' \in Seq(Nat)
      BY <3>1, OneLess
    <3>3. sending \in Seq({0}) => sending' \in Seq({0})
      BY <3>1, OneLess
    <3>4. loop \notin {"disabled", "off"}
      BY <3>1
    <3>5. QED
      BY <2>16, <3>2, <3>3, <3>4 DEF SendEnds, Alive, life, comps, served
  <2>17. ASSUME UNCHANGED vars PROVE TypeOK' /\ IndInv'
    BY <2>17 DEF vars, life, comps, served, tel
  <2>18. QED
    BY <2>1, <2>2, <2>3, <2>4, <2>5, <2>6, <2>7, <2>8, <2>9, <2>10, <2>11,
       <2>12, <2>13, <2>14, <2>15, <2>16, <2>17
       DEF Next, Start, Shutdown, Ended
<1>3. QED
  BY <1>1, <1>2, PTL DEF Spec

\* stopChan is closed at most once, whoever calls shutdown and when.
THEOREM TypeCorrect == Spec => []TypeOK
BY Invariance, PTL

\* The store closes only after the pump has stored its last batch.
THEOREM StoreLast == Spec => []StoreOutlivesPump
<1>1. IndInv => StoreOutlivesPump
  BY DEF IndInv, StepInv, StoreOutlivesPump
<1>2. QED
  BY <1>1, Invariance, PTL

\* A process that ends by shutdown has sent every call counted before the
\* cancel.
THEOREM NothingUnsent == Spec => []FinalFlush
<1>1. IndInv => FinalFlush
  BY DEF IndInv, FlushInv, FinalFlush
<1>2. QED
  BY <1>1, Invariance, PTL
=============================================================================
