--------------------------- MODULE TelemetryProofs ---------------------------
(***************************************************************************)
(* Theorems about Telemetry for any number of recorders, tools, error      *)
(* kinds, arguments and sends.                                             *)
(***************************************************************************)
EXTENDS Telemetry, SequenceTheorems, TLAPS

\* A sequence without one of its elements is a sequence over the same set.
LEMMA RemoveAtType ==
  ASSUME NEW S, NEW s \in Seq(S), NEW i \in DOMAIN s
  PROVE  RemoveAt(s, i) \in Seq(S)
<1>1. i \in Int /\ 1 <= i /\ i <= Len(s) /\ Len(s) \in Nat
  OBVIOUS
<1>2. SubSeq(s, 1, i - 1) \in Seq(S)
  <2>1. \A j \in 1 .. i - 1 : s[j] \in S
    BY <1>1
  <2>2. QED
    BY <1>1, <2>1, SubSeqProperties
<1>3. SubSeq(s, i + 1, Len(s)) \in Seq(S)
  <2>1. \A j \in i + 1 .. Len(s) : s[j] \in S
    BY <1>1
  <2>2. QED
    BY <1>1, <2>1, SubSeqProperties
<1>4. QED
  BY <1>2, <1>3 DEF RemoveAt

\* What each kind of recording adds.
LEMMA StepFacts ==
  /\ \A t \in Tools, n \in Params : ToolCall(t, n) \in Seq(Addition)
  /\ \A e \in Errors : ErrorOf(e) \in Seq(Addition)
  /\ \A h \in BOOLEAN : CacheResult(h) \in Seq(Addition)
<1>1. \A c \in Counters : One(c) \in Addition
  BY DEF One, Addition
<1>2. \A n \in Params : [counter |-> "params", by |-> n] \in Addition
  BY TelemetryAssumption DEF Addition, Counters, Fixed
<1>3. /\ Tools \subseteq Counters
      /\ "count" \in Counters /\ "hits" \in Counters /\ "misses" \in Counters
  BY DEF Counters, Keys, Fixed
<1>4. \A e \in Errors : normalizeErrorKind(e) \in Counters
  BY TelemetryAssumption DEF normalizeErrorKind, Counters, Keys
<1>5. QED
  BY <1>1, <1>2, <1>3, <1>4 DEF ToolCall, ErrorOf, CacheResult

\* Whatever is recorded is a sequence of Adds to counters that exist.
LEMMA RecordedSteps == Reported \cup Looked \subseteq Seq(Addition)
<1>1. ASSUME NEW a \in Seq(Addition), NEW b \in Seq(Addition)
      PROVE  a \o b \in Seq(Addition)
  OBVIOUS
<1>2. \A a \in Looked : a \in Seq(Addition)
  BY StepFacts DEF Looked
<1>3. \A a \in {ToolCall(t, n) : t \in Tools, n \in Params} :
        a \in Seq(Addition)
  BY StepFacts
<1>4. \A a \in Reported : a \in Seq(Addition)
  <2> DEFINE calls == {ToolCall(t, n) : t \in Tools, n \in Params}
  <2> HIDE DEF calls
  <2>1. \A a \in calls : a \in Seq(Addition)
    BY <1>3 DEF calls
  <2>2. \A a \in calls, e \in Errors : a \o ErrorOf(e) \in Seq(Addition)
    BY <1>1, <2>1, StepFacts
  <2>3. Reported = calls \cup {a \o ErrorOf(e) : a \in calls, e \in Errors}
    BY DEF Reported, calls
  <2>4. ASSUME NEW b \in Reported PROVE b \in Seq(Addition)
    <3>1. CASE b \in calls
      BY <2>1, <3>1
    <3>2. CASE b \in {a \o ErrorOf(e) : a \in calls, e \in Errors}
      <4>1. PICK a \in calls, e \in Errors : b = a \o ErrorOf(e)
        BY <3>2
      <4>2. QED
        BY <2>2, <4>1
    <3>3. QED
      BY <2>3, <3>1, <3>2
  <2>5. QED
    BY <2>4
<1>5. QED
  BY <1>2, <1>4

\* The counters keep their types in every step of recorders and flush loop.
THEOREM TypeCorrect == Spec => []TypeOK
<1>1. Init => TypeOK
  <2> SUFFICES ASSUME Init PROVE TypeOK
    OBVIOUS
  <2>1. Zero \in [Counters -> Nat]
    BY DEF Zero
  <2>2. adds \in [Callers -> Seq(Addition)]
    BY DEF Init
  <2>3. sending \in Seq([Counters -> Nat])
    BY DEF Init
  <2>4. QED
    BY <2>1, <2>2, <2>3 DEF Init, TypeOK
<1>2. TypeOK /\ [Next]_vars => TypeOK'
  <2> SUFFICES ASSUME TypeOK, [Next]_vars PROVE TypeOK'
    OBVIOUS
  <2> USE DEF TypeOK
  <2>1. ASSUME NEW r \in Callers, NEW a \in Reported \cup Looked, Record(r, a)
        PROVE  TypeOK'
    <3>1. a \in Seq(Addition)
      BY RecordedSteps
    <3>2. adds' \in [Callers -> Seq(Addition)]
      BY <2>1, <3>1 DEF Record
    <3>3. QED
      BY <2>1, <3>2 DEF Record
  <2>2. ASSUME NEW r \in Callers, LoadOrStore(r)
        PROVE  TypeOK'
    BY <2>2 DEF LoadOrStore, Due, Keys
  <2>3. ASSUME NEW r \in Callers, Add(r)
        PROVE  TypeOK'
    <3> DEFINE d == Head(adds[r])
    <3>1. d \in Addition /\ Tail(adds[r]) \in Seq(Addition)
      BY <2>3 DEF Add
    <3>2. d.counter \in Counters /\ d.by \in Nat
      BY <3>1 DEF Addition
    <3>3. /\ agg' = [agg EXCEPT ![d.counter] = @ + d.by]
          /\ recorded' = [recorded EXCEPT ![d.counter] = @ + d.by]
          /\ adds' = [adds EXCEPT ![r] = Tail(@)]
      BY <2>3 DEF Add, Due
    <3> HIDE DEF d
    <3>4. agg' \in [Counters -> Nat] /\ recorded' \in [Counters -> Nat]
      BY <3>2, <3>3
    <3>5. adds' \in [Callers -> Seq(Addition)]
      BY <3>1, <3>3 DEF Addition
    <3>6. QED
      BY <2>3, <3>4, <3>5 DEF Add
  <2>4. ASSUME Start \/ FlushTick \/ LastFlush \/ Cancel
        PROVE  TypeOK'
    BY <2>4 DEF Start, FlushTick, LastFlush, Flush, Cancel
  <2>5. ASSUME NEW c \in Counters, Swap(c) \/ Skip(c)
        PROVE  TypeOK'
    <3>1. CASE Swap(c)
      BY <3>1 DEF Swap, ReadAndReset
    <3>2. CASE Skip(c)
      BY <3>2 DEF Skip
    <3>3. QED
      BY <2>5, <3>1, <3>2
  <2>6. ASSUME FlushEnd
        PROVE  TypeOK'
    <3>1. flushed' \in [Counters -> Nat] /\ snap' \in [Counters -> Nat]
      BY <2>6 DEF FlushEnd, Zero
    <3>2. sending' \in Seq([Counters -> Nat])
      BY <2>6 DEF FlushEnd
    <3>3. QED
      BY <2>6, <3>1, <3>2 DEF FlushEnd
  <2>7. ASSUME SendEnds
        PROVE  TypeOK'
    <3>1. PICK i \in DOMAIN sending : sending' = RemoveAt(sending, i)
      BY <2>7 DEF SendEnds
    <3>2. sending' \in Seq([Counters -> Nat])
      BY <3>1, RemoveAtType
    <3>3. QED
      BY <2>7, <3>2 DEF SendEnds
  <2>8. CASE UNCHANGED vars
    BY <2>8 DEF vars
  <2> HIDE DEF TypeOK
  <2>9. QED
    BY <2>1, <2>2, <2>3, <2>4, <2>5, <2>6, <2>7, <2>8 DEF Next, Adding, Flushing
<1>3. QED
  BY <1>1, <1>2, PTL DEF Spec

-----------------------------------------------------------------------------
(***************************************************************************)
(* What a flush reads, against what recorders add meanwhile.               *)
(***************************************************************************)

\* A snapshot holds nothing of the counters it has still to read, in every
\* step of the loop and whatever recorders add.
LEMMA FlushPreserved ==
  TypeOK /\ TypeOK' /\ FlushInv /\ [Next]_vars => FlushInv'
<1> SUFFICES ASSUME TypeOK, TypeOK', FlushInv, [Next]_vars PROVE FlushInv'
  OBVIOUS
<1> USE DEF FlushInv
<1>1. ASSUME NEW r \in Callers, NEW a \in Reported \cup Looked, Record(r, a)
      PROVE  FlushInv'
  BY <1>1 DEF Record
<1>2. ASSUME NEW r \in Callers, LoadOrStore(r) \/ Add(r)
      PROVE  FlushInv'
  BY <1>2 DEF LoadOrStore, Add
<1>3. CASE Start \/ FlushTick \/ LastFlush \/ SendEnds \/ Cancel
  BY <1>3 DEF Start, FlushTick, LastFlush, Flush, SendEnds, Cancel
<1>4. ASSUME NEW c \in Counters, Swap(c)
      PROVE  FlushInv'
  <2>1. /\ c \in todo /\ todo' = todo \ {c} /\ loop' = loop
        /\ snap' = [snap EXCEPT ![c] = agg[c]]
    BY <1>4 DEF Swap, ReadAndReset
  <2>2. loop \in {"flushing", "last"}
    BY <2>1
  <2>3. \A d \in todo' : snap'[d] = 0
    BY <2>1 DEF TypeOK
  <2>4. QED
    BY <2>1, <2>2, <2>3
<1>5. ASSUME NEW c \in Counters, Skip(c)
      PROVE  FlushInv'
  BY <1>5 DEF Skip
<1>6. CASE FlushEnd
  BY <1>6 DEF FlushEnd, Zero
<1>7. CASE UNCHANGED vars
  BY <1>7 DEF vars
<1>8. QED
  BY <1>1, <1>2, <1>3, <1>4, <1>5, <1>6, <1>7 DEF Next, Adding, Flushing

\* A key has a counter before anything is added under it, and keeps it.
LEMMA KeyPreserved == TypeOK /\ KeyInv /\ [Next]_vars => KeyInv'
<1> SUFFICES ASSUME TypeOK, KeyInv, [Next]_vars PROVE KeyInv'
  OBVIOUS
<1> USE DEF KeyInv
<1>1. ASSUME NEW r \in Callers, NEW a \in Reported \cup Looked, Record(r, a)
      PROVE  KeyInv'
  BY <1>1 DEF Record
<1>2. ASSUME NEW r \in Callers, LoadOrStore(r)
      PROVE  KeyInv'
  BY <1>2 DEF LoadOrStore
<1>3. ASSUME NEW r \in Callers, Add(r)
      PROVE  KeyInv'
  <2>1. \A c \in Keys \ known : recorded'[c] = recorded[c]
    BY <1>3 DEF Add, TypeOK, Counters
  <2>2. QED
    BY <1>3, <2>1 DEF Add
<1>4. CASE Start \/ FlushTick \/ LastFlush \/ FlushEnd \/ SendEnds \/ Cancel
  BY <1>4 DEF Start, FlushTick, LastFlush, Flush, FlushEnd, SendEnds, Cancel
<1>5. ASSUME NEW c \in Counters, Swap(c) \/ Skip(c)
      PROVE  KeyInv'
  BY <1>5 DEF Swap, Skip
<1>6. CASE UNCHANGED vars
  BY <1>6 DEF vars
<1>7. QED
  BY <1>1, <1>2, <1>3, <1>4, <1>5, <1>6 DEF Next, Adding, Flushing

\* No Add is lost and none is counted twice in any step.
LEMMA ConservationPreserved ==
  TypeOK /\ FlushInv /\ Conservation /\ [Next]_vars => Conservation'
<1> SUFFICES ASSUME TypeOK, FlushInv, Conservation, [Next]_vars
             PROVE  Conservation'
  OBVIOUS
<1> USE DEF Conservation
<1>1. ASSUME NEW r \in Callers, NEW a \in Reported \cup Looked, Record(r, a)
      PROVE  Conservation'
  BY <1>1 DEF Record
<1>2. ASSUME NEW r \in Callers, LoadOrStore(r)
      PROVE  Conservation'
  BY <1>2 DEF LoadOrStore
<1>3. ASSUME NEW r \in Callers, Add(r)
      PROVE  Conservation'
  <2> DEFINE d == Head(adds[r])
  <2>1. d \in Addition
    BY <1>3 DEF Add, TypeOK
  <2>2. d.counter \in Counters /\ d.by \in Nat
    BY <2>1 DEF Addition
  <2>3. /\ agg' = [agg EXCEPT ![d.counter] = @ + d.by]
        /\ recorded' = [recorded EXCEPT ![d.counter] = @ + d.by]
        /\ snap' = snap /\ flushed' = flushed
    BY <1>3 DEF Add, Due
  <2> HIDE DEF d
  <2>4. ASSUME NEW c \in Counters
        PROVE  recorded'[c] = agg'[c] + snap'[c] + flushed'[c]
    <3>1. agg[c] \in Nat /\ snap[c] \in Nat /\ flushed[c] \in Nat
      BY DEF TypeOK
    <3>2. recorded[c] = agg[c] + snap[c] + flushed[c]
      OBVIOUS
    <3>3. \/ agg'[c] = agg[c] + d.by /\ recorded'[c] = recorded[c] + d.by
          \/ agg'[c] = agg[c] /\ recorded'[c] = recorded[c]
      BY <2>2, <2>3 DEF TypeOK
    <3>4. QED
      BY <2>2, <2>3, <3>1, <3>2, <3>3
  <2>5. QED
    BY <2>4
<1>4. CASE Start \/ FlushTick \/ LastFlush \/ SendEnds \/ Cancel
  BY <1>4 DEF Start, FlushTick, LastFlush, Flush, SendEnds, Cancel
<1>5. ASSUME NEW c \in Counters, Swap(c)
      PROVE  Conservation'
  <2>1. /\ c \in todo
        /\ snap' = [snap EXCEPT ![c] = agg[c]] /\ agg' = [agg EXCEPT ![c] = 0]
        /\ recorded' = recorded /\ flushed' = flushed
    BY <1>5 DEF Swap, ReadAndReset
  <2>2. snap[c] = 0
    BY <2>1 DEF FlushInv
  <2>3. QED
    BY <2>1, <2>2 DEF TypeOK
<1>6. ASSUME NEW c \in Counters, Skip(c)
      PROVE  Conservation'
  BY <1>6 DEF Skip
<1>7. CASE FlushEnd
  <2>1. /\ flushed' = [c \in Counters |-> flushed[c] + snap[c]]
        /\ snap' = [c \in Counters |-> 0]
        /\ agg' = agg /\ recorded' = recorded
    BY <1>7 DEF FlushEnd, Zero
  <2>2. ASSUME NEW c \in Counters
        PROVE  recorded'[c] = agg'[c] + snap'[c] + flushed'[c]
    <3>1. agg[c] \in Nat /\ snap[c] \in Nat /\ flushed[c] \in Nat
      BY DEF TypeOK
    <3>2. recorded[c] = agg[c] + snap[c] + flushed[c]
      OBVIOUS
    <3>3. snap'[c] = 0 /\ flushed'[c] = flushed[c] + snap[c]
      BY <2>1
    <3>4. QED
      BY <2>1, <3>1, <3>2, <3>3
  <2>3. QED
    BY <2>2
<1>8. CASE UNCHANGED vars
  BY <1>8 DEF vars
<1>9. QED
  BY <1>1, <1>2, <1>3, <1>4, <1>5, <1>6, <1>7, <1>8 DEF Next, Adding, Flushing

\* A counter read by the last snapshot leaves nothing of what was due behind.
LEMMA DuePreserved ==
  /\ TypeOK /\ FlushInv /\ KeyInv /\ Conservation
  /\ DueInv /\ LastFlushIsComplete /\ [Next]_vars
  => DueInv' /\ LastFlushIsComplete'
<1> SUFFICES ASSUME TypeOK, FlushInv, KeyInv, Conservation,
                    DueInv, LastFlushIsComplete, [Next]_vars
             PROVE  DueInv' /\ LastFlushIsComplete'
  OBVIOUS
<1> USE DEF DueInv, LastFlushIsComplete
<1>0. /\ agg \in [Counters -> Nat] /\ snap \in [Counters -> Nat]
      /\ recorded \in [Counters -> Nat] /\ flushed \in [Counters -> Nat]
      /\ due \in [Counters -> Nat]
  BY DEF TypeOK
<1>1. ASSUME NEW r \in Callers, NEW a \in Reported \cup Looked, Record(r, a)
      PROVE  DueInv' /\ LastFlushIsComplete'
  BY <1>1 DEF Record
<1>2. ASSUME NEW r \in Callers, LoadOrStore(r)
      PROVE  DueInv' /\ LastFlushIsComplete'
  BY <1>2 DEF LoadOrStore
<1>3. ASSUME NEW r \in Callers, Add(r)
      PROVE  DueInv' /\ LastFlushIsComplete'
  <2> DEFINE d == Head(adds[r])
  <2>1. d \in Addition
    BY <1>3 DEF Add, TypeOK
  <2>2. d.counter \in Counters /\ d.by \in Nat
    BY <2>1 DEF Addition
  <2>3. /\ recorded' = [recorded EXCEPT ![d.counter] = @ + d.by]
        /\ snap' = snap /\ flushed' = flushed /\ due' = due /\ todo' = todo
        /\ loop' = loop /\ cancelled' = cancelled
    BY <1>3 DEF Add, Due
  <2> HIDE DEF d
  <2>4. \A c \in Counters : recorded'[c] >= recorded[c]
    BY <1>0, <2>2, <2>3
  <2>5. \A c \in Counters : due'[c] <= recorded'[c]
    <3>1. recorded' \in [Counters -> Nat]
      BY <1>0, <2>2, <2>3
    <3>2. QED
      BY <1>0, <2>3, <2>4, <3>1
  <2>6. QED
    BY <2>3, <2>5
<1>4. CASE Start \/ FlushTick \/ LastFlush
  BY <1>4, <1>0 DEF Start, FlushTick, LastFlush, Flush
<1>5. CASE SendEnds
  BY <1>5 DEF SendEnds
<1>6. CASE Cancel
  BY <1>6, <1>0 DEF Cancel
<1>7. ASSUME NEW c \in Counters, Swap(c)
      PROVE  DueInv' /\ LastFlushIsComplete'
  <2>1. /\ c \in todo /\ todo' = todo \ {c}
        /\ snap' = [snap EXCEPT ![c] = agg[c]]
        /\ recorded' = recorded /\ flushed' = flushed /\ due' = due
        /\ loop' = loop /\ cancelled' = cancelled
    BY <1>7 DEF Swap, ReadAndReset
  <2>2. snap[c] = 0 /\ recorded[c] = agg[c] + snap[c] + flushed[c]
    BY <2>1 DEF FlushInv, Conservation
  <2>3. snap'[c] + flushed[c] >= due[c]
    BY <1>0, <2>1, <2>2
  <2>4. \A e \in Counters \ {c} : snap'[e] = snap[e]
    BY <1>0, <2>1
  <2>5. loop = "last" =>
          \A e \in Counters \ todo' : snap'[e] + flushed[e] >= due[e]
    BY <2>1, <2>3, <2>4
  <2>6. loop \in {"flushing", "last"}
    BY <2>1 DEF FlushInv
  <2>7. QED
    BY <2>1, <2>5, <2>6
<1>8. ASSUME NEW c \in Counters, Skip(c)
      PROVE  DueInv' /\ LastFlushIsComplete'
  <2>1. /\ c \in Keys \ known /\ todo' = todo \ {c}
        /\ snap' = snap /\ recorded' = recorded /\ flushed' = flushed
        /\ due' = due /\ loop' = loop /\ cancelled' = cancelled
    BY <1>8 DEF Skip
  <2>2. recorded[c] = 0 /\ due[c] <= recorded[c]
    BY <2>1 DEF KeyInv
  <2>3. snap[c] + flushed[c] >= due[c]
    BY <1>0, <2>2
  <2>4. QED
    BY <2>1, <2>3
<1>9. CASE FlushEnd
  <2>1. /\ flushed' = [c \in Counters |-> flushed[c] + snap[c]]
        /\ recorded' = recorded /\ due' = due /\ cancelled' = cancelled
        /\ loop' = IF loop = "flushing" THEN "waiting" ELSE "done"
        /\ loop \in {"flushing", "last"} /\ todo = {}
    BY <1>9 DEF FlushEnd
  <2>2. loop' \in {"last", "done"} => loop = "last"
    BY <2>1
  <2>3. loop = "last" => \A c \in Counters : flushed'[c] >= due[c]
    BY <1>0, <2>1
  <2>4. QED
    BY <2>1, <2>2, <2>3
<1>10. CASE UNCHANGED vars
  BY <1>10 DEF vars
<1>11. QED
  BY <1>1, <1>2, <1>3, <1>4, <1>5, <1>6, <1>7, <1>8, <1>9, <1>10
  DEF Next, Adding, Flushing

-----------------------------------------------------------------------------
\* The inductive invariant of recorders and flush loop holds in every
\* reachable state.
THEOREM Invariance == Spec => []IndInv
<1>1. Init => IndInv
  BY DEF Init, IndInv, FlushInv, KeyInv, DueInv, Conservation,
         LastFlushIsComplete, Zero, Counters
<1>2. TypeOK /\ TypeOK' /\ IndInv /\ [Next]_vars => IndInv'
  BY FlushPreserved, KeyPreserved, ConservationPreserved, DuePreserved
  DEF IndInv
<1>3. QED
  BY <1>1, <1>2, TypeCorrect, PTL DEF Spec

\* snapshot's Swaps and the recorders' Adds neither lose nor repeat a count.
THEOREM NothingLost == Spec => []Conservation
<1>1. IndInv => Conservation
  BY DEF IndInv
<1>2. QED
  BY <1>1, Invariance, PTL

\* run's last flush covers every Add that came before the cancellation.
THEOREM LastFlushCovers == Spec => []LastFlushIsComplete
<1>1. IndInv => LastFlushIsComplete
  BY DEF IndInv
<1>2. QED
  BY <1>1, Invariance, PTL
=============================================================================
