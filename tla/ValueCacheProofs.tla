-------------------------- MODULE ValueCacheProofs --------------------------
(***************************************************************************)
(* Theorems about ValueCache for any keys, calls, ages and versions.       *)
(***************************************************************************)
EXTENDS ValueCache, Induction, SequenceTheorems, TLAPS

\* What was current stays so at its time when a new version appears later.
LEMMA StaysCurrent ==
  ASSUME LiveTypes, NEW k \in Keys, NewVersion(k),
         NEW j \in Keys, NEW v \in Nat, NEW t \in Int, t <= clock,
         CurrentAt(j, v, t)
  PROVE  CurrentAt(j, v, t)'
<1>1. born' = [born EXCEPT ![k] = Append(@, clock)]
  BY DEF NewVersion
<1>2. born[j] \in Seq(Nat) /\ clock \in Nat
  BY DEF LiveTypes
<1>3. CASE j = k
  <2>1. born'[j] = Append(born[j], clock)
    BY <1>1, <1>3 DEF LiveTypes
  <2>2. /\ Len(born'[j]) = Len(born[j]) + 1
        /\ \A i \in 1 .. Len(born[j]) : born'[j][i] = born[j][i]
        /\ born'[j][Len(born[j]) + 1] = clock
    BY <1>2, <2>1
  <2>3. QED
    BY <1>2, <2>2 DEF CurrentAt, Device
<1>4. CASE j # k
  <2>1. born'[j] = born[j]
    BY <1>1, <1>4 DEF LiveTypes
  <2>2. QED
    BY <2>1 DEF CurrentAt, Device
<1>5. QED
  BY <1>3, <1>4

\* The server's versions after one has appeared.
LEMMA OneMore ==
  ASSUME LiveTypes, NEW k \in Keys, NewVersion(k)
  PROVE  /\ born' \in [Keys -> Seq(Nat)]
         /\ \A j \in Keys : Device(j)' = IF j = k THEN Device(j) + 1 ELSE Device(j)
         /\ \A j \in Keys : Device(j) \in Nat
<1>1. born \in [Keys -> Seq(Nat)] /\ clock \in Nat
  BY DEF LiveTypes
<1>2. born' = [born EXCEPT ![k] = Append(@, clock)]
  BY DEF NewVersion
<1>3. born' \in [Keys -> Seq(Nat)]
  BY <1>1, <1>2
<1>4. \A j \in Keys : born'[j] = IF j = k THEN Append(born[j], clock) ELSE born[j]
  BY <1>1, <1>2
<1>5. \A j \in Keys :
        Len(born[j]) \in Nat /\ Len(Append(born[j], clock)) = Len(born[j]) + 1
  BY <1>1
<1>6. QED
  BY <1>3, <1>4, <1>5 DEF Device

\* The two invariants survive a new version, whatever the writers' labels do,
\* as long as each stands on what it has written.
LEMMA VersionStep ==
  ASSUME IndInv, NEW k \in Keys, NewVersion(k),
         UNCHANGED <<clock, cache, now, miss, late, got, key, acked>>,
         wrote' \in [Callers -> Nat], DOMAIN pc' = Callers,
         \A p \in Callers : pc'[p] = "put" => pc[p] = "put",
         \A p \in Callers :
           pc'[p] \in {"check", "delete"} => wrote'[p] <= Device(key[p])'
  PROVE  IndInv'
<1>1. LiveTypes /\ AgeInv /\ AckInv
  BY DEF IndInv
<1>2. /\ born' \in [Keys -> Seq(Nat)]
      /\ \A j \in Keys : Device(j)' = IF j = k THEN Device(j) + 1 ELSE Device(j)
      /\ \A j \in Keys : Device(j) \in Nat
  BY <1>1, OneMore
<1>3. LiveTypes'
  BY <1>1, <1>2 DEF LiveTypes, IsEntry
<1>4. \A p \in Callers : \A j \in DOMAIN got[p] :
        /\ j \in Keys /\ got[p][j].val \in Nat /\ got[p][j].sampled \in Nat
        /\ CurrentAt(j, got[p][j].val, got[p][j].sampled)'
  <2> TAKE p \in Callers
  <2> TAKE j \in DOMAIN got[p]
  <2>1. /\ j \in Keys /\ got[p][j].val \in Nat /\ got[p][j].sampled \in Nat
        /\ got[p][j].sampled <= clock
        /\ CurrentAt(j, got[p][j].val, got[p][j].sampled)
    BY <1>1 DEF LiveTypes, AgeInv, IsMap
  <2>2. CurrentAt(j, got[p][j].val, got[p][j].sampled)'
    BY <1>1, <2>1, StaysCurrent DEF CurrentAt
  <2>3. QED
    BY <2>1, <2>2
<1>5. \A j \in DOMAIN cache : cache[j].source = "live" =>
        CurrentAt(j, cache[j].val, cache[j].at - cache[j].took)'
  <2> SUFFICES ASSUME NEW j \in DOMAIN cache, cache[j].source = "live"
               PROVE  CurrentAt(j, cache[j].val, cache[j].at - cache[j].took)'
    OBVIOUS
  <2>1. /\ j \in Keys /\ cache[j].val \in Nat
        /\ cache[j].at - cache[j].took \in Int
        /\ cache[j].at - cache[j].took <= clock
        /\ CurrentAt(j, cache[j].val, cache[j].at - cache[j].took)
    BY <1>1 DEF LiveTypes, AgeInv
  <2>2. QED
    BY <1>1, <2>1, StaysCurrent DEF CurrentAt
<1>6. AgeInv'
  BY <1>1, <1>4, <1>5 DEF AgeInv, CurrentAt
<1>7. AckInv'
  <2>1. \A j \in ValueKeys : acked'[j] <= Device(j)'
    <3> TAKE j \in ValueKeys
    <3>1. j \in Keys /\ acked[j] \in Nat /\ acked[j] <= Device(j)
      BY <1>1 DEF AckInv, LiveTypes, Keys
    <3>2. Device(j) \in Nat /\ (Device(j)' = Device(j) + 1 \/ Device(j)' = Device(j))
      BY <1>2, <3>1
    <3>3. QED
      BY <3>1, <3>2
  <2>2. OnlyRacesLeaveStaleEntries'
    BY <1>1 DEF AckInv, OnlyRacesLeaveStaleEntries
  <2>3. QED
    BY <1>1, <2>1, <2>2 DEF AckInv
<1>8. QED
  BY <1>3, <1>6, <1>7 DEF IndInv

\* A call that moves on without an answer, a new entry or a new version.
LEMMA MoveStep ==
  ASSUME IndInv,
         UNCHANGED <<clock, born, cache, now, late, got, wrote, acked>>,
         miss' \in [Callers -> SUBSET Keys], key' \in [Callers -> ValueKeys],
         DOMAIN pc' = Callers,
         \A p \in Callers : pc'[p] = "put" => pc[p] = "put",
         \A p \in Callers : pc'[p] \in {"check", "delete"} =>
           pc[p] \in {"check", "delete"} /\ key'[p] = key[p]
  PROVE  IndInv'
<1>1. LiveTypes'
  BY DEF IndInv, LiveTypes, IsEntry
<1>2. AgeInv'
  BY DEF IndInv, AgeInv, CurrentAt, Device
<1>3. AckInv'
  BY DEF IndInv, AckInv, OnlyRacesLeaveStaleEntries, Device
<1>4. QED
  BY <1>1, <1>2, <1>3 DEF IndInv

\* The later of two versions.
LEMMA MaxOfTwo ==
  ASSUME NEW m \in Nat, NEW n \in Nat
  PROVE  Max({m, n}) = IF m >= n THEN m ELSE n
BY DEF Max

\* A write is acknowledged while its key's entry is gone, pushed or marked.
LEMMA AckStep ==
  ASSUME IndInv, NEW p \in Callers, pc[p] \in {"check", "delete"},
         Acknowledge(p),
         UNCHANGED <<clock, born, now, miss, got, key, wrote>>,
         DOMAIN cache' \subseteq DOMAIN cache,
         \A j \in DOMAIN cache' :
           /\ IsEntry(cache'[j])
           /\ cache'[j].source = cache[j].source /\ cache'[j].val = cache[j].val
           /\ cache'[j].at = cache[j].at /\ cache'[j].took = cache[j].took,
         \A j \in DOMAIN cache' : j # key[p] => cache'[j] = cache[j],
         key[p] \in DOMAIN cache' /\ cache'[key[p]].source = "live" =>
           cache'[key[p]].suspect
  PROVE  IndInv'
<1> DEFINE k == key[p]
<1>1. LiveTypes /\ AgeInv /\ AckInv
  BY DEF IndInv
<1>2. /\ k \in ValueKeys /\ k \in Keys /\ wrote[p] \in Nat /\ acked[k] \in Nat
      /\ Device(k) \in Nat /\ wrote[p] <= Device(k) /\ acked[k] <= Device(k)
  BY <1>1 DEF LiveTypes, AckInv, Keys, Device
<1>3. /\ acked' = [acked EXCEPT ![k] = Max({@, wrote[p]})]
      /\ late' = [r \in Callers |->
                    IF k \in DOMAIN got[r] THEN late[r] \cup {k} ELSE late[r]]
      /\ pc' = [pc EXCEPT ![p] = "idle"]
  BY DEF Acknowledge, Goto
<1>4. Max({acked[k], wrote[p]}) \in Nat /\ Max({acked[k], wrote[p]}) <= Device(k)
  BY <1>2, MaxOfTwo
<1>5. /\ acked' \in [ValueKeys -> Nat] /\ acked'[k] <= Device(k)
      /\ \A j \in ValueKeys \ {k} : acked'[j] = acked[j]
  BY <1>1, <1>2, <1>3, <1>4 DEF LiveTypes
<1>6. /\ late' \in [Callers -> SUBSET Keys]
      /\ \A r \in Callers : late[r] \subseteq late'[r]
      /\ \A r \in Callers : k \in DOMAIN got[r] => k \in late'[r]
  BY <1>1, <1>2, <1>3 DEF LiveTypes
<1>7. /\ DOMAIN pc' = Callers /\ pc'[p] = "idle"
      /\ \A r \in Callers \ {p} : pc'[r] = pc[r]
  BY <1>1, <1>3 DEF LiveTypes
<1> HIDE DEF k
<1>8. LiveTypes'
  BY <1>1, <1>5, <1>6, <1>7 DEF LiveTypes
<1>9. AgeInv'
  <2>1. \A j \in DOMAIN cache' : cache'[j].source = "live" =>
          /\ cache'[j].at - cache'[j].took <= clock'
          /\ CurrentAt(j, cache[j].val, cache[j].at - cache[j].took)'
    BY <1>1 DEF AgeInv, CurrentAt, Device
  <2>2. QED
    BY <1>1, <1>7, <2>1 DEF AgeInv, CurrentAt, Device
<1>10. AckInv'
  <2>1. \A j \in ValueKeys : acked'[j] <= Len(born'[j])
    BY <1>1, <1>5 DEF AckInv, Device
  <2>2. \A r \in Callers :
          pc'[r] \in {"check", "delete"} => wrote'[r] <= Len(born'[key'[r]])
    <3> TAKE r \in Callers
    <3>1. pc'[r] \in {"check", "delete"} => pc[r] \in {"check", "delete"}
      BY <1>7
    <3>2. QED
      BY <1>1, <3>1 DEF AckInv, Device
  <2>3. \A r \in Callers : \A j \in DOMAIN got'[r] \cap ValueKeys :
          j \notin late'[r] => got'[r][j].val >= acked'[j]
    BY <1>1, <1>5, <1>6 DEF AckInv
  <2>4. OnlyRacesLeaveStaleEntries'
    <3> SUFFICES ASSUME NEW j \in DOMAIN cache' \cap ValueKeys,
                        cache'[j].source = "live", ~cache'[j].suspect
                 PROVE  cache'[j].val >= acked'[j]
      BY DEF OnlyRacesLeaveStaleEntries
    <3>1. j # k /\ cache'[j] = cache[j]
      BY DEF k
    <3>2. QED
      BY <1>1, <1>5, <3>1 DEF AckInv, OnlyRacesLeaveStaleEntries
  <2>5. QED
    BY <2>1, <2>2, <2>3, <2>4 DEF AckInv, Device
<1>11. QED
  BY <1>8, <1>9, <1>10 DEF IndInv

\* The entry that an invalidation leaves behind is marked.
LEMMA MarkedStep ==
  ASSUME IndInv, NEW p \in Callers, pc[p] \in {"check", "delete"},
         Acknowledge(p), key[p] \in DOMAIN cache, cache' = Suspected(key[p]),
         UNCHANGED <<clock, born, now, miss, got, key, wrote>>
  PROVE  IndInv'
<1> DEFINE k == key[p]
<1>1. \A j \in DOMAIN cache : IsEntry(cache[j])
  BY DEF IndInv, LiveTypes
<1>2. /\ DOMAIN cache' = DOMAIN cache
      /\ \A j \in DOMAIN cache \ {k} : cache'[j] = cache[j]
      /\ cache'[k] = [cache[k] EXCEPT !.suspect = TRUE]
  BY DEF Suspected
<1>3. cache[k] = [val |-> cache[k].val, at |-> cache[k].at,
                  source |-> cache[k].source, took |-> cache[k].took,
                  suspect |-> cache[k].suspect]
  BY <1>1 DEF IsEntry
<1>4. /\ cache'[k] = [val |-> cache[k].val, at |-> cache[k].at,
                      source |-> cache[k].source, took |-> cache[k].took,
                      suspect |-> TRUE]
  BY <1>2, <1>3
<1>5. /\ IsEntry(cache'[k]) /\ cache'[k].suspect
      /\ cache'[k].source = cache[k].source /\ cache'[k].val = cache[k].val
      /\ cache'[k].at = cache[k].at /\ cache'[k].took = cache[k].took
  BY <1>4 DEF IsEntry
<1>6. QED
  BY <1>1, <1>2, <1>5, AckStep

\* What a live entry says is true when it was fetched, and a live entry older
\* than an acknowledged write is marked: both hold initially and are kept.
THEOREM Invariance == Spec => []IndInv
<1>1. Init => IndInv
  <2> SUFFICES ASSUME Init PROVE IndInv
    OBVIOUS
  <2>1. PICK k \in ValueKeys : TRUE
    BY ValueCacheAssumption
  <2>2. key \in [Callers -> ValueKeys]
    BY <2>1 DEF Init
  <2>3. \A j \in Keys : born[j] = <<0>>
    BY DEF Init
  <2>4. LiveTypes
    <3>1. /\ now \in [Callers -> Nat] /\ wrote \in [Callers -> Nat]
          /\ miss \in [Callers -> SUBSET Keys] /\ late \in [Callers -> SUBSET Keys]
          /\ acked \in [ValueKeys -> Nat]
      BY DEF Init
    <3>2. born \in [Keys -> Seq(Nat)]
      BY DEF Init
    <3>3. /\ clock \in Nat /\ DOMAIN cache = {}
          /\ DOMAIN got = Callers /\ \A p \in Callers : DOMAIN got[p] = {}
          /\ DOMAIN pc = Callers
      BY DEF Init, Empty
    <3>4. QED
      BY <2>2, <3>1, <3>2, <3>3 DEF LiveTypes, IsMap
  <2>5. AgeInv
    BY DEF Init, AgeInv, Empty
  <2>6. AckInv
    BY <2>3 DEF Init, AckInv, OnlyRacesLeaveStaleEntries, Empty, Device, Keys
  <2>7. QED
    BY <2>4, <2>5, <2>6 DEF IndInv
<1>2. IndInv /\ [Next]_vars => IndInv'
  <2> SUFFICES ASSUME IndInv, [Next]_vars PROVE IndInv'
    OBVIOUS
  <2>0. LiveTypes /\ AgeInv /\ AckInv
    BY DEF IndInv
  <2>1. ASSUME NEW p \in Callers, NEW S \in SUBSET Keys, NEW a \in MaxAges,
               ReadStart(p, S, a)
        PROVE  IndInv'
    BY <2>0, <2>1, MoveStep DEF ReadStart, Begin, Goto, writer, LiveTypes
  <2>2. ASSUME NEW p \in Callers, NEW k \in ValueKeys, WriteStart(p, k)
        PROVE  IndInv'
    BY <2>0, <2>2, MoveStep DEF WriteStart, Begin, Goto, reader, LiveTypes
  <2>3. ASSUME NEW p \in Callers, NEW k \in Keys, Lookup(p, k) PROVE IndInv'
    <3>1. /\ miss' \in [Callers -> SUBSET Keys]
          /\ DOMAIN pc' = Callers /\ pc'[p] \in {"lookup", "idle", "live"}
          /\ \A q \in Callers \ {p} : pc'[q] = pc[q]
      <4> DEFINE next == IF want'[p] # {} THEN "lookup"
                         ELSE IF miss'[p] = {} THEN "idle" ELSE "live"
      <4>1. miss' = miss \/ miss' = [miss EXCEPT ![p] = @ \cup {k}]
        BY <2>3 DEF Lookup
      <4>2. miss' \in [Callers -> SUBSET Keys]
        <5>1. miss \in [Callers -> SUBSET Keys]
          BY <2>0 DEF LiveTypes
        <5>2. QED
          BY <4>1, <5>1
      <4>3. pc' = [pc EXCEPT ![p] = next] /\ next \in {"lookup", "idle", "live"}
        BY <2>3 DEF Lookup, Goto
      <4> HIDE DEF next
      <4>4. QED
        BY <2>0, <4>2, <4>3 DEF LiveTypes
    <3>2. UNCHANGED <<clock, born, cache, now, late, got, key, wrote, acked>>
      BY <2>3 DEF Lookup, Touch, writer
    <3>3. QED
      BY <2>0, <3>1, <3>2, MoveStep DEF LiveTypes
  <2>4. ASSUME NEW p \in Callers, ReadFails(p) PROVE IndInv'
    BY <2>0, <2>4, MoveStep DEF ReadFails, Goto, reader, writer, LiveTypes
  <2>5. ASSUME NEW p \in Callers, ReadLive(p) PROVE IndInv'
    <3> DEFINE g == [k \in miss[p] |-> [val |-> Device(k), sampled |-> clock]]
    <3>1. /\ DOMAIN g = miss[p] /\ miss[p] \subseteq Keys
          /\ \A k \in miss[p] : g[k].val = Device(k) /\ g[k].sampled = clock
          /\ \A k \in miss[p] : g[k] \in [val : Nat, sampled : Nat]
      BY <2>0 DEF LiveTypes, Device
    <3>2. /\ DOMAIN got' = Callers /\ got'[p] = g
          /\ \A q \in Callers \ {p} : got'[q] = got[q]
          /\ late' \in [Callers -> SUBSET Keys] /\ late'[p] = {}
          /\ \A q \in Callers \ {p} : late'[q] = late[q]
          /\ DOMAIN pc' = Callers /\ pc'[p] = "reply"
          /\ \A q \in Callers \ {p} : pc'[q] = pc[q]
          /\ UNCHANGED <<clock, born, cache, miss, now, key, wrote, acked>>
      BY <2>0, <2>5 DEF ReadLive, Goto, writer, LiveTypes
    <3> HIDE DEF g
    <3>3. LiveTypes'
      BY <2>0, <3>1, <3>2 DEF LiveTypes, IsMap, IsEntry
    <3>4. AgeInv'
      <4>1. ASSUME NEW k \in DOMAIN got'[p]
            PROVE  /\ got'[p][k].sampled <= clock'
                   /\ ~(got'[p][k].val < Len(born'[k]))
        <5>1. Len(born[k]) \in Nat /\ clock \in Nat
          BY <2>0, <3>1, <3>2, <4>1 DEF LiveTypes
        <5>2. QED
          BY <3>1, <3>2, <4>1, <5>1 DEF Device
      <4>2. QED
        BY <2>0, <3>2, <4>1 DEF AgeInv, CurrentAt, Device
    <3>5. AckInv'
      <4>1. ASSUME NEW k \in DOMAIN got'[p] \cap ValueKeys
            PROVE  got'[p][k].val >= acked'[k]
        <5>1. acked[k] <= Device(k)
          BY <2>0, <4>1 DEF AckInv
        <5>2. acked[k] \in Nat /\ Device(k) \in Nat
          BY <2>0, <4>1 DEF LiveTypes, Device, Keys
        <5>3. got'[p][k].val = Device(k) /\ acked'[k] = acked[k]
          BY <3>1, <3>2, <4>1
        <5>4. QED
          BY <5>1, <5>2, <5>3
      <4>2. QED
        BY <2>0, <3>2, <4>1 DEF AckInv, OnlyRacesLeaveStaleEntries, Device
    <3>6. QED
      BY <3>3, <3>4, <3>5 DEF IndInv
  <2>6. ASSUME NEW p \in Callers, Reply(p) PROVE IndInv'
    <3>1. /\ now' \in [Callers -> Nat] /\ now'[p] = clock
          /\ \A q \in Callers \ {p} : now'[q] = now[q]
          /\ DOMAIN pc' = Callers /\ pc'[p] = "put"
          /\ \A q \in Callers \ {p} : pc'[q] = pc[q]
          /\ UNCHANGED <<clock, born, cache, miss, got, late, key, wrote, acked>>
      BY <2>0, <2>6 DEF Reply, Goto, writer, LiveTypes
    <3>2. LiveTypes'
      BY <2>0, <3>1 DEF LiveTypes, IsEntry
    <3>3. AgeInv'
      BY <2>0, <3>1 DEF AgeInv, CurrentAt, Device
    <3>4. AckInv'
      BY <2>0, <3>1 DEF AckInv, OnlyRacesLeaveStaleEntries, Device
    <3>5. QED
      BY <3>2, <3>3, <3>4 DEF IndInv
  <2>7. ASSUME NEW p \in Callers, NEW k \in Keys, PutLive(p, k) PROVE IndInv'
    <3> DEFINE e == [val |-> got[p][k].val, at |-> now[p], source |-> "live",
                     took |-> now[p] - got[p][k].sampled,
                     suspect |-> k \in late[p]]
    <3>1. /\ pc[p] = "put" /\ k \in DOMAIN got[p]
          /\ got[p][k].val \in Nat /\ got[p][k].sampled \in Nat
          /\ now[p] \in Nat /\ got[p][k].sampled <= now[p]
          /\ got[p][k].sampled <= clock
          /\ CurrentAt(k, got[p][k].val, got[p][k].sampled)
      BY <2>0, <2>7 DEF PutLive, LiveTypes, AgeInv, IsMap
    <3>2. /\ IsEntry(e) /\ e.source = "live" /\ e.val = got[p][k].val
          /\ e.val \in Nat /\ e.at \in Nat /\ e.took \in Nat
          /\ e.at - e.took = got[p][k].sampled
      BY <3>1 DEF IsEntry
    <3>3. /\ DOMAIN got' = Callers /\ DOMAIN got'[p] = DOMAIN got[p] \ {k}
          /\ \A j \in DOMAIN got'[p] : got'[p][j] = got[p][j]
          /\ \A q \in Callers \ {p} : got'[q] = got[q]
          /\ DOMAIN pc' = Callers /\ pc'[p] \in {"idle", "put"}
          /\ \A q \in Callers \ {p} : pc'[q] = pc[q]
          /\ UNCHANGED <<clock, born, miss, now, late, key, wrote, acked>>
      BY <2>0, <2>7 DEF PutLive, Goto, writer, LiveTypes, Without, Restrict
    <3>4. \/ UNCHANGED cache
          \/ /\ DOMAIN cache' = DOMAIN cache \cup {k}
             /\ cache'[k] = e
             /\ \A j \in DOMAIN cache \ {k} : cache'[j] = cache[j]
      BY <2>7 DEF PutLive, Put
    <3>9. ~e.suspect => k \notin late[p]
      OBVIOUS
    <3> HIDE DEF e
    <3>5. LiveTypes'
      <4>1. \A q \in Callers : IsMap(got'[q], Keys, [val : Nat, sampled : Nat])
        BY <2>0, <3>3 DEF LiveTypes, IsMap
      <4>2. /\ DOMAIN cache' \subseteq Keys
            /\ \A j \in DOMAIN cache' :
                 /\ IsEntry(cache'[j])
                 /\ cache'[j].source = "live" =>
                      /\ cache'[j].val \in Nat /\ cache'[j].at \in Nat
                      /\ cache'[j].took \in Nat
        BY <2>0, <3>2, <3>4 DEF LiveTypes
      <4>3. QED
        BY <2>0, <3>3, <4>1, <4>2 DEF LiveTypes
    <3>6. AgeInv'
      <4>1. ASSUME NEW q \in Callers, NEW j \in DOMAIN got'[q]
            PROVE  /\ got'[q][j].sampled <= clock'
                   /\ CurrentAt(j, got[q][j].val, got[q][j].sampled)'
                   /\ pc'[q] = "put" => got'[q][j].sampled <= now'[q]
        BY <2>0, <3>1, <3>3, <4>1 DEF AgeInv, CurrentAt, Device
      <4>2. ASSUME NEW j \in DOMAIN cache', cache'[j].source = "live"
            PROVE  /\ cache'[j].at - cache'[j].took <= clock'
                   /\ CurrentAt(j, cache[j].val, cache[j].at - cache[j].took)'
        <5>1. CASE cache'[j] = cache[j] /\ j \in DOMAIN cache
          BY <2>0, <3>3, <4>2, <5>1 DEF AgeInv, CurrentAt, Device
        <5>2. CASE cache'[j] = e /\ j = k
          BY <3>1, <3>2, <3>3, <5>2 DEF CurrentAt, Device
        <5>3. QED
          BY <3>4, <5>1, <5>2
      <4>3. QED
        BY <4>1, <4>2 DEF AgeInv
    <3>7. AckInv'
      <4>1. ASSUME NEW j \in DOMAIN cache' \cap ValueKeys,
                   cache'[j].source = "live", ~cache'[j].suspect
            PROVE  cache'[j].val >= acked'[j]
        <5>1. CASE cache'[j] = cache[j] /\ j \in DOMAIN cache
          BY <2>0, <3>3, <4>1, <5>1 DEF AckInv, OnlyRacesLeaveStaleEntries
        <5>2. CASE cache'[j] = e /\ j = k
          BY <2>0, <3>1, <3>2, <3>3, <3>9, <4>1, <5>2 DEF AckInv
        <5>3. QED
          BY <3>4, <5>1, <5>2
      <4>2. OnlyRacesLeaveStaleEntries'
        BY <4>1 DEF OnlyRacesLeaveStaleEntries
      <4>3. QED
        BY <2>0, <3>3, <4>2 DEF AckInv, Device
    <3>8. QED
      BY <3>5, <3>6, <3>7 DEF IndInv
  <2>8. ASSUME NEW p \in Callers, WriteApplied(p) PROVE IndInv'
    <3> DEFINE k == key[p]
    <3>1. k \in Keys /\ NewVersion(k)
      BY <2>0, <2>8 DEF WriteApplied, LiveTypes, Keys
    <3>2. /\ born' \in [Keys -> Seq(Nat)]
          /\ \A j \in Keys :
               Device(j)' = IF j = k THEN Device(j) + 1 ELSE Device(j)
          /\ \A j \in Keys : Device(j) \in Nat
      BY <2>0, <3>1, OneMore
    <3>3. /\ wrote' \in [Callers -> Nat] /\ wrote'[p] = Device(k) + 1
          /\ \A q \in Callers \ {p} : wrote'[q] = wrote[q]
          /\ DOMAIN pc' = Callers /\ pc'[p] = "check"
          /\ \A q \in Callers \ {p} : pc'[q] = pc[q]
      BY <2>0, <2>8, <3>1, <3>2 DEF WriteApplied, Goto, LiveTypes
    <3>4. UNCHANGED <<clock, cache, now, miss, late, got, key, acked>>
      BY <2>8 DEF WriteApplied, reader
    <3>5. ASSUME NEW q \in Callers, pc'[q] \in {"check", "delete"}
          PROVE  wrote'[q] <= Device(key[q])'
      <4>1. key[q] \in Keys
        BY <2>0 DEF LiveTypes, Keys
      <4>2. CASE q = p
        BY <3>1, <3>2, <3>3, <3>4, <4>2
      <4>3. CASE q # p
        <5>1. wrote'[q] = wrote[q] /\ wrote[q] \in Nat /\ wrote[q] <= Device(key[q])
          BY <2>0, <3>3, <3>5, <4>3 DEF AckInv, LiveTypes
        <5>2. Device(key[q])' \in {Device(key[q]), Device(key[q]) + 1}
          BY <3>2, <3>4, <4>1
        <5>3. Device(key[q]) \in Nat
          BY <3>2, <4>1
        <5>4. QED
          BY <5>1, <5>2, <5>3
      <4>4. QED
        BY <4>2, <4>3
    <3>6. \A q \in Callers : pc'[q] = "put" => pc[q] = "put"
      BY <3>3
    <3>7. QED
      BY <3>1, <3>3, <3>4, <3>5, <3>6, VersionStep
  <2>9. ASSUME NEW p \in Callers, WriteFails(p) PROVE IndInv'
    <3>1. /\ DOMAIN pc' = Callers /\ pc'[p] = "idle"
          /\ \A q \in Callers \ {p} : pc'[q] = pc[q]
          /\ UNCHANGED <<clock, cache, now, miss, late, got, key, wrote, acked>>
      BY <2>0, <2>9 DEF WriteFails, Goto, reader, writer, LiveTypes
    <3>2. CASE UNCHANGED born
      BY <2>0, <3>1, <3>2, MoveStep DEF LiveTypes
    <3>3. CASE NewVersion(key[p])
      <4>1. key[p] \in Keys
        BY <2>0 DEF LiveTypes, Keys
      <4>2. ASSUME NEW q \in Callers, pc'[q] \in {"check", "delete"}
            PROVE  wrote'[q] <= Device(key[q])'
        <5>1. wrote[q] \in Nat /\ wrote[q] <= Device(key[q]) /\ key[q] \in Keys
          BY <2>0, <3>1, <4>2 DEF AckInv, LiveTypes, Keys
        <5>2. Device(key[q])' \in {Device(key[q]), Device(key[q]) + 1}
          BY <2>0, <3>1, <3>3, <4>1, <5>1, OneMore
        <5>3. Device(key[q]) \in Nat
          BY <2>0, <3>3, <4>1, <5>1, OneMore
        <5>4. QED
          BY <3>1, <5>1, <5>2, <5>3
      <4>3. /\ wrote' \in [Callers -> Nat]
            /\ \A q \in Callers : pc'[q] = "put" => pc[q] = "put"
        BY <2>0, <3>1 DEF LiveTypes
      <4>4. QED
        BY <3>1, <3>3, <4>1, <4>2, <4>3, VersionStep
    <3>4. QED
      BY <2>9, <3>2, <3>3 DEF WriteFails
  <2>10. ASSUME NEW k \in Keys, DeviceChange(k) PROVE IndInv'
    <3>1. /\ NewVersion(k) /\ wrote' \in [Callers -> Nat] /\ DOMAIN pc' = Callers
          /\ UNCHANGED <<clock, cache, now, miss, late, got, key, wrote, acked, pc>>
      BY <2>0, <2>10 DEF DeviceChange, reader, writer, LiveTypes
    <3>2. ASSUME NEW q \in Callers, pc'[q] \in {"check", "delete"}
          PROVE  wrote'[q] <= Device(key[q])'
      <4>1. wrote[q] \in Nat /\ wrote[q] <= Device(key[q]) /\ key[q] \in Keys
        BY <2>0, <3>1, <3>2 DEF AckInv, LiveTypes, Keys
      <4>2. Device(key[q])' \in {Device(key[q]), Device(key[q]) + 1}
        BY <2>0, <3>1, <4>1, OneMore
      <4>3. Device(key[q]) \in Nat
        BY <2>0, <3>1, <4>1, OneMore
      <4>4. QED
        BY <3>1, <4>1, <4>2, <4>3
    <3>3. QED
      BY <3>1, <3>2, VersionStep
  <2>11. ASSUME NEW p \in Callers, WriteCheck(p) PROVE IndInv'
    <3>1. /\ pc[p] = "check" /\ key[p] \in ValueKeys
          /\ UNCHANGED <<clock, born, miss, now, got, key, wrote>>
      BY <2>0, <2>11 DEF WriteCheck, LiveTypes
    <3>2. CASE Goto(p, "delete") /\ UNCHANGED <<cache, late, acked>>
      BY <2>0, <3>1, <3>2, MoveStep DEF Goto, LiveTypes
    <3>3. CASE ~MustDelete(key[p]) /\ Acknowledge(p) /\ UNCHANGED cache
      <4>1. key[p] \in DOMAIN cache => cache[key[p]].source # "live"
        BY <3>3 DEF MustDelete
      <4>2. QED
        BY <2>0, <3>1, <3>3, <4>1, AckStep DEF LiveTypes
    <3>4. CASE /\ key[p] \in DOMAIN cache /\ cache' = Suspected(key[p])
               /\ Acknowledge(p)
      BY <2>0, <3>1, <3>4, MarkedStep
    <3>5. QED
      BY <2>11, <3>2, <3>3, <3>4 DEF WriteCheck
  <2>12. ASSUME NEW p \in Callers, WriteDelete(p) PROVE IndInv'
    <3>1. /\ pc[p] = "delete" /\ key[p] \in ValueKeys /\ Acknowledge(p)
          /\ UNCHANGED <<clock, born, miss, now, got, key, wrote>>
      BY <2>0, <2>12 DEF WriteDelete, LiveTypes
    <3>2. CASE cache' = Without(cache, {key[p]})
      <4>1. /\ DOMAIN cache' = DOMAIN cache \ {key[p]}
            /\ \A j \in DOMAIN cache' : cache'[j] = cache[j]
        BY <3>2 DEF Without, Restrict
      <4>2. QED
        BY <2>0, <3>1, <4>1, AckStep DEF LiveTypes
    <3>3. CASE key[p] \in DOMAIN cache /\ cache' = Suspected(key[p])
      BY <2>0, <3>1, <3>3, MarkedStep
    <3>4. QED
      BY <2>12, <3>2, <3>3 DEF WriteDelete
  <2>13. ASSUME NEW k \in ValueKeys, PumpFlush(k) PROVE IndInv'
    <3>1. /\ k \in Keys
          /\ UNCHANGED <<clock, born, miss, now, late, got, key, wrote, acked, pc>>
      BY <2>13 DEF PumpFlush, reader, writer, Keys
    <3>2. CASE UNCHANGED cache
      BY <2>0, <3>1, <3>2, MoveStep DEF LiveTypes
    <3>3. CASE StorePushed(k)
      <4>1. IsEntry(Pushed(k)) /\ Pushed(k).source # "live"
        BY DEF IsEntry, Pushed
      <4>2. /\ DOMAIN cache' = DOMAIN cache \cup {k} /\ cache'[k] = Pushed(k)
            /\ \A j \in DOMAIN cache \ {k} : cache'[j] = cache[j]
        BY <3>3 DEF StorePushed, Put
      <4>3. LiveTypes'
        BY <2>0, <3>1, <4>1, <4>2 DEF LiveTypes
      <4>4. AgeInv'
        BY <2>0, <3>1, <4>1, <4>2 DEF AgeInv, CurrentAt, Device
      <4>5. AckInv'
        BY <2>0, <3>1, <4>1, <4>2 DEF AckInv, OnlyRacesLeaveStaleEntries, Device
      <4>6. QED
        BY <4>3, <4>4, <4>5 DEF IndInv
    <3>4. QED
      BY <2>13, <3>2, <3>3 DEF PumpFlush
  <2>14. ASSUME Tick PROVE IndInv'
    <3>1. /\ clock' = clock + 1
          /\ UNCHANGED <<born, cache, miss, now, late, got, key, wrote, acked, pc>>
      BY <2>14 DEF Tick, reader, writer
    <3>2. LiveTypes'
      BY <2>0, <3>1 DEF LiveTypes, IsEntry
    <3>3. AgeInv'
      <4>1. /\ clock \in Nat
            /\ \A p \in Callers : \A k \in DOMAIN got[p] : got[p][k].sampled \in Nat
            /\ \A k \in DOMAIN cache : cache[k].source = "live" =>
                 cache[k].at \in Nat /\ cache[k].took \in Nat
        BY <2>0 DEF LiveTypes, IsMap
      <4>2. QED
        BY <2>0, <3>1, <4>1 DEF AgeInv, CurrentAt, Device
    <3>4. AckInv'
      BY <2>0, <3>1 DEF AckInv, OnlyRacesLeaveStaleEntries, Device
    <3>5. QED
      BY <3>2, <3>3, <3>4 DEF IndInv
  <2>15. ASSUME Restart PROVE IndInv'
    <3>1. /\ DOMAIN pc' = Callers /\ \A p \in Callers : pc'[p] = "idle"
          /\ DOMAIN got' = Callers /\ \A p \in Callers : DOMAIN got'[p] = {}
          /\ UNCHANGED <<clock, born, cache, miss, now, late, key, wrote, acked>>
      BY <2>15 DEF Restart, Empty, writer
    <3>2. LiveTypes'
      BY <2>0, <3>1 DEF LiveTypes, IsMap, IsEntry
    <3>3. AgeInv'
      BY <2>0, <3>1 DEF AgeInv, CurrentAt, Device
    <3>4. AckInv'
      BY <2>0, <3>1 DEF AckInv, OnlyRacesLeaveStaleEntries, Device
    <3>5. QED
      BY <3>2, <3>3, <3>4 DEF IndInv
  <2>16. ASSUME UNCHANGED <<clock, born, cache, pc, now, miss, late, got, key,
                            wrote, acked>>
         PROVE  IndInv'
    BY <2>0, <2>16, MoveStep DEF LiveTypes
  <2>17. ASSUME \/ \E k \in ValueKeys : Subscribe(k) \/ Unsubscribe(k) \/ Notify(k)
                \/ LoseItems \/ RestoreItems \/ PumpTake \/ UNCHANGED vars
         PROVE  UNCHANGED <<clock, born, cache, pc, now, miss, late, got, key,
                            wrote, acked>>
    BY <2>17 DEF Subscribe, Unsubscribe, Notify, LoseItems, RestoreItems,
       PumpTake, reader, writer, vars
  <2>18. QED
    BY <2>1, <2>2, <2>3, <2>4, <2>5, <2>6, <2>7, <2>8, <2>9, <2>10, <2>11,
       <2>12, <2>13, <2>14, <2>15, <2>16, <2>17
       DEF Next, Call, Pump, Quiescent
<1>3. QED
  BY <1>1, <1>2, PTL DEF Spec

\* A live entry served under max age a was still the server's value a ago, but
\* for the time its read took.
THEOREM StalenessBounded == Spec => []BoundedStaleness
<1>1. IndInv => BoundedStaleness
  <2> SUFFICES ASSUME IndInv, NEW k \in DOMAIN cache, NEW a \in MaxAges,
                      cache[k].source = "live", Serves(k, a),
                      cache[k].val < Device(k)
               PROVE  born[k][cache[k].val + 1] >= clock - a - cache[k].took
    BY DEF BoundedStaleness
  <2>1. /\ k \in Keys /\ born[k] \in Seq(Nat) /\ clock \in Nat /\ a \in Nat
        /\ cache[k].val \in Nat /\ cache[k].at \in Nat /\ cache[k].took \in Nat
    BY ValueCacheAssumption DEF IndInv, LiveTypes
  <2>2. born[k][cache[k].val + 1] \in Nat
    BY <2>1 DEF Device
  <2>3. born[k][cache[k].val + 1] >= cache[k].at - cache[k].took
    BY DEF IndInv, AgeInv, CurrentAt
  <2>4. clock - cache[k].at <= a
    BY DEF Serves
  <2> DEFINE b == born[k][cache[k].val + 1]
             t == cache[k].at
             w == cache[k].took
  <2>5. b \in Nat /\ t \in Nat /\ w \in Nat /\ b >= t - w /\ clock - t <= a
    BY <2>1, <2>2, <2>3, <2>4
  <2> HIDE DEF b, t, w
  <2>6. b >= clock - a - w
    BY <2>1, <2>5
  <2>7. QED
    BY <2>6 DEF b, w
<1>2. QED
  BY <1>1, Invariance, PTL

\* After a successful Write only the two known races leave an older live entry.
THEOREM StaleOnlyByRaces == Spec => []OnlyRacesLeaveStaleEntries
<1>1. IndInv => OnlyRacesLeaveStaleEntries
  BY DEF IndInv, AckInv
<1>2. QED
  BY <1>1, Invariance, PTL

-----------------------------------------------------------------------------
(***************************************************************************)
(* Types.  How long an answer was under way is a time by AgeInv; else each *)
(* variable keeps its type by itself.                                      *)
(***************************************************************************)

\* What is left of a queue are some of its notifications.
LEMMA UnroutedProps ==
  ASSUME NEW S, NEW q \in Seq(S), NEW k
  PROVE  Unrouted(q, k) \in Seq(S) /\ Len(Unrouted(q, k)) <= Len(q)
<1> DEFINE n == Len(q)
           V == Seq(S)
           step == [i \in 1 .. n |-> [t \in V |->
                      IF q[i].key = k THEN t ELSE Append(t, q[i])]]
           IsLeft(f) == f = [i \in 0 .. n |->
                          IF i = 0 THEN <<>>
                          ELSE IF q[i].key = k THEN f[i - 1]
                          ELSE Append(f[i - 1], q[i])]
           left == CHOOSE f : IsLeft(f)
<1>1. n \in Nat /\ <<>> \in V /\ \A i \in 1 .. n : q[i] \in S
  OBVIOUS
<1>2. IsStep(step, n, V)
  <2> HIDE DEF n
  <2>1. \A i \in 1 .. n, t \in V :
          (IF q[i].key = k THEN t ELSE Append(t, q[i])) \in V
    BY <1>1
  <2> HIDE DEF V
  <2>2. QED
    BY <2>1 DEF IsStep
<1>3. \E f : IsLeft(f)
  <2>1. PICK f : Recurs(f, n, V, <<>>, step)
    <3> HIDE DEF step, V, n
    <3> QED BY <1>1, <1>2, Recursion
  <2>2. /\ f \in [0 .. n -> V] /\ f[0] = <<>>
        /\ \A i \in 1 .. n : f[i] = step[i][f[i - 1]]
    <3> HIDE DEF step, V, n
    <3> QED BY <2>1 DEF Recurs
  <2>3. ASSUME NEW i \in 1 .. n
        PROVE  f[i] = IF q[i].key = k THEN f[i - 1] ELSE Append(f[i - 1], q[i])
    <3>1. i - 1 \in 0 .. n
      BY <1>1
    <3>2. f[i - 1] \in V
      BY <2>2, <3>1
    <3>3. f[i] = step[i][f[i - 1]]
      <4> HIDE DEF step, V, n
      <4> QED BY <2>2
    <3> HIDE DEF V, n
    <3>4. QED
      BY <3>2, <3>3
  <2>4. f = [i \in 0 .. n |-> f[i]]
    BY <2>2
  <2>5. IsLeft(f)
    <3> HIDE DEF n
    <3>1. \A i \in 0 .. n : i # 0 => i \in 1 .. n
      BY <1>1
    <3>2. QED
      BY <2>2, <2>3, <2>4, <3>1
  <2>6. QED
    BY <2>5
<1>4. IsLeft(left)
  <2> HIDE DEF IsLeft
  <2> QED BY <1>3
<1>5. /\ left[0] = <<>>
      /\ \A i \in 1 .. n :
           left[i] = IF q[i].key = k THEN left[i - 1] ELSE Append(left[i - 1], q[i])
  <2>1. 0 \in 0 .. n /\ \A i \in 1 .. n : i \in 0 .. n /\ i # 0
    BY <1>1
  <2> HIDE DEF left, n
  <2>2. QED
    BY <1>4, <2>1
<1> HIDE DEF left
<1> DEFINE Good == {i \in 0 .. n : left[i] \in Seq(S) /\ Len(left[i]) <= i}
<1>6. 0 \in Good
  <2>1. <<>> \in Seq(S) /\ Len(<<>>) <= 0 /\ 0 \in 0 .. n
    BY <1>1
  <2> HIDE DEF n
  <2>2. QED
    BY <1>5, <2>1
<1>7. ASSUME NEW i \in 0 .. n - 1, i \in Good
      PROVE  i + 1 \in Good
  <2>1. i + 1 \in 1 .. n /\ (i + 1) - 1 = i /\ i + 1 \in 0 .. n
    BY <1>1
  <2>2. q[i + 1] \in S /\ left[i] \in Seq(S) /\ Len(left[i]) <= i
    BY <1>1, <1>7, <2>1
  <2>3. left[i + 1] \in {left[i], Append(left[i], q[i + 1])}
    <3> HIDE DEF n
    <3> QED BY <1>5, <2>1
  <2>4. left[i + 1] \in Seq(S) /\ Len(left[i + 1]) <= i + 1
    <3> DEFINE t == left[i]
               x == q[i + 1]
    <3>1. t \in Seq(S) /\ Len(t) <= i /\ x \in S /\ left[i + 1] \in {t, Append(t, x)}
      BY <2>2, <2>3
    <3> HIDE DEF t, x
    <3>2. Append(t, x) \in Seq(S) /\ Len(Append(t, x)) = Len(t) + 1 /\ Len(t) \in Nat
      BY <3>1
    <3>3. i \in Nat
      BY <1>1
    <3>4. Len(t) <= i + 1 /\ Len(t) + 1 <= i + 1
      <4> DEFINE m == Len(t)
      <4>1. m \in Nat /\ m <= i
        BY <3>1, <3>2
      <4> HIDE DEF m
      <4>2. m <= i + 1 /\ m + 1 <= i + 1
        BY <3>3, <4>1
      <4>3. QED
        BY <4>2 DEF m
    <3>5. QED
      BY <3>1, <3>2, <3>4
  <2>5. QED
    BY <2>1, <2>4
<1>8. n \in Good
  <2> HIDE DEF Good, n
  <2>1. 0 .. n \subseteq Good
    BY <1>1, <1>6, <1>7, CountingTo
  <2>2. QED
    BY <1>1, <2>1
<1>9. Unrouted(q, k) = left[n]
  BY DEF Unrouted, left
<1>10. QED
  BY <1>8, <1>9

\* TypeOK in parts.
StoreTypes ==
  /\ IsMap(cache, Keys, Entries)
  /\ \A k \in DOMAIN cache \cap MetaKeys : cache[k].source = "live"

ServerTypes ==
  clock \in Times /\ \A k \in Keys : born[k] \in Seq(Times) /\ Device(k) \in Versions

PushTypes ==
  /\ subscribed \subseteq ValueKeys /\ pushing \subseteq subscribed
  /\ sent \in [ValueKeys -> 0 .. MaxVersion]
  /\ queue \in Seq([key : ValueKeys, val : Versions]) /\ Len(queue) <= QueueCap
  /\ IsMap(batch, ValueKeys, [val : Versions, at : Times])

Labels == {"idle", "lookup", "live", "reply", "put", "write", "check", "delete"}

ReadTypes ==
  /\ age \in [Callers -> MaxAges \cup {0}] /\ now \in [Callers -> Times]
  /\ want \in [Callers -> SUBSET Keys] /\ miss \in [Callers -> SUBSET Keys]
  /\ late \in [Callers -> SUBSET Keys]
  /\ \A p \in Callers : IsMap(got[p], Keys, [val : Versions, sampled : Times])

WriteTypes ==
  /\ key \in [Callers -> ValueKeys] /\ wrote \in [Callers -> 0 .. MaxVersion]
  /\ acked \in [ValueKeys -> 0 .. MaxVersion]

CallTypes == pc \in [Callers -> Labels] /\ calls \in Nat /\ faults \in Nat

LEMMA TypeParts ==
  TypeOK <=> /\ StoreTypes /\ ServerTypes /\ PushTypes
             /\ ReadTypes /\ WriteTypes /\ CallTypes
BY DEF TypeOK, StoreTypes, ServerTypes, PushTypes, Labels, ReadTypes, WriteTypes,
       CallTypes

\* Parts whose variables stay as they are.
LEMMA SameTypes ==
  ASSUME TypeOK
  PROVE  /\ UNCHANGED cache => StoreTypes'
         /\ UNCHANGED <<clock, born>> => ServerTypes'
         /\ UNCHANGED push => PushTypes'
         /\ UNCHANGED <<age, want, miss, got, now, late>> => ReadTypes'
         /\ UNCHANGED <<key, wrote, acked>> => WriteTypes'
         /\ UNCHANGED <<pc, calls, faults>> => CallTypes'
<1>1. /\ StoreTypes /\ ServerTypes /\ PushTypes /\ ReadTypes /\ WriteTypes
      /\ CallTypes
  BY TypeParts
<1>2. UNCHANGED cache => StoreTypes'
  BY <1>1 DEF StoreTypes, IsMap
<1>3. UNCHANGED <<clock, born>> => ServerTypes'
  BY <1>1 DEF ServerTypes, Device
<1>4. UNCHANGED push => PushTypes'
  BY <1>1 DEF PushTypes, push, IsMap
<1>5. UNCHANGED <<age, want, miss, got, now, late>> => ReadTypes'
  BY <1>1 DEF ReadTypes, IsMap
<1>6. UNCHANGED <<key, wrote, acked>> => WriteTypes'
  BY <1>1 DEF WriteTypes
<1>7. UNCHANGED <<pc, calls, faults>> => CallTypes'
  BY <1>1 DEF CallTypes
<1>8. QED
  BY <1>2, <1>3, <1>4, <1>5, <1>6, <1>7

\* Every step's labels and counts.
LEMMA CallsTyped ==
  ASSUME TypeOK, [Next]_vars
  PROVE  CallTypes'
<1>1. CallTypes
  BY TypeParts
<1>2. faults' \in Nat
  <2>1. \A n \in {0, 1} : Failures(n) => faults' \in Nat
    BY <1>1 DEF Failures, CallTypes
  <2>2. \A p \in Callers, k \in Keys : Lookup(p, k) => faults' \in Nat
    BY <2>1 DEF Lookup
  <2>3. QED
    BY <1>1, <2>1, <2>2 DEF CallTypes, Next, ReadStart, WriteStart, Call, ReadLive,
       ReadFails, Reply, PutLive, WriteApplied, WriteFails, WriteCheck, WriteDelete,
       Subscribe, Unsubscribe, Notify, LoseItems, RestoreItems, Pump, PumpTake,
       PumpFlush, Tick, Restart, DeviceChange, Quiescent, vars
<1>3. calls' \in Nat
  <2>1. \/ UNCHANGED calls
        \/ \E p \in Callers, l \in {"lookup", "write"} : Begin(p, l)
    BY DEF Next, ReadStart, WriteStart, Call, Lookup, ReadLive,
       ReadFails, Reply, PutLive, WriteApplied, WriteFails, WriteCheck, WriteDelete,
       Subscribe, Unsubscribe, Notify, LoseItems, RestoreItems, Pump, PumpTake,
       PumpFlush, Tick, Restart, DeviceChange, Quiescent, vars
  <2>2. QED
    BY <1>1, <2>1 DEF CallTypes, Begin
<1>4. pc' \in [Callers -> Labels]
  <2>1. \A p \in Callers, l \in Labels : Goto(p, l) => pc' \in [Callers -> Labels]
    BY <1>1 DEF CallTypes, Goto
  <2>2. CASE UNCHANGED pc
    BY <1>1, <2>2 DEF CallTypes
  <2>3. CASE \E p \in Callers, l \in Labels : Goto(p, l)
    BY <2>1, <2>3
  <2>4. CASE Restart
    BY <2>4 DEF Restart, Labels
  <2>5. ASSUME NEW p \in Callers, NEW k \in Keys, Lookup(p, k) \/ PutLive(p, k)
        PROVE  \E l \in Labels : Goto(p, l)
    <3>1. CASE Lookup(p, k)
      <4> DEFINE l == IF want'[p] # {} THEN "lookup"
                      ELSE IF miss'[p] = {} THEN "idle" ELSE "live"
      <4>1. l \in Labels
        BY DEF Labels
      <4>2. Goto(p, l)
        BY <3>1 DEF Lookup
      <4> HIDE DEF l
      <4>3. QED
        BY <4>1, <4>2
    <3>2. CASE PutLive(p, k)
      <4> DEFINE l == IF DOMAIN got[p] = {k} THEN "idle" ELSE "put"
      <4>1. l \in Labels
        BY DEF Labels
      <4>2. Goto(p, l)
        BY <3>2 DEF PutLive
      <4> HIDE DEF l
      <4>3. QED
        BY <4>1, <4>2
    <3>3. QED
      BY <2>5, <3>1, <3>2
  <2>6. "idle" \in Labels /\ "lookup" \in Labels /\ "reply" \in Labels
        /\ "put" \in Labels /\ "write" \in Labels /\ "check" \in Labels
        /\ "delete" \in Labels
    BY DEF Labels
  <2>7. \/ UNCHANGED pc \/ Restart
        \/ \E p \in Callers, l \in Labels : Goto(p, l)
    BY <2>5, <2>6 DEF Next, ReadStart, WriteStart, Begin, Call, ReadLive, ReadFails,
       Reply, WriteApplied, WriteFails, WriteCheck, WriteDelete, Acknowledge,
       Subscribe, Unsubscribe, Notify, LoseItems, RestoreItems, Pump, PumpTake,
       PumpFlush, Tick, DeviceChange, Quiescent, vars
  <2>8. QED
    BY <2>2, <2>3, <2>4, <2>7
<1>5. QED
  BY <1>2, <1>3, <1>4 DEF CallTypes

\* The parts of TypeOK that an action changes.
LEMMA ServerTyped ==
  ASSUME TypeOK, IndInv, NEW k \in Keys, NewVersion(k), UNCHANGED clock
  PROVE  ServerTypes'
<1>1. ServerTypes /\ LiveTypes
  BY TypeParts DEF IndInv
<1>2. /\ \A j \in Keys : born'[j] = IF j = k THEN Append(born[j], clock) ELSE born[j]
      /\ Len(born[k]) < MaxVersion
  BY <1>1 DEF NewVersion, LiveTypes, Device
<1>3. ASSUME NEW j \in Keys
      PROVE  born'[j] \in Seq(Times) /\ Len(born'[j]) \in Versions
  <2>1. born[j] \in Seq(Times) /\ Len(born[j]) \in Versions /\ clock \in Times
    BY <1>1 DEF ServerTypes, Device
  <2>2. /\ Append(born[j], clock) \in Seq(Times)
        /\ Len(Append(born[j], clock)) = Len(born[j]) + 1
    BY <2>1
  <2>3. j = k => Len(born[j]) + 1 \in Versions
    BY <1>2, <2>1, ValueCacheAssumption DEF Versions
  <2>4. QED
    BY <1>2, <2>1, <2>2, <2>3
<1>4. QED
  BY <1>1, <1>3 DEF ServerTypes, Device

LEMMA PutTyped ==
  ASSUME StoreTypes, NEW k \in Keys, NEW e \in Entries, cache' = Put(cache, k, e),
         k \in MetaKeys => e.source = "live"
  PROVE  StoreTypes'
<1>1. /\ DOMAIN cache' = DOMAIN cache \cup {k} /\ cache'[k] = e
      /\ \A j \in DOMAIN cache \ {k} : cache'[j] = cache[j]
  BY DEF Put
<1>2. QED
  BY <1>1 DEF StoreTypes, IsMap

LEMMA SuspectedTyped ==
  ASSUME StoreTypes, NEW k \in DOMAIN cache, cache' = Suspected(k)
  PROVE  StoreTypes'
<1>1. /\ DOMAIN cache' = DOMAIN cache
      /\ cache'[k] = [cache[k] EXCEPT !.suspect = TRUE]
      /\ \A j \in DOMAIN cache \ {k} : cache'[j] = cache[j]
  BY DEF Suspected
<1>2. cache[k] \in Entries
  BY DEF StoreTypes, IsMap
<1>3. cache'[k] \in Entries /\ cache'[k].source = cache[k].source
  BY <1>1, <1>2 DEF Entries
<1>4. QED
  BY <1>1, <1>3 DEF StoreTypes, IsMap

LEMMA AcknowledgeTyped ==
  ASSUME TypeOK, NEW p \in Callers, Acknowledge(p),
         UNCHANGED <<age, want, miss, got, now, key, wrote>>
  PROVE  ReadTypes' /\ WriteTypes'
<1>1. ReadTypes /\ WriteTypes
  BY TypeParts
<1>2. key[p] \in ValueKeys /\ key[p] \in Keys
  BY <1>1 DEF WriteTypes, Keys
<1>3. late' \in [Callers -> SUBSET Keys]
  BY <1>1, <1>2 DEF Acknowledge, ReadTypes
<1>4. Max({acked[key[p]], wrote[p]}) \in 0 .. MaxVersion
  <2>1. acked[key[p]] \in 0 .. MaxVersion /\ wrote[p] \in 0 .. MaxVersion
    BY <1>1, <1>2 DEF WriteTypes
  <2>2. acked[key[p]] \in Nat /\ wrote[p] \in Nat
    BY <2>1, ValueCacheAssumption
  <2>3. QED
    BY <2>1, <2>2, MaxOfTwo
<1>5. acked' \in [ValueKeys -> 0 .. MaxVersion]
  BY <1>1, <1>2, <1>4 DEF Acknowledge, WriteTypes
<1>6. QED
  BY <1>1, <1>3, <1>5 DEF ReadTypes, WriteTypes, IsMap

\* Every variable keeps its type, and only values are ever marked as pushed.
THEOREM TypeCorrect == Spec => []TypeOK
<1>1. Init => TypeOK
  <2> SUFFICES ASSUME Init PROVE TypeOK
    OBVIOUS
  <2>1. PICK k \in ValueKeys : TRUE
    BY ValueCacheAssumption
  <2>2. /\ 0 \in Times /\ 1 \in Versions /\ 0 \in 0 .. MaxVersion /\ QueueCap >= 0
    BY ValueCacheAssumption DEF Times, Versions
  <2>3. StoreTypes /\ PushTypes
    BY <2>2 DEF Init, StoreTypes, PushTypes, IsMap, Empty
  <2>4. ServerTypes
    <3>1. <<0>> \in Seq(Times) /\ Len(<<0>>) = 1
      BY <2>2
    <3>2. QED
      BY <2>2, <3>1 DEF Init, ServerTypes, Device
  <2>5. ReadTypes
    BY <2>2 DEF Init, ReadTypes, IsMap, Empty
  <2>6. WriteTypes
    <3>1. key \in [Callers -> ValueKeys]
      BY <2>1 DEF Init
    <3>2. QED
      BY <2>2, <3>1 DEF Init, WriteTypes
  <2>7. CallTypes
    BY DEF Init, CallTypes, Labels
  <2>8. QED
    BY <2>3, <2>4, <2>5, <2>6, <2>7, TypeParts
<1>2. TypeOK /\ IndInv /\ [Next]_vars => TypeOK'
  <2> SUFFICES ASSUME TypeOK, IndInv, [Next]_vars PROVE TypeOK'
    OBVIOUS
  <2>0. /\ StoreTypes /\ ServerTypes /\ PushTypes /\ ReadTypes /\ WriteTypes
        /\ CallTypes /\ CallTypes'
    BY TypeParts, CallsTyped
  <2>1. TypeOK' <=> /\ StoreTypes' /\ ServerTypes' /\ PushTypes'
                    /\ ReadTypes' /\ WriteTypes' /\ CallTypes'
    BY DEF TypeOK, StoreTypes, ServerTypes, PushTypes, Labels, ReadTypes, WriteTypes,
       CallTypes
  <2>2. LiveTypes /\ AgeInv
    BY DEF IndInv
  <2>3. ASSUME NEW p \in Callers, NEW S \in SUBSET Keys, NEW a \in MaxAges,
               ReadStart(p, S, a)
        PROVE  TypeOK'
    <3>1. ReadTypes'
      BY <2>0, <2>3 DEF ReadStart, ReadTypes
    <3>2. QED
      BY <2>0, <2>1, <2>3, <3>1, SameTypes DEF ReadStart, writer
  <2>4. ASSUME NEW p \in Callers, NEW k \in ValueKeys, WriteStart(p, k) PROVE TypeOK'
    <3>1. WriteTypes'
      BY <2>0, <2>4 DEF WriteStart, WriteTypes
    <3>2. QED
      BY <2>0, <2>1, <2>4, <3>1, SameTypes DEF WriteStart, reader
  <2>5. ASSUME NEW p \in Callers, NEW k \in Keys, Lookup(p, k) PROVE TypeOK'
    <3>1. /\ UNCHANGED <<clock, born, cache, push, age, got, now, late, writer>>
          /\ want' = [want EXCEPT ![p] = @ \ {k}]
          /\ miss' = miss \/ miss' = [miss EXCEPT ![p] = @ \cup {k}]
      BY <2>5 DEF Lookup, Touch
    <3>2. ReadTypes'
      BY <2>0, <3>1 DEF ReadTypes
    <3>3. QED
      BY <2>0, <2>1, <3>1, <3>2, SameTypes DEF writer
  <2>6. ASSUME NEW p \in Callers, ReadLive(p) PROVE TypeOK'
    <3> DEFINE g == [k \in miss[p] |-> [val |-> Device(k), sampled |-> clock]]
    <3>1. IsMap(g, Keys, [val : Versions, sampled : Times])
      BY <2>0 DEF ReadTypes, ServerTypes, IsMap
    <3> HIDE DEF g
    <3>2. /\ got' = [got EXCEPT ![p] = g] /\ late' = [late EXCEPT ![p] = {}]
          /\ DOMAIN got = Callers
          /\ UNCHANGED <<clock, born, cache, push, age, want, miss, now, writer>>
      BY <2>2, <2>6 DEF ReadLive, LiveTypes, g
    <3>3. ReadTypes'
      BY <2>0, <3>1, <3>2 DEF ReadTypes, IsMap
    <3>4. QED
      BY <2>0, <2>1, <3>2, <3>3, SameTypes DEF writer
  <2>7. ASSUME NEW p \in Callers, ReadFails(p) PROVE TypeOK'
    BY <2>0, <2>1, <2>7, SameTypes DEF ReadFails, reader, writer
  <2>8. ASSUME NEW p \in Callers, Reply(p) PROVE TypeOK'
    <3>1. ReadTypes'
      BY <2>0, <2>8 DEF Reply, ReadTypes, ServerTypes
    <3>2. QED
      BY <2>0, <2>1, <2>8, <3>1, SameTypes DEF Reply, writer
  <2>9. ASSUME NEW p \in Callers, NEW k \in Keys, PutLive(p, k) PROVE TypeOK'
    <3> DEFINE e == [val |-> got[p][k].val, at |-> now[p], source |-> "live",
                     took |-> now[p] - got[p][k].sampled,
                     suspect |-> k \in late[p]]
    <3>1. /\ k \in DOMAIN got[p] /\ got[p][k] \in [val : Versions, sampled : Times]
          /\ got[p][k].sampled <= now[p] /\ now[p] \in Times
      BY <2>0, <2>2, <2>9 DEF PutLive, ReadTypes, AgeInv, IsMap
    <3>2. now[p] - got[p][k].sampled \in Times
      BY <3>1, ValueCacheAssumption DEF Times
    <3>3. e \in Entries /\ e.source = "live"
      BY <3>1, <3>2 DEF Entries
    <3>4. cache' = cache \/ cache' = Put(cache, k, e)
      BY <2>9 DEF PutLive
    <3> HIDE DEF e
    <3>5. StoreTypes'
      BY <2>0, <3>3, <3>4, PutTyped, SameTypes
    <3>6. /\ DOMAIN got'[p] = DOMAIN got[p] \ {k}
          /\ \A j \in DOMAIN got'[p] : got'[p][j] = got[p][j]
          /\ \A q \in Callers \ {p} : got'[q] = got[q]
          /\ UNCHANGED <<clock, born, push, age, want, miss, now, late, writer>>
      BY <2>2, <2>9 DEF PutLive, LiveTypes, Without, Restrict
    <3>7. ReadTypes'
      BY <2>0, <3>6 DEF ReadTypes, IsMap
    <3>8. QED
      BY <2>0, <2>1, <3>5, <3>6, <3>7, SameTypes DEF writer
  <2>10. ASSUME NEW p \in Callers, WriteApplied(p) PROVE TypeOK'
    <3>1. key[p] \in Keys /\ NewVersion(key[p])
      BY <2>0, <2>10 DEF WriteApplied, WriteTypes, Keys
    <3>2. ServerTypes'
      BY <2>10, <3>1, ServerTyped DEF WriteApplied
    <3>3. Device(key[p]) + 1 \in 0 .. MaxVersion
      BY <2>0, <3>1, ValueCacheAssumption DEF NewVersion, ServerTypes, Versions
    <3>4. WriteTypes'
      BY <2>0, <2>10, <3>3 DEF WriteApplied, WriteTypes
    <3>5. QED
      BY <2>0, <2>1, <2>10, <3>2, <3>4, SameTypes DEF WriteApplied, reader
  <2>11. ASSUME NEW p \in Callers, WriteFails(p) PROVE TypeOK'
    <3>1. key[p] \in Keys
      BY <2>0 DEF WriteTypes, Keys
    <3>2. ServerTypes'
      BY <2>11, <3>1, ServerTyped, SameTypes DEF WriteFails
    <3>3. QED
      BY <2>0, <2>1, <2>11, <3>2, SameTypes DEF WriteFails, reader, writer
  <2>12. ASSUME NEW p \in Callers, WriteCheck(p) PROVE TypeOK'
    <3>1. UNCHANGED <<clock, born, push, age, want, miss, got, now, key, wrote>>
      BY <2>12 DEF WriteCheck
    <3>2. StoreTypes'
      BY <2>0, <2>12, SuspectedTyped, SameTypes DEF WriteCheck
    <3>3. ReadTypes' /\ WriteTypes'
      BY <2>12, <3>1, AcknowledgeTyped, SameTypes DEF WriteCheck
    <3>4. QED
      BY <2>0, <2>1, <3>1, <3>2, <3>3, SameTypes
  <2>13. ASSUME NEW p \in Callers, WriteDelete(p) PROVE TypeOK'
    <3>1. /\ UNCHANGED <<clock, born, push, age, want, miss, got, now, key, wrote>>
          /\ Acknowledge(p)
      BY <2>13 DEF WriteDelete
    <3>2. CASE cache' = Without(cache, {key[p]})
      <4>1. /\ DOMAIN cache' \subseteq DOMAIN cache
            /\ \A j \in DOMAIN cache' : cache'[j] = cache[j]
        BY <3>2 DEF Without, Restrict
      <4>2. StoreTypes'
        BY <2>0, <4>1 DEF StoreTypes, IsMap
      <4>3. QED
        BY <2>0, <2>1, <3>1, <4>2, AcknowledgeTyped, SameTypes
    <3>3. CASE key[p] \in DOMAIN cache /\ cache' = Suspected(key[p])
      BY <2>0, <2>1, <3>1, <3>3, AcknowledgeTyped, SuspectedTyped, SameTypes
    <3>4. QED
      BY <2>13, <3>2, <3>3 DEF WriteDelete
  <2>14. ASSUME NEW k \in ValueKeys, Subscribe(k) PROVE TypeOK'
    <3>1. PushTypes'
      BY <2>0, <2>14, ValueCacheAssumption DEF Subscribe, PushTypes
    <3>2. QED
      BY <2>0, <2>1, <2>14, <3>1, SameTypes DEF Subscribe, reader, writer
  <2>15. ASSUME NEW k \in ValueKeys, Unsubscribe(k) PROVE TypeOK'
    <3> DEFINE S == [key : ValueKeys, val : Versions]
               q == Unrouted(queue, k)
    <3>1. queue \in Seq(S) /\ Len(queue) <= QueueCap /\ Len(queue) \in Nat
      BY <2>0 DEF PushTypes
    <3> HIDE DEF S
    <3>2. q \in Seq(S) /\ Len(q) <= Len(queue) /\ Len(q) \in Nat
      BY <3>1, UnroutedProps
    <3> HIDE DEF q
    <3>3. Len(q) <= QueueCap
      BY <3>1, <3>2, ValueCacheAssumption
    <3>4. queue' = q
      BY <2>15 DEF Unsubscribe, q
    <3>5. PushTypes'
      BY <2>0, <2>15, <3>2, <3>3, <3>4 DEF Unsubscribe, PushTypes, S
    <3>6. QED
      BY <2>0, <2>1, <2>15, <3>5, SameTypes DEF Unsubscribe, reader, writer
  <2>16. ASSUME NEW k \in ValueKeys, Notify(k) PROVE TypeOK'
    <3> DEFINE n == [key |-> k, val |-> Device(k)]
               S == [key : ValueKeys, val : Versions]
    <3>1. Device(k) \in Versions /\ n \in S
      BY <2>0 DEF ServerTypes, Keys
    <3>2. queue \in Seq(S) /\ Len(queue) < QueueCap
      BY <2>0, <2>16 DEF Notify, PushTypes
    <3> HIDE DEF S, n
    <3>3. /\ Append(queue, n) \in Seq(S)
          /\ Len(Append(queue, n)) = Len(queue) + 1 /\ Len(queue) \in Nat
      BY <3>1, <3>2
    <3>4. Len(queue) + 1 <= QueueCap
      BY <3>2, <3>3, ValueCacheAssumption
    <3>5. queue' = Append(queue, n)
      BY <2>16 DEF Notify, n
    <3>6. sent' \in [ValueKeys -> 0 .. MaxVersion]
      <4>1. Device(k) \in 0 .. MaxVersion
        BY <3>1, ValueCacheAssumption DEF Versions
      <4>2. QED
        BY <2>0, <2>16, <4>1 DEF Notify, PushTypes
    <3>7. PushTypes'
      BY <2>0, <2>16, <3>3, <3>4, <3>5, <3>6 DEF Notify, PushTypes, S
    <3>8. QED
      BY <2>0, <2>1, <2>16, <3>7, SameTypes DEF Notify, reader, writer
  <2>17. ASSUME LoseItems \/ RestoreItems PROVE TypeOK'
    <3>1. <<>> \in Seq([key : ValueKeys, val : Versions]) /\ Len(<<>>) <= QueueCap
      BY ValueCacheAssumption
    <3>2. ASSUME LoseItems PROVE PushTypes'
      BY <2>0, <3>2 DEF LoseItems, PushTypes, IsMap
    <3>3. ASSUME RestoreItems PROVE PushTypes'
      <4>1. 0 \in 0 .. MaxVersion
        BY ValueCacheAssumption
      <4>2. sent' \in [ValueKeys -> 0 .. MaxVersion]
        BY <3>3, <4>1 DEF RestoreItems
      <4>3. QED
        BY <2>0, <3>1, <3>3, <4>2 DEF RestoreItems, PushTypes, IsMap
    <3>4. PushTypes'
      BY <2>17, <3>2, <3>3
    <3>5. QED
      BY <2>0, <2>1, <2>17, <3>4, SameTypes DEF LoseItems, RestoreItems, reader, writer
  <2>18. ASSUME PumpTake PROVE TypeOK'
    <3> DEFINE S == [key : ValueKeys, val : Versions]
    <3>1. queue \in Seq(S) /\ queue # <<>> /\ Len(queue) <= QueueCap
      BY <2>0, <2>18 DEF PushTypes, PumpTake
    <3> DEFINE h == Head(queue)
               b == [val |-> h.val, at |-> clock]
    <3>2. h \in S /\ Tail(queue) \in Seq(S) /\ Len(Tail(queue)) = Len(queue) - 1
          /\ Len(queue) \in Nat
      <4> HIDE DEF S
      <4> QED BY <3>1
    <3> HIDE DEF h
    <3>3. h.key \in ValueKeys /\ b \in [val : Versions, at : Times]
      BY <2>0, <3>2 DEF ServerTypes
    <3>4. Len(queue) - 1 <= QueueCap
      BY <3>1, <3>2, ValueCacheAssumption
    <3> HIDE DEF b
    <3>5. /\ queue' = Tail(queue) /\ batch' = Put(batch, h.key, b)
          /\ UNCHANGED <<subscribed, pushing, sent>>
      BY <2>18 DEF PumpTake, h, b
    <3>6. /\ DOMAIN batch' = DOMAIN batch \cup {h.key} /\ batch'[h.key] = b
          /\ \A j \in DOMAIN batch \ {h.key} : batch'[j] = batch[j]
      BY <3>5 DEF Put
    <3>7. IsMap(batch', ValueKeys, [val : Versions, at : Times])
      BY <2>0, <3>3, <3>6 DEF PushTypes, IsMap
    <3>8. PushTypes'
      BY <2>0, <3>2, <3>4, <3>5, <3>7 DEF PushTypes
    <3>9. QED
      BY <2>0, <2>1, <2>18, <3>8, SameTypes DEF PumpTake, reader, writer
  <2>19. ASSUME NEW k \in ValueKeys, PumpFlush(k) PROVE TypeOK'
    <3>1. k \in DOMAIN batch /\ batch[k] \in [val : Versions, at : Times]
      BY <2>0, <2>19 DEF PumpFlush, PushTypes, IsMap
    <3>2. Pushed(k) \in Entries /\ k \notin MetaKeys /\ k \in Keys
      BY <3>1, ValueCacheAssumption DEF Pushed, Entries, Times, Keys
    <3>3. StoreTypes'
      BY <2>0, <2>19, <3>2, PutTyped, SameTypes DEF PumpFlush, StorePushed
    <3>4. /\ DOMAIN batch' \subseteq DOMAIN batch
          /\ \A j \in DOMAIN batch' : batch'[j] = batch[j]
          /\ UNCHANGED <<subscribed, pushing, sent, queue>>
      BY <2>19 DEF PumpFlush, Without, Restrict
    <3>5. PushTypes'
      BY <2>0, <3>4 DEF PushTypes, IsMap
    <3>6. QED
      BY <2>0, <2>1, <2>19, <3>3, <3>5, SameTypes DEF PumpFlush, reader, writer
  <2>20. ASSUME Tick PROVE TypeOK'
    <3>1. ServerTypes'
      BY <2>0, <2>20, ValueCacheAssumption DEF Tick, ServerTypes, Times, Device
    <3>2. QED
      BY <2>0, <2>1, <2>20, <3>1, SameTypes DEF Tick, reader, writer
  <2>21. ASSUME Restart PROVE TypeOK'
    <3>1. <<>> \in Seq([key : ValueKeys, val : Versions]) /\ Len(<<>>) <= QueueCap
      BY ValueCacheAssumption
    <3>2. PushTypes'
      BY <2>0, <2>21, <3>1 DEF Restart, PushTypes, IsMap, Empty
    <3>3. ReadTypes'
      BY <2>0, <2>21 DEF Restart, ReadTypes, IsMap, Empty
    <3>4. QED
      BY <2>0, <2>1, <2>21, <3>2, <3>3, SameTypes DEF Restart, writer
  <2>22. ASSUME NEW k \in Keys, DeviceChange(k) PROVE TypeOK'
    <3>1. ServerTypes'
      BY <2>22, ServerTyped DEF DeviceChange
    <3>2. QED
      BY <2>0, <2>1, <2>22, <3>1, SameTypes DEF DeviceChange, reader, writer
  <2>23. ASSUME UNCHANGED vars PROVE TypeOK'
    BY <2>0, <2>1, <2>23, SameTypes DEF vars, reader, writer
  <2>24. QED
    BY <2>3, <2>4, <2>5, <2>6, <2>7, <2>8, <2>9, <2>10, <2>11, <2>12, <2>13,
       <2>14, <2>15, <2>16, <2>17, <2>18, <2>19, <2>20, <2>21, <2>22, <2>23
       DEF Next, Call, Pump, Quiescent
<1>3. QED
  BY <1>1, <1>2, Invariance, PTL DEF Spec
=============================================================================
