--------------------------- MODULE SensorsProofs ---------------------------
(***************************************************************************)
(* Theorems about Sensors for every set of requests, every capacity of the *)
(* outlier channel and every bound.  The invariant IInv has four parts:    *)
(* types, the identity of sensors (SensorIdsInv), who attaches a sensor    *)
(* (CopyInv) and the order of the outliers of a sensor on their way from   *)
(* the request to the buffer (OutlierInv).                                 *)
(***************************************************************************)
EXTENDS Sensors, SequenceFacts

-----------------------------------------------------------------------------
(* Lemmas about the sequences of the model *)

\* The sensors of a restored gateway.
LEMMA NumberedFacts ==
  ASSUME NEW n \in 0..MaxSensors
  PROVE  /\ Numbered(n) \in Seq(SensorIds) /\ Len(Numbered(n)) = n
         /\ \A i \in 1..n : Numbered(n)[i] = i
  BY BoundsAssumption DEF Numbered, SensorIds

\* Generators that hold no outlier.
LEMMA UnsetFacts ==
  ASSUME NEW S, NEW s \in Seq(S)
  PROVE  /\ Unset(s) \in Seq(Nat) /\ Len(Unset(s)) = Len(s)
         /\ \A i \in 1..Len(s) : Unset(s)[i] = NoOutlier
  BY DEF Unset, NoOutlier

\* One sequence after another.
LEMMA ConcatFacts ==
  ASSUME NEW S, NEW a \in Seq(S), NEW b \in Seq(S)
  PROVE  /\ a \o b \in Seq(S) /\ Len(a \o b) = Len(a) + Len(b)
         /\ \A k \in 1..(Len(a) + Len(b)) :
              (a \o b)[k] = IF k <= Len(a) THEN a[k] ELSE b[k - Len(a)]
  OBVIOUS

\* Deleting the i-th row of a table.
LEMMA WithoutFacts ==
  ASSUME NEW S, NEW s \in Seq(S), NEW i \in 1..Len(s)
  PROVE  /\ Without(s, i) \in Seq(S)
         /\ Len(Without(s, i)) = Len(s) - 1
         /\ \A k \in 1..(Len(s) - 1) : Without(s, i)[k] = IF k < i THEN s[k] ELSE s[k + 1]
  <1> DEFINE a == SubSeq(s, 1, i - 1)  b == SubSeq(s, i + 1, Len(s))
  <1>1. /\ a \in Seq(S) /\ Len(a) = i - 1
        /\ \A k \in 1..(i - 1) : a[k] = s[k]
    OBVIOUS
  <1>2. /\ b \in Seq(S) /\ Len(b) = Len(s) - i
        /\ \A k \in 1..(Len(s) - i) : b[k] = s[k + i]
    OBVIOUS
  <1>3. Without(s, i) = a \o b
    BY DEF Without
  <1>4. i \in Int /\ 1 <= i /\ i <= Len(s) /\ Len(s) \in Nat
    OBVIOUS
  <1> HIDE DEF a, b
  <1>5. /\ Without(s, i) \in Seq(S) /\ Len(Without(s, i)) = Len(a) + Len(b)
        /\ \A k \in 1..(Len(a) + Len(b)) :
             Without(s, i)[k] = IF k <= Len(a) THEN a[k] ELSE b[k - Len(a)]
    <2>1. a \in Seq(S) /\ b \in Seq(S)
      BY <1>1, <1>2
    <2>2. /\ a \o b \in Seq(S) /\ Len(a \o b) = Len(a) + Len(b)
          /\ \A k \in 1..(Len(a) + Len(b)) :
               (a \o b)[k] = IF k <= Len(a) THEN a[k] ELSE b[k - Len(a)]
      BY <2>1, ConcatFacts
    <2> QED BY <1>3, <2>2, Zenon
  <1>6. Len(a) + Len(b) = Len(s) - 1
    BY <1>1, <1>2, <1>4
  <1>7. ASSUME NEW k \in 1..(Len(s) - 1)
        PROVE  Without(s, i)[k] = IF k < i THEN s[k] ELSE s[k + 1]
    <2>1. Without(s, i)[k] = IF k <= i - 1 THEN a[k] ELSE b[k - (i - 1)]
      BY <1>1, <1>5, <1>6
    <2>2. CASE k < i
      BY <1>1, <1>4, <2>1, <2>2
    <2>3. CASE ~(k < i)
      <3>1. k - (i - 1) \in 1..(Len(s) - i) /\ ~(k <= i - 1)
        BY <1>4, <2>3
      <3>2. b[k - (i - 1)] = s[(k - (i - 1)) + i]
        BY <1>2, <3>1
      <3>3. (k - (i - 1)) + i = k + 1
        BY <1>4
      <3> QED BY <2>1, <2>3, <3>1, <3>2, <3>3
    <2> QED BY <2>2, <2>3
  <1> QED BY <1>5, <1>6, <1>7

-----------------------------------------------------------------------------
(* The inductive invariant *)

Saga == {"listing", "launching", "registering"}

Distinct(s) == \A i, j \in 1..Len(s) : s[i] = s[j] => i = j

\* A sensor that was not stored yet is unknown everywhere, and only one request
\* adds it.
Known == Elements(stored) \cup Elements(listed) \cup Elements(attached) \cup early

Adding(p) == pc[p] \in {"create", "attach"}

SensorIdsInv ==
  /\ \A s \in Known : s <= calls
  /\ \A p \in Requests : sid[p] <= calls
  /\ \A p \in Requests : pc[p] = "create" => sid[p] \notin Known
  /\ \A p, q \in Requests : Adding(p) /\ Adding(q) /\ sid[p] = sid[q] => p = q
  /\ Distinct(stored) /\ Distinct(listed)

\* Only sensors stored while the saga was under way are known to its worker
\* from the start; any other one is attached by its own request.
CopyInv ==
  /\ life \in Saga => Elements(stored) \subseteq early
  /\ Elements(listed) \subseteq early
  /\ \A p \in Requests : pc[p] = "attach" /\ sid[p] \notin early => sid[p] \notin Elements(attached)

NewestOf(s) == IF emitted[s] = <<>> THEN 0 ELSE emitted[s][Len(emitted[s])]

IsFirst(i) == \A j \in 1..(i - 1) : attached[j] # attached[i]

\* Of the outliers of a sensor, the buffer has the oldest, then comes the one its
\* first generator holds, then those in the channel.
HeldInv ==
  \A i \in 1..Len(attached) : override[i] # NoOutlier =>
     /\ IsFirst(i)
     /\ NewestOf(attached[i]) < override[i] /\ override[i] <= injected[attached[i]]

WaitingInv ==
  /\ \A k \in 1..Len(outlierCh) :
       /\ NewestOf(outlierCh[k].sensor) < outlierCh[k].n
       /\ outlierCh[k].n <= injected[outlierCh[k].sensor]
       /\ \A i \in 1..Len(attached) :
            attached[i] = outlierCh[k].sensor => override[i] < outlierCh[k].n
  /\ \A k, l \in 1..Len(outlierCh) :
       k < l /\ outlierCh[k].sensor = outlierCh[l].sensor => outlierCh[k].n < outlierCh[l].n

FirstsInv ==
  \A k \in 1..Len(attached) :
     \E i \in 1..Len(attached) : attached[i] = attached[k] /\ IsFirst(i)

EmittedInv == \A s \in SensorIds : NewestOf(s) <= injected[s]

OutlierInv == FirstsInv /\ HeldInv /\ WaitingInv /\ EmittedInv

-----------------------------------------------------------------------------
(* Types *)

\* The first entry for an attached sensor is where its outlier is put.
LEMMA FirstFacts ==
  ASSUME TypeOK, FirstsInv, NEW k \in 1..Len(attached)
  PROVE  /\ First(attached[k]) \in 1..Len(attached)
         /\ attached[First(attached[k])] = attached[k]
         /\ IsFirst(First(attached[k]))
         /\ \A i \in 1..Len(attached) : attached[i] = attached[k] /\ IsFirst(i)
                                        => i = First(attached[k])
  <1> DEFINE s == attached[k]
             F(i) == attached[i] = s /\ \A j \in 1..(i - 1) : attached[j] # s
  <1>1. \E i \in 1..Len(attached) : F(i)
    BY DEF FirstsInv, IsFirst
  <1>2. First(s) = CHOOSE i \in 1..Len(attached) : F(i)
    BY DEF First
  <1>3. First(s) \in 1..Len(attached) /\ F(First(s))
    BY <1>1, <1>2
  <1>4. ASSUME NEW i \in 1..Len(attached), NEW j \in 1..Len(attached), F(i), F(j)
        PROVE  i = j
    <2>1. Len(attached) \in Nat
      BY DEF TypeOK
    <2> QED BY <1>4, <2>1
  <1>5. \A i \in 1..Len(attached) : attached[i] = s /\ IsFirst(i) <=> F(i)
    BY DEF IsFirst
  <1> QED BY <1>3, <1>4, <1>5

\* A sensor with an outlier that is due emits the one its first entry holds.
LEMMA DueFacts ==
  ASSUME TypeOK, FirstsInv, HeldInv, NEW s \in SensorIds, Due(s) # {}
  PROVE  /\ First(s) \in 1..Len(attached) /\ attached[First(s)] = s
         /\ override[First(s)] \in Nat
         /\ NewestOf(s) < override[First(s)] /\ override[First(s)] <= injected[s]
  <1>1. PICK k \in 1..Len(attached) : attached[k] = s /\ override[k] # NoOutlier
    BY DEF Due
  <1>2. IsFirst(k) /\ NewestOf(s) < override[k] /\ override[k] <= injected[s]
    BY <1>1 DEF HeldInv
  <1>3. First(s) = k
    BY <1>1, <1>2, FirstFacts
  <1>4. override[k] \in Nat
    BY DEF TypeOK
  <1> QED BY <1>1, <1>2, <1>3, <1>4

\* The conjuncts of TypeOK by the group of variables they are about.
RequestTypes ==
  /\ pc \in [Requests -> Steps] /\ sid \in [Requests -> SensorIds \cup {NoSensor}]
  /\ \A p \in Requests : pc[p] = "idle" <=> sid[p] = NoSensor
  /\ calls \in 0..MaxSensors

StoreTypes ==
  /\ gwRow \in BOOLEAN /\ stored \in Seq(SensorIds)
  /\ life \in Lives /\ listed \in Seq(SensorIds)
  /\ running \in BOOLEAN /\ loop \in LoopStates
  /\ early \subseteq SensorIds

WorkerTypes ==
  /\ attached \in Seq(SensorIds) /\ override \in Seq(Nat)
  /\ Len(override) = Len(attached)

OutlierTypes ==
  /\ outlierCh \in Seq([sensor : SensorIds, n : Nat]) /\ Len(outlierCh) <= OutlierCap
  /\ injected \in [SensorIds -> Nat]
  /\ emitted \in [SensorIds -> Seq(Nat)]

\* Together they are TypeOK.
LEMMA TypeParts == TypeOK <=> RequestTypes /\ StoreTypes /\ WorkerTypes /\ OutlierTypes
  BY DEF TypeOK, RequestTypes, StoreTypes, WorkerTypes, OutlierTypes

\* A request at work has a sensor.
LEMMA AtWork ==
  ASSUME TypeOK, NEW p \in Requests, pc[p] # "idle"
  PROVE  sid[p] \in SensorIds
  BY DEF TypeOK

\* Replacing an element of a sequence.
LEMMA ExceptFacts ==
  ASSUME NEW S, NEW s \in Seq(S), NEW i \in 1..Len(s), NEW e \in S
  PROVE  /\ [s EXCEPT ![i] = e] \in Seq(S) /\ Len([s EXCEPT ![i] = e]) = Len(s)
         /\ \A j \in 1..Len(s) : [s EXCEPT ![i] = e][j] = IF j = i THEN e ELSE s[j]
  OBVIOUS

\* No step of a request, of the gateway's goroutine or of the loop breaks a type.
LEMMA TypeStep == TypeOK /\ OutlierInv /\ [Next]_vars => TypeOK'
  <1> SUFFICES ASSUME TypeOK, OutlierInv, [Next]_vars PROVE TypeOK'
    OBVIOUS
  <1> USE DEF reqVars, storeVars, sagaVars, workerVars, loopVars, outVars
  <1>T. RequestTypes /\ StoreTypes /\ WorkerTypes /\ OutlierTypes
    BY TypeParts
  <1>B. OutlierCap \in Nat \ {0} /\ MaxSensors \in Nat
    BY BoundsAssumption
  <1>1. ASSUME NEW p \in Requests, Request(p) PROVE TypeOK'
    <2>1. CASE AddSensor(p)
      <3>1. RequestTypes'
        <4>1. calls + 1 \in SensorIds /\ calls + 1 \in 0..MaxSensors /\ calls + 1 # NoSensor
          BY <1>B, <1>T, <2>1 DEF AddSensor, RequestTypes, SensorIds, NoSensor
        <4> QED BY <1>T, <2>1, <4>1 DEF AddSensor, Enter, RequestTypes, Steps
      <3>2. StoreTypes' /\ WorkerTypes' /\ OutlierTypes'
        BY <1>T, <2>1 DEF AddSensor, StoreTypes, WorkerTypes, OutlierTypes
      <3> QED BY <3>1, <3>2, TypeParts DEF RequestTypes, StoreTypes, WorkerTypes, OutlierTypes, TypeOK
    <2>2. CASE CreateSensor(p)
      <3>1. RequestTypes'
        BY <1>T, <2>2 DEF CreateSensor, Goto, Return, RequestTypes, Steps, SensorIds, NoSensor
      <3>2. StoreTypes'
        <4>1. sid[p] \in SensorIds
          BY <2>2, AtWork DEF CreateSensor
        <4>2. Append(stored, sid[p]) \in Seq(SensorIds)
          BY <1>T, <4>1, AppendFacts DEF StoreTypes
        <4> QED BY <1>T, <2>2, <4>1, <4>2 DEF CreateSensor, StoreTypes
      <3>3. WorkerTypes' /\ OutlierTypes'
        BY <1>T, <2>2 DEF CreateSensor, WorkerTypes, OutlierTypes
      <3> QED BY <3>1, <3>2, <3>3 DEF RequestTypes, StoreTypes, WorkerTypes, OutlierTypes, TypeOK
    <2>3. CASE AttachSensor(p)
      <3>1. RequestTypes'
        BY <1>T, <2>3 DEF AttachSensor, Return, RequestTypes, Steps, SensorIds, NoSensor
      <3>2. WorkerTypes'
        <4>1. sid[p] \in SensorIds /\ NoOutlier \in Nat
          BY <2>3, AtWork DEF AttachSensor, NoOutlier
        <4>2. /\ Append(attached, sid[p]) \in Seq(SensorIds)
              /\ Append(override, NoOutlier) \in Seq(Nat)
              /\ Len(Append(attached, sid[p])) = Len(Append(override, NoOutlier))
          BY <1>T, <4>1, AppendFacts DEF WorkerTypes
        <4> QED BY <1>T, <2>3, <4>2 DEF AttachSensor, WorkerTypes
      <3>3. StoreTypes' /\ OutlierTypes'
        BY <1>T, <2>3 DEF AttachSensor, StoreTypes, OutlierTypes
      <3> QED BY <3>1, <3>2, <3>3 DEF RequestTypes, StoreTypes, WorkerTypes, OutlierTypes, TypeOK
    <2>4. ASSUME NEW s \in SensorIds, DeleteSensor(p, s) \/ InjectSensorOutlier(p, s)
          PROVE  TypeOK'
      <3>1. s # NoSensor
        BY DEF SensorIds, NoSensor
      <3>2. RequestTypes'
        BY <1>T, <2>4, <3>1 DEF DeleteSensor, InjectSensorOutlier, Enter, RequestTypes, Steps
      <3>3. StoreTypes' /\ WorkerTypes' /\ OutlierTypes'
        BY <1>T, <2>4 DEF DeleteSensor, InjectSensorOutlier, StoreTypes, WorkerTypes, OutlierTypes
      <3> QED BY <3>2, <3>3 DEF RequestTypes, StoreTypes, WorkerTypes, OutlierTypes, TypeOK
    <2>5. CASE RemoveSensorRow(p)
      <3>1. RequestTypes'
        BY <1>T, <2>5 DEF RemoveSensorRow, Return, RequestTypes, Steps, SensorIds, NoSensor
      <3>2. \A i \in 1..Len(stored) : Without(stored, i) \in Seq(SensorIds)
        BY <1>T, WithoutFacts DEF StoreTypes
      <3>3. StoreTypes' /\ WorkerTypes' /\ OutlierTypes'
        BY <1>T, <2>5, <3>2 DEF RemoveSensorRow, StoreTypes, WorkerTypes, OutlierTypes
      <3> QED BY <3>1, <3>3 DEF RequestTypes, StoreTypes, WorkerTypes, OutlierTypes, TypeOK
    <2>6. CASE FindWorker(p)
      <3>1. RequestTypes'
        BY <1>T, <2>6 DEF FindWorker, Goto, Return, RequestTypes, Steps, SensorIds, NoSensor
      <3>2. StoreTypes' /\ WorkerTypes' /\ OutlierTypes'
        BY <1>T, <2>6 DEF FindWorker, StoreTypes, WorkerTypes, OutlierTypes
      <3> QED BY <3>1, <3>2 DEF RequestTypes, StoreTypes, WorkerTypes, OutlierTypes, TypeOK
    <2>7. CASE OfferOutlier(p)
      <3>1. RequestTypes'
        BY <1>T, <2>7 DEF OfferOutlier, Return, RequestTypes, Steps, SensorIds, NoSensor
      <3>2. StoreTypes' /\ WorkerTypes'
        BY <1>T, <2>7 DEF OfferOutlier, StoreTypes, WorkerTypes
      <3>3. OutlierTypes'
        <4>1. CASE UNCHANGED <<outlierCh, injected>>
          BY <1>T, <2>7, <4>1 DEF OfferOutlier, OutlierTypes
        <4>2. CASE Len(outlierCh) < OutlierCap /\ Accept(sid[p])
          <5>1. sid[p] \in SensorIds
            BY <2>7, AtWork DEF OfferOutlier
          <5> DEFINE e == [sensor |-> sid[p], n |-> injected[sid[p]] + 1]
          <5>2. e \in [sensor : SensorIds, n : Nat]
            BY <1>T, <5>1 DEF OutlierTypes
          <5>3. outlierCh' = Append(outlierCh, e) /\ injected' = [injected EXCEPT ![sid[p]] = @ + 1]
                /\ emitted' = emitted
            BY <2>7, <4>2 DEF OfferOutlier, Accept
          <5> HIDE DEF e
          <5>4. outlierCh' \in Seq([sensor : SensorIds, n : Nat]) /\ Len(outlierCh') = Len(outlierCh) + 1
            BY <1>T, <5>2, <5>3, AppendFacts DEF OutlierTypes
          <5>5. injected' \in [SensorIds -> Nat]
            BY <1>T, <5>1, <5>3 DEF OutlierTypes
          <5>6. Len(outlierCh') <= OutlierCap
            BY <1>B, <1>T, <4>2, <5>4 DEF OutlierTypes
          <5> QED BY <1>T, <5>3, <5>4, <5>5, <5>6 DEF OutlierTypes
        <4> QED BY <2>7, <4>1, <4>2 DEF OfferOutlier
      <3> QED BY <3>1, <3>2, <3>3 DEF RequestTypes, StoreTypes, WorkerTypes, OutlierTypes, TypeOK
    <2> QED BY <1>1, <2>1, <2>2, <2>3, <2>4, <2>5, <2>6, <2>7 DEF Request
  <1>2. CASE SagaListSensors \/ Register \/ Stop \/ Start \/ RemoveWorker \/ DeleteGateway
    <2>1. StoreTypes'
      <3>1. <<>> \in Seq(SensorIds)
        OBVIOUS
      <3>2. CASE SagaListSensors \/ Register
        BY <1>T, <3>2 DEF SagaListSensors, Register, StoreTypes, Lives
      <3>3. CASE Stop \/ Start \/ RemoveWorker
        BY <1>T, <3>3 DEF Stop, Start, RemoveWorker, StoreTypes, Lives, LoopStates
      <3>4. CASE DeleteGateway
        BY <1>T, <3>1, <3>4 DEF DeleteGateway, StoreTypes, Lives
      <3> QED BY <1>2, <3>2, <3>3, <3>4
    <2>2. RequestTypes' /\ WorkerTypes' /\ OutlierTypes'
      BY <1>T, <1>2 DEF SagaListSensors, Register, Stop, Start, RemoveWorker, DeleteGateway,
         RequestTypes, WorkerTypes, OutlierTypes
    <2> QED BY <2>1, <2>2 DEF RequestTypes, StoreTypes, WorkerTypes, OutlierTypes, TypeOK
  <1>3. CASE StartWorker
    <2>1. Unset(listed) \in Seq(Nat) /\ Len(Unset(listed)) = Len(listed)
      BY <1>T, UnsetFacts DEF StoreTypes
    <2>2. WorkerTypes' /\ StoreTypes'
      BY <1>T, <1>3, <2>1 DEF StartWorker, WorkerTypes, StoreTypes, Lives, LoopStates
    <2>3. RequestTypes' /\ OutlierTypes'
      BY <1>T, <1>3 DEF StartWorker, RequestTypes, OutlierTypes
    <2> QED BY <2>2, <2>3 DEF RequestTypes, StoreTypes, WorkerTypes, OutlierTypes, TypeOK
  <1>4. CASE DrainOutlier
    <2> DEFINE e == Head(outlierCh)
    <2>1. outlierCh \in Seq([sensor : SensorIds, n : Nat]) /\ outlierCh # <<>>
      BY <1>T, <1>4 DEF DrainOutlier, OutlierTypes
    <2>2. /\ e \in [sensor : SensorIds, n : Nat]
          /\ Tail(outlierCh) \in Seq([sensor : SensorIds, n : Nat])
          /\ Len(Tail(outlierCh)) = Len(outlierCh) - 1 /\ Len(outlierCh) \in Nat
      BY <2>1, TailFacts
    <2>3. OutlierTypes'
      BY <1>B, <1>T, <1>4, <2>2 DEF DrainOutlier, OutlierTypes
    <2>4. \/ override' = override
          \/ e.sensor \in Elements(attached) /\ override' = [override EXCEPT ![First(e.sensor)] = e.n]
      BY <1>4 DEF DrainOutlier
    <2>5. e.n \in Nat
      BY <2>2
    <2> HIDE DEF e
    <2>6. WorkerTypes'
      <3>1. override' \in Seq(Nat) /\ Len(override') = Len(override)
        <4>1. CASE e.sensor \in Elements(attached)
          <5>1. First(e.sensor) \in 1..Len(override)
            BY <1>T, <4>1, FirstFacts DEF Elements, OutlierInv, WorkerTypes
          <5> QED BY <1>T, <2>4, <2>5, <5>1, ExceptFacts DEF WorkerTypes
        <4>2. CASE override' = override
          BY <1>T, <4>2 DEF WorkerTypes
        <4> QED BY <2>4, <4>1, <4>2
      <3> QED BY <1>T, <1>4, <3>1 DEF DrainOutlier, WorkerTypes
    <2>7. StoreTypes' /\ RequestTypes'
      BY <1>T, <1>4 DEF DrainOutlier, StoreTypes, RequestTypes, LoopStates
    <2> QED BY <2>3, <2>6, <2>7 DEF RequestTypes, StoreTypes, WorkerTypes, OutlierTypes, TypeOK
  <1>5. CASE DrainEnd \/ PublishBlocked \/ LoopExit
    <2>1. StoreTypes' /\ RequestTypes' /\ WorkerTypes' /\ OutlierTypes'
      BY <1>T, <1>5 DEF DrainEnd, PublishBlocked, LoopExit, LoopStates, StoreTypes, RequestTypes, WorkerTypes, OutlierTypes
    <2> QED BY <2>1 DEF RequestTypes, StoreTypes, WorkerTypes, OutlierTypes, TypeOK
  <1>6. CASE Publish
    <2>1. PICK lost \in SUBSET SensorIds : Emit(lost)
      BY <1>6 DEF Publish
    <2>2. ASSUME NEW s \in SensorIds, Due(s) # {}
          PROVE  Append(emitted[s], override[First(s)]) \in Seq(Nat)
      <3>1. override[First(s)] \in Nat
        BY <2>2, DueFacts DEF OutlierInv
      <3>2. emitted[s] \in Seq(Nat)
        BY <1>T DEF OutlierTypes
      <3> QED BY <3>1, <3>2, AppendFacts
    <2>3. emitted' \in [SensorIds -> Seq(Nat)]
      BY <1>T, <2>1, <2>2 DEF Emit, OutlierTypes
    <2>4. OutlierTypes'
      BY <1>T, <1>6, <2>3 DEF Publish, OutlierTypes
    <2>5. Unset(override) \in Seq(Nat) /\ Len(Unset(override)) = Len(override)
      BY <1>T, UnsetFacts DEF WorkerTypes
    <2>6. WorkerTypes' /\ StoreTypes' /\ RequestTypes'
      BY <1>T, <1>6, <2>5 DEF Publish, WorkerTypes, StoreTypes, RequestTypes, LoopStates
    <2> QED BY <2>4, <2>6 DEF RequestTypes, StoreTypes, WorkerTypes, OutlierTypes, TypeOK
  <1>7. CASE UNCHANGED vars
    BY <1>7 DEF vars, TypeOK
  <1> QED BY <1>1, <1>2, <1>3, <1>4, <1>5, <1>6, <1>7 DEF Next, Lifecycle, Tick

-----------------------------------------------------------------------------
(* Which sensors exist, and who attaches them *)

\* What the operations on tables and slices do to the set of their elements.
LEMMA ElementsFacts ==
  ASSUME NEW S, NEW s \in Seq(S)
  PROVE  /\ \A e \in S : Elements(Append(s, e)) = Elements(s) \cup {e}
         /\ \A i \in 1..Len(s) : Elements(Without(s, i)) \subseteq Elements(s)
         /\ Elements(s) \subseteq S
         /\ Elements(<<>>) = {}
  <1>1. ASSUME NEW e \in S PROVE Elements(Append(s, e)) = Elements(s) \cup {e}
    <2> DEFINE t == Append(s, e)
    <2>1. /\ Len(s) \in Nat /\ Len(t) = Len(s) + 1 /\ t[Len(s) + 1] = e
          /\ \A i \in 1..Len(s) : t[i] = s[i]
      BY AppendFacts
    <2> HIDE DEF t
    <2>2. 1..Len(t) = 1..Len(s) \cup {Len(s) + 1}
      BY <2>1
    <2> QED BY <2>1, <2>2 DEF Elements, t
  <1>2. ASSUME NEW i \in 1..Len(s) PROVE Elements(Without(s, i)) \subseteq Elements(s)
    <2> DEFINE t == Without(s, i)
    <2>1. /\ Len(s) \in Nat /\ Len(t) = Len(s) - 1
          /\ \A k \in 1..(Len(s) - 1) : t[k] = IF k < i THEN s[k] ELSE s[k + 1]
      BY WithoutFacts
    <2> HIDE DEF t
    <2>2. \A k \in 1..Len(t) : \E j \in 1..Len(s) : t[k] = s[j]
      BY <2>1
    <2> QED BY <2>2 DEF Elements, t
  <1>3. Elements(s) \subseteq S /\ Elements(<<>>) = {}
    BY DEF Elements
  <1> QED BY <1>1, <1>2, <1>3

\* A new row, and a deleted one, keep the rows of a table distinct.
LEMMA DistinctFacts ==
  ASSUME NEW S, NEW s \in Seq(S), Distinct(s)
  PROVE  /\ \A e \in S : e \notin Elements(s) => Distinct(Append(s, e))
         /\ \A i \in 1..Len(s) : Distinct(Without(s, i))
  <1>1. ASSUME NEW e \in S, e \notin Elements(s) PROVE Distinct(Append(s, e))
    <2> DEFINE t == Append(s, e)
    <2>1. /\ Len(s) \in Nat /\ Len(t) = Len(s) + 1 /\ t[Len(s) + 1] = e
          /\ \A i \in 1..Len(s) : t[i] = s[i] /\ s[i] # e
      BY <1>1, AppendFacts DEF Elements
    <2> HIDE DEF t
    <2>2. \A i, j \in 1..Len(t) : t[i] = t[j] => i = j
      BY <2>1 DEF Distinct
    <2> QED BY <2>2 DEF Distinct, t
  <1>2. ASSUME NEW i \in 1..Len(s) PROVE Distinct(Without(s, i))
    <2> DEFINE t == Without(s, i)
    <2>1. /\ Len(s) \in Nat /\ Len(t) = Len(s) - 1
          /\ \A k \in 1..(Len(s) - 1) : t[k] = IF k < i THEN s[k] ELSE s[k + 1]
      BY WithoutFacts
    <2> HIDE DEF t
    <2>2. ASSUME NEW k \in 1..Len(t), NEW l \in 1..Len(t), t[k] = t[l] PROVE k = l
      <3> DEFINE a == IF k < i THEN k ELSE k + 1  b == IF l < i THEN l ELSE l + 1
      <3>1. a \in 1..Len(s) /\ b \in 1..Len(s) /\ t[k] = s[a] /\ t[l] = s[b]
        BY <2>1
      <3>2. a = b
        BY <2>2, <3>1 DEF Distinct
      <3> QED BY <2>1, <3>2
    <2> QED BY <2>2 DEF Distinct, t
  <1> QED BY <1>1, <1>2

\* A request that begins, goes on or returns keeps its sensor to itself.
LEMMA IdsMove ==
  ASSUME TypeOK, SensorIdsInv, NEW p \in Requests, NEW l, NEW s,
         pc' = [pc EXCEPT ![p] = l], sid' = [sid EXCEPT ![p] = s],
         calls' \in Nat, calls <= calls', s <= calls',
         Known' \subseteq Known \/ (Adding(p) /\ Known' \subseteq Known \cup {sid[p]}),
         \/ l \notin {"create", "attach"}
         \/ l = "attach" /\ Adding(p) /\ s = sid[p]
         \/ l = "create" /\ s = calls + 1,
         Distinct(stored)' /\ Distinct(listed)'
  PROVE  SensorIdsInv'
  <1>1. /\ \A x \in Known : x \in Nat /\ x <= calls
        /\ \A q \in Requests : sid[q] \in Nat /\ sid[q] <= calls
        /\ calls \in Nat
        /\ \A q \in Requests : pc[q] = "create" => sid[q] \notin Known
    <2>1. Known \subseteq SensorIds
      BY ElementsFacts DEF TypeOK, Known
    <2> QED BY <2>1, BoundsAssumption DEF TypeOK, SensorIdsInv, SensorIds, NoSensor
  <1>2. /\ pc'[p] = l /\ sid'[p] = s
        /\ \A q \in Requests : q # p => pc'[q] = pc[q] /\ sid'[q] = sid[q]
    BY DEF TypeOK
  <1>3. \A x \in Known' : x <= calls'
    BY <1>1
  <1>4. \A q \in Requests : sid'[q] <= calls'
    BY <1>1, <1>2
  <1>5. ASSUME NEW q \in Requests, pc'[q] = "create" PROVE sid'[q] \notin Known'
    <2>1. CASE q = p
      <3>1. s = calls + 1
        BY <1>2, <1>5, <2>1
      <3>2. ~(s <= calls)
        BY <1>1, <3>1
      <3> QED BY <1>1, <1>2, <2>1, <3>2
    <2>2. CASE q # p
      <3>1. Adding(p) => sid[q] # sid[p]
        BY <1>2, <1>5, <2>2 DEF SensorIdsInv, Adding
      <3> QED BY <1>1, <1>2, <1>5, <2>2, <3>1
    <2> QED BY <2>1, <2>2
  <1>6. ASSUME NEW q \in Requests, NEW r \in Requests, Adding(q)', Adding(r)', sid'[q] = sid'[r]
        PROVE  q = r
    <2>1. ASSUME NEW x \in Requests, x # p, Adding(x)', Adding(p)' PROVE sid'[x] # s
      <3>1. Adding(x) /\ sid'[x] = sid[x] /\ l \in {"create", "attach"}
        BY <1>2, <2>1 DEF Adding
      <3>2. CASE l = "attach"
        BY <2>1, <3>1, <3>2 DEF SensorIdsInv
      <3>3. CASE l = "create"
        BY <1>1, <3>1, <3>3
      <3> QED BY <3>1, <3>2, <3>3
    <2>2. CASE q # p /\ r # p
      BY <1>2, <1>6, <2>2 DEF SensorIdsInv, Adding
    <2> QED BY <1>2, <1>6, <2>1, <2>2
  <1> QED BY <1>3, <1>4, <1>5, <1>6 DEF SensorIdsInv

\* A step of another goroutine makes no sensor known.
LEMMA IdsKeep ==
  ASSUME SensorIdsInv, UNCHANGED <<pc, sid, calls>>, Known' \subseteq Known,
         Distinct(stored)' /\ Distinct(listed)'
  PROVE  SensorIdsInv'
  BY DEF SensorIdsInv, Adding

\* No step makes two requests add the same sensor, or a sensor known too early.
LEMMA IdsStep == TypeOK /\ TypeOK' /\ SensorIdsInv /\ [Next]_vars => SensorIdsInv'
  <1> SUFFICES ASSUME TypeOK, TypeOK', SensorIdsInv, [Next]_vars PROVE SensorIdsInv'
    OBVIOUS
  <1> USE DEF reqVars, storeVars, sagaVars, workerVars, loopVars, outVars
  <1>T. /\ stored \in Seq(SensorIds) /\ listed \in Seq(SensorIds) /\ attached \in Seq(SensorIds)
        /\ calls \in Nat /\ calls' \in Nat
        /\ \A p \in Requests : sid[p] \in SensorIds \cup {NoSensor}
    BY BoundsAssumption DEF TypeOK
  <1>D. Distinct(stored) /\ Distinct(listed) /\ NoSensor <= calls /\ calls <= calls
    BY <1>T DEF SensorIdsInv, NoSensor
  <1>1. ASSUME NEW p \in Requests, Request(p) PROVE SensorIdsInv'
    <2>1. CASE AddSensor(p)
      <3>1. /\ pc' = [pc EXCEPT ![p] = "create"] /\ sid' = [sid EXCEPT ![p] = calls + 1]
            /\ calls' = calls + 1 /\ UNCHANGED <<stored, listed, attached, early>>
        BY <2>1 DEF AddSensor, Enter
      <3>2. Known' = Known /\ calls <= calls' /\ calls + 1 <= calls'
        BY <1>T, <3>1 DEF Known
      <3> QED BY <1>T, <1>D, <3>1, <3>2, IdsMove
    <2>2. CASE CreateSensor(p)
      <3>1. CASE stored' = Append(stored, sid[p]) /\ Goto(p, "attach")
        <4>1. /\ pc' = [pc EXCEPT ![p] = "attach"] /\ sid' = sid /\ pc[p] = "create"
              /\ early' \subseteq early \cup {sid[p]} /\ UNCHANGED <<calls, listed, attached>>
          BY <2>2, <3>1 DEF CreateSensor, Goto
        <4>2. sid[p] \in SensorIds /\ sid[p] <= calls /\ sid[p] \notin Elements(stored)
          BY <4>1, AtWork DEF SensorIdsInv, Known
        <4>3. Elements(stored)' = Elements(stored) \cup {sid[p]}
          BY <1>T, <3>1, <4>2, ElementsFacts
        <4>4. Known' \subseteq Known \cup {sid[p]}
          BY <4>1, <4>3 DEF Known
        <4>5. Distinct(stored)' /\ Distinct(listed)'
          BY <1>T, <1>D, <3>1, <4>1, <4>2, DistinctFacts
        <4>6. sid' = [sid EXCEPT ![p] = sid[p]] /\ Adding(p)
          BY <4>1 DEF TypeOK, Adding
        <4> QED BY <1>T, <1>D, <4>1, <4>2, <4>4, <4>5, <4>6, IdsMove
      <3>2. CASE Return(p) /\ UNCHANGED <<stored, early>>
        <4>1. /\ pc' = [pc EXCEPT ![p] = "idle"] /\ sid' = [sid EXCEPT ![p] = NoSensor]
              /\ UNCHANGED <<calls, stored, early, listed, attached>>
          BY <2>2, <3>2 DEF CreateSensor, Return
        <4>2. Known' = Known
          BY <4>1 DEF Known
        <4> QED BY <1>T, <1>D, <4>1, <4>2, IdsMove
      <3> QED BY <2>2, <3>1, <3>2 DEF CreateSensor
    <2>3. CASE AttachSensor(p)
      <3>1. /\ pc' = [pc EXCEPT ![p] = "idle"] /\ sid' = [sid EXCEPT ![p] = NoSensor]
            /\ pc[p] = "attach" /\ UNCHANGED <<calls, stored, early, listed>>
            /\ attached' = attached \/ attached' = Append(attached, sid[p])
        BY <2>3 DEF AttachSensor, Return
      <3>2. sid[p] \in SensorIds /\ Adding(p)
        BY <3>1, AtWork DEF Adding
      <3>3. Elements(attached)' \subseteq Elements(attached) \cup {sid[p]}
        BY <1>T, <3>1, <3>2, ElementsFacts
      <3>4. Known' \subseteq Known \cup {sid[p]}
        BY <3>1, <3>3 DEF Known
      <3> QED BY <1>T, <1>D, <3>1, <3>2, <3>4, IdsMove
    <2>4. ASSUME NEW s \in SensorIds, DeleteSensor(p, s) \/ InjectSensorOutlier(p, s)
          PROVE  SensorIdsInv'
      <3>1. /\ \E l \in {"remove", "find"} : pc' = [pc EXCEPT ![p] = l]
            /\ sid' = [sid EXCEPT ![p] = s] /\ s \in Elements(stored)
            /\ UNCHANGED <<calls, stored, early, listed, attached>>
        BY <2>4 DEF DeleteSensor, InjectSensorOutlier, Enter
      <3>2. Known' = Known /\ s <= calls
        BY <3>1 DEF Known, SensorIdsInv
      <3> QED BY <1>T, <1>D, <3>1, <3>2, IdsMove
    <2>5. CASE RemoveSensorRow(p)
      <3>1. /\ pc' = [pc EXCEPT ![p] = "idle"] /\ sid' = [sid EXCEPT ![p] = NoSensor]
            /\ UNCHANGED <<calls, early, listed, attached>>
            /\ stored' = stored \/ \E i \in 1..Len(stored) : stored' = Without(stored, i)
        BY <2>5 DEF RemoveSensorRow, Return
      <3>2. Elements(stored)' \subseteq Elements(stored)
        BY <1>T, <3>1, ElementsFacts
      <3>3. Distinct(stored)' /\ Distinct(listed)'
        BY <1>T, <1>D, <3>1, DistinctFacts
      <3>4. Known' \subseteq Known
        BY <3>1, <3>2 DEF Known
      <3> QED BY <1>T, <1>D, <3>1, <3>3, <3>4, IdsMove
    <2>6. CASE FindWorker(p) \/ OfferOutlier(p)
      <3>1. /\ UNCHANGED <<calls, stored, early, listed, attached>>
            /\ \/ pc' = [pc EXCEPT ![p] = "idle"] /\ sid' = [sid EXCEPT ![p] = NoSensor]
               \/ pc' = [pc EXCEPT ![p] = "offer"] /\ sid' = sid
        BY <2>6 DEF FindWorker, OfferOutlier, Return, Goto
      <3>2. Known' = Known /\ sid[p] <= calls
        BY <3>1 DEF Known, SensorIdsInv
      <3>3. sid = [sid EXCEPT ![p] = sid[p]]
        BY DEF TypeOK
      <3> QED BY <1>T, <1>D, <3>1, <3>2, <3>3, IdsMove
    <2> QED BY <1>1, <2>1, <2>2, <2>3, <2>4, <2>5, <2>6 DEF Request
  <1>2. CASE SagaListSensors
    <2>1. UNCHANGED <<pc, sid, calls, stored, attached, early>> /\ (listed' = stored \/ listed' = listed)
      BY <1>2 DEF SagaListSensors
    <2>2. Known' \subseteq Known
      BY <2>1 DEF Known
    <2> QED BY <1>D, <2>1, <2>2, IdsKeep
  <1>3. CASE StartWorker
    <2>1. UNCHANGED <<pc, sid, calls, stored, listed, early>> /\ attached' = listed
      BY <1>3 DEF StartWorker
    <2>2. Known' \subseteq Known
      BY <2>1 DEF Known
    <2> QED BY <1>D, <2>1, <2>2, IdsKeep
  <1>4. CASE DeleteGateway
    <2>1. UNCHANGED <<pc, sid, calls, listed, attached, early>> /\ (stored' = <<>> \/ stored' = stored)
      BY <1>4 DEF DeleteGateway
    <2>2. Elements(stored)' \subseteq Elements(stored) /\ Distinct(stored)' /\ Distinct(listed)'
      BY <1>D, <2>1 DEF Elements, Distinct
    <2>3. Known' \subseteq Known
      BY <2>1, <2>2 DEF Known
    <2> QED BY <2>1, <2>2, <2>3, IdsKeep
  <1>5. CASE Register \/ Stop \/ Start \/ RemoveWorker \/ Tick \/ LoopExit \/ UNCHANGED vars
    <2>1. UNCHANGED <<pc, sid, calls, stored, listed, attached, early>>
      BY <1>5 DEF Register, Stop, Start, RemoveWorker, Tick, DrainOutlier, DrainEnd, PublishBlocked,
         Publish, LoopExit, vars
    <2>2. Known' = Known
      BY <2>1 DEF Known
    <2> QED BY <1>D, <2>1, <2>2, IdsKeep
  <1> QED BY <1>1, <1>2, <1>3, <1>4, <1>5 DEF Next, Lifecycle

-----------------------------------------------------------------------------
\* What SensorsServed says of one sensor.
Served(s) ==
  \/ \E i \in 1..Len(attached) : Copies(s) = {i}
  \/ Copies(s) = {} /\ \E p \in Requests : pc[p] = "attach" /\ sid[p] = s

\* A sensor attached to a worker: its copy is the last one, and the only one if
\* the worker had none.
LEMMA CopiesFacts ==
  ASSUME TypeOK, NEW s \in SensorIds, attached' = Append(attached, s)
  PROVE  /\ \A t \in SensorIds : t # s => Copies(t)' = Copies(t)
         /\ s \notin Elements(attached) => \E i \in 1..Len(attached') : Copies(s)' = {i}
         /\ 1..Len(attached) \subseteq 1..Len(attached')
  <1>1. /\ Len(attached) \in Nat /\ Len(attached') = Len(attached) + 1
        /\ attached'[Len(attached) + 1] = s
        /\ \A i \in 1..Len(attached) : attached'[i] = attached[i]
    BY AppendFacts DEF TypeOK
  <1>2. 1..Len(attached') = 1..Len(attached) \cup {Len(attached) + 1}
    BY <1>1
  <1>3. \A t \in SensorIds : t # s => Copies(t)' = Copies(t)
    BY <1>1, <1>2 DEF Copies
  <1>4. s \notin Elements(attached) => Copies(s)' = {Len(attached) + 1}
    BY <1>1, <1>2 DEF Copies, Elements
  <1> QED BY <1>2, <1>3, <1>4

\* No sensor is missed or attached twice but for those stored during the saga.
LEMMA CopyStep ==
  TypeOK /\ TypeOK' /\ SensorIdsInv /\ CopyInv /\ SensorsServed /\ [Next]_vars
    => CopyInv' /\ SensorsServed'
  <1> SUFFICES ASSUME TypeOK, TypeOK', SensorIdsInv, CopyInv, SensorsServed, [Next]_vars
               PROVE  CopyInv' /\ SensorsServed'
    OBVIOUS
  <1> USE DEF reqVars, storeVars, sagaVars, workerVars, loopVars, outVars
  <1>T. /\ stored \in Seq(SensorIds) /\ listed \in Seq(SensorIds) /\ attached \in Seq(SensorIds)
        /\ pc \in [Requests -> Steps] /\ sid \in [Requests -> SensorIds \cup {NoSensor}]
        /\ Elements(stored) \subseteq SensorIds
    BY ElementsFacts DEF TypeOK
  <1>S. life = "up" => \A s \in Elements(stored) \ early : Served(s)
    BY DEF SensorsServed, Served
  <1>G. (life' = "up" => \A s \in Elements(stored)' \ early' : Served(s)') => SensorsServed'
    BY DEF SensorsServed, Served
  <1>1. ASSUME NEW p \in Requests, NEW l \in Steps \ {"attach"}, NEW x,
               pc[p] # "attach", pc' = [pc EXCEPT ![p] = l], sid' = [sid EXCEPT ![p] = x],
               Elements(stored)' \subseteq Elements(stored),
               UNCHANGED <<life, early, listed, attached>>
        PROVE  CopyInv' /\ SensorsServed'
    <2>1. \A q \in Requests : pc'[q] = "attach" <=> pc[q] = "attach"
      BY <1>T, <1>1
    <2>2. \A q \in Requests : pc[q] = "attach" => sid'[q] = sid[q]
      BY <1>T, <1>1
    <2>3. CopyInv'
      BY <1>1, <2>1, <2>2 DEF CopyInv
    <2>4. \A s : Served(s) => Served(s)'
      BY <1>1, <2>1, <2>2 DEF Served, Copies
    <2> QED BY <1>S, <1>G, <1>1, <2>3, <2>4
  <1>2. ASSUME UNCHANGED <<pc, sid, stored, early, listed, attached>>, life' \in Saga => life \in Saga,
               life' = "up" => life \in Saga \cup {"up"}
        PROVE  CopyInv' /\ SensorsServed'
    <2>1. CopyInv'
      BY <1>2 DEF CopyInv
    <2>2. \A s : Served(s) => Served(s)'
      BY <1>2 DEF Served, Copies
    <2> QED BY <1>S, <1>G, <1>2, <2>1, <2>2 DEF CopyInv
  <1>3. ASSUME NEW p \in Requests, Request(p) PROVE CopyInv' /\ SensorsServed'
    <2>1. CASE AddSensor(p)
      BY <1>1, <2>1 DEF AddSensor, Enter, Steps
    <2>2. CASE CreateSensor(p)
      <3>1. CASE stored' = Append(stored, sid[p]) /\ Goto(p, "attach")
        <4>1. /\ pc' = [pc EXCEPT ![p] = "attach"] /\ sid' = sid /\ pc[p] = "create"
              /\ early' = IF life \in Saga THEN early \cup {sid[p]} ELSE early
              /\ UNCHANGED <<life, listed, attached>>
          BY <2>2, <3>1 DEF CreateSensor, Goto, Saga
        <4>2. sid[p] \in SensorIds /\ sid[p] \notin Known
          BY <4>1, AtWork DEF SensorIdsInv
        <4>3. Elements(stored)' = Elements(stored) \cup {sid[p]}
          BY <1>T, <3>1, <4>2, ElementsFacts
        <4>4. /\ pc'[p] = "attach" /\ early \subseteq early'
              /\ \A q \in Requests : q # p => pc'[q] = pc[q]
          BY <1>T, <4>1
        <4>5. CopyInv'
          <5>1. life' \in Saga => Elements(stored)' \subseteq early'
            BY <4>1, <4>3 DEF CopyInv
          <5>2. ASSUME NEW q \in Requests, pc'[q] = "attach", sid'[q] \notin early'
                PROVE  sid'[q] \notin Elements(attached)'
            BY <4>1, <4>2, <4>4, <5>2 DEF CopyInv, Known
          <5> QED BY <4>1, <4>4, <5>1, <5>2 DEF CopyInv
        <4>6. ASSUME life' = "up", NEW s \in Elements(stored)' \ early' PROVE Served(s)'
          <5>1. CASE s = sid[p]
            <6>1. Copies(s)' = {}
              BY <4>1, <4>2, <5>1 DEF Copies, Elements, Known
            <6> QED BY <4>1, <4>4, <5>1, <6>1 DEF Served
          <5>2. CASE s # sid[p]
            <6>1. Served(s)
              BY <1>S, <4>1, <4>3, <4>4, <4>6, <5>2
            <6>2. Copies(s)' = Copies(s)
              BY <4>1 DEF Copies
            <6>3. \A q \in Requests : pc[q] = "attach" => pc'[q] = "attach" /\ sid'[q] = sid[q]
              BY <4>1, <4>4
            <6> QED BY <4>1, <6>1, <6>2, <6>3 DEF Served
          <5> QED BY <5>1, <5>2
        <4> QED BY <1>G, <4>5, <4>6
      <3>2. CASE Return(p) /\ UNCHANGED <<stored, early>>
        BY <1>1, <2>2, <3>2 DEF CreateSensor, Return, Steps
      <3> QED BY <2>2, <3>1, <3>2 DEF CreateSensor
    <2>3. CASE AttachSensor(p)
      <3>1. /\ pc' = [pc EXCEPT ![p] = "idle"] /\ sid' = [sid EXCEPT ![p] = NoSensor]
            /\ pc[p] = "attach" /\ UNCHANGED <<life, stored, early, listed>>
            /\ IF life = "up" THEN attached' = Append(attached, sid[p]) ELSE attached' = attached
        BY <2>3 DEF AttachSensor, Return
      <3>2. sid[p] \in SensorIds
        BY <3>1, AtWork
      <3>3. /\ pc'[p] = "idle"
            /\ \A q \in Requests : q # p => pc'[q] = pc[q] /\ sid'[q] = sid[q]
            /\ \A q \in Requests : q # p /\ pc[q] = "attach" => sid[q] # sid[p]
        BY <1>T, <3>1 DEF SensorIdsInv, Adding
      <3>4. Elements(attached)' \subseteq Elements(attached) \cup {sid[p]}
        <4>1. attached' = attached \/ attached' = Append(attached, sid[p])
          BY <3>1
        <4>2. Elements(Append(attached, sid[p])) = Elements(attached) \cup {sid[p]}
          BY <1>T, <3>2, ElementsFacts
        <4> QED BY <4>1, <4>2
      <3>5. CopyInv'
        <4>1. ASSUME NEW q \in Requests, pc'[q] = "attach", sid'[q] \notin early'
              PROVE  sid'[q] \notin Elements(attached)'
          <5>1. q # p /\ pc[q] = "attach" /\ sid'[q] = sid[q] /\ sid[q] # sid[p]
            BY <3>3, <4>1
          <5>2. sid[q] \notin Elements(attached)
            BY <3>1, <4>1, <5>1 DEF CopyInv
          <5> QED BY <3>4, <5>1, <5>2
        <4> QED BY <3>1, <4>1 DEF CopyInv
      <3>6. ASSUME life' = "up", NEW s \in Elements(stored)' \ early' PROVE Served(s)'
        <4>1. Served(s) /\ s \in SensorIds /\ s \notin early /\ attached' = Append(attached, sid[p])
          BY <1>S, <1>T, <3>1, <3>6
        <4>2. CASE s = sid[p]
          <5>1. s \notin Elements(attached)
            BY <3>1, <4>1, <4>2 DEF CopyInv
          <5>2. \E i \in 1..Len(attached') : Copies(s)' = {i}
            BY <3>2, <4>1, <4>2, <5>1, CopiesFacts
          <5> QED BY <5>2 DEF Served
        <4>3. CASE s # sid[p]
          <5>1. Copies(s)' = Copies(s) /\ 1..Len(attached) \subseteq 1..Len(attached')
            BY <3>2, <4>1, <4>3, CopiesFacts
          <5>2. \A q \in Requests : pc[q] = "attach" /\ sid[q] = s => pc'[q] = "attach" /\ sid'[q] = s
            BY <3>3, <4>3
          <5> QED BY <4>1, <5>1, <5>2 DEF Served
        <4> QED BY <4>2, <4>3
      <3> QED BY <1>G, <3>5, <3>6
    <2>4. ASSUME NEW s \in SensorIds, DeleteSensor(p, s) \/ InjectSensorOutlier(p, s)
          PROVE  CopyInv' /\ SensorsServed'
      BY <1>1, <2>4 DEF DeleteSensor, InjectSensorOutlier, Enter, Steps
    <2>5. CASE RemoveSensorRow(p)
      <3>1. Elements(stored)' \subseteq Elements(stored)
        BY <1>T, <2>5, ElementsFacts DEF RemoveSensorRow
      <3> QED BY <1>1, <2>5, <3>1 DEF RemoveSensorRow, Return, Steps
    <2>6. CASE FindWorker(p) \/ OfferOutlier(p)
      <3>1. /\ UNCHANGED <<life, stored, early, listed, attached>>
            /\ pc[p] \in {"find", "offer"}
            /\ \/ pc' = [pc EXCEPT ![p] = "idle"] /\ sid' = [sid EXCEPT ![p] = NoSensor]
               \/ pc' = [pc EXCEPT ![p] = "offer"] /\ sid' = sid
        BY <2>6 DEF FindWorker, OfferOutlier, Return, Goto
      <3>2. sid = [sid EXCEPT ![p] = sid[p]]
        BY <1>T
      <3> QED BY <1>1, <3>1, <3>2 DEF Steps
    <2> QED BY <1>3, <2>1, <2>2, <2>3, <2>4, <2>5, <2>6 DEF Request
  <1>4. CASE SagaListSensors
    <2>1. /\ UNCHANGED <<pc, sid, stored, early, attached>> /\ life = "listing"
          /\ \/ listed' = stored /\ life' = "launching"
             \/ listed' = listed /\ life' = "undo"
      BY <1>4 DEF SagaListSensors
    <2>2. CopyInv'
      BY <2>1 DEF CopyInv, Saga
    <2>3. SensorsServed'
      BY <2>1 DEF SensorsServed
    <2> QED BY <2>2, <2>3
  <1>5. CASE StartWorker
    <2>1. /\ UNCHANGED <<pc, sid, stored, early, listed>> /\ attached' = listed
          /\ life = "launching" /\ life' = "registering"
      BY <1>5 DEF StartWorker
    <2>2. CopyInv'
      BY <2>1 DEF CopyInv, Saga
    <2>3. SensorsServed'
      BY <2>1 DEF SensorsServed
    <2> QED BY <2>2, <2>3
  <1>6. CASE DeleteGateway
    <2>1. life' = "gone" /\ UNCHANGED <<pc, sid, early, listed, attached>>
      BY <1>6 DEF DeleteGateway
    <2>2. CopyInv'
      BY <2>1 DEF CopyInv, Saga
    <2>3. SensorsServed'
      BY <2>1 DEF SensorsServed
    <2> QED BY <2>2, <2>3
  <1>7. CASE Register \/ Stop \/ Start \/ RemoveWorker \/ Tick \/ LoopExit \/ UNCHANGED vars
    <2>1. /\ UNCHANGED <<pc, sid, stored, listed, attached, early>>
          /\ life' = life \/ (life = "registering" /\ life' = "up") \/ life' = "removing"
      BY <1>7 DEF Register, Stop, Start, RemoveWorker, Tick, DrainOutlier, DrainEnd, PublishBlocked,
         Publish, LoopExit, vars
    <2> QED BY <1>2, <2>1 DEF Saga
  <1> QED BY <1>3, <1>4, <1>5, <1>6, <1>7 DEF Next, Lifecycle

-----------------------------------------------------------------------------
(* The order of outliers *)

\* The shapes of the variables that OutlierInv relates.
LEMMA OutlierFacts ==
  ASSUME TypeOK
  PROVE  /\ Len(attached) \in Nat /\ Len(override) = Len(attached) /\ Len(outlierCh) \in Nat
         /\ \A i \in 1..Len(attached) : attached[i] \in SensorIds /\ override[i] \in Nat
         /\ \A k \in 1..Len(outlierCh) : outlierCh[k].sensor \in SensorIds /\ outlierCh[k].n \in Nat
         /\ \A s \in SensorIds : NewestOf(s) \in Nat /\ injected[s] \in Nat
  <1>1. Len(attached) \in Nat /\ Len(override) = Len(attached) /\ Len(outlierCh) \in Nat
    BY DEF TypeOK
  <1>2. \A i \in 1..Len(attached) : attached[i] \in SensorIds /\ override[i] \in Nat
    BY DEF TypeOK
  <1>3. \A k \in 1..Len(outlierCh) : outlierCh[k] \in [sensor : SensorIds, n : Nat]
    <2> DEFINE E == [sensor : SensorIds, n : Nat]
    <2>1. outlierCh \in Seq(E)
      BY DEF TypeOK
    <2> HIDE DEF E
    <2>2. \A k \in 1..Len(outlierCh) : outlierCh[k] \in E
      BY <2>1
    <2> QED BY <2>2 DEF E
  <1>4. ASSUME NEW s \in SensorIds PROVE NewestOf(s) \in Nat /\ injected[s] \in Nat
    <2>1. emitted[s] \in Seq(Nat)
      BY DEF TypeOK
    <2> QED BY <2>1 DEF NewestOf, TypeOK
  <1> QED BY <1>1, <1>2, <1>3, <1>4

\* An entry that is new in the worker comes after the others and holds nothing.
LEMMA OutlierAttach ==
  ASSUME TypeOK, OutlierInv, NEW s \in SensorIds,
         attached' = Append(attached, s), override' = Append(override, NoOutlier),
         UNCHANGED <<outlierCh, injected, emitted>>
  PROVE  OutlierInv'
  <1>0. PICK m \in Nat : m = Len(attached) + 1
    BY OutlierFacts
  <1>1. /\ Len(attached) \in Nat /\ Len(attached') = m
        /\ attached'[m] = s /\ override'[m] = NoOutlier
        /\ \A i \in 1..Len(attached) : attached'[i] = attached[i] /\ override'[i] = override[i]
    <2>1. attached \in Seq(SensorIds) /\ override \in Seq(Nat) /\ NoOutlier \in Nat
      BY DEF TypeOK, NoOutlier
    <2>2. /\ Len(attached') = Len(attached) + 1 /\ attached'[Len(attached) + 1] = s
          /\ \A i \in 1..Len(attached) : attached'[i] = attached[i]
      BY <2>1, AppendFacts
    <2>3. /\ override'[Len(override) + 1] = NoOutlier
          /\ \A i \in 1..Len(override) : override'[i] = override[i]
      BY <2>1, AppendFacts
    <2> QED BY <1>0, <2>2, <2>3, OutlierFacts
  <1>2. 1..Len(attached') = 1..Len(attached) \cup {m}
    BY <1>0, <1>1
  <1>3. \A i \in 1..Len(attached) : IsFirst(i)' <=> IsFirst(i)
    <2>1. \A i \in 1..Len(attached) : 1..(i - 1) \subseteq 1..Len(attached)
      BY <1>1
    <2> QED BY <1>1, <2>1 DEF IsFirst
  <1>4. \A t : NewestOf(t)' = NewestOf(t)
    BY DEF NewestOf
  <1>5. FirstsInv'
    <2>1. ASSUME NEW k \in 1..Len(attached)
          PROVE  \E i \in 1..Len(attached) : attached[i] = attached[k] /\ IsFirst(i)
      BY DEF OutlierInv, FirstsInv
    <2>2. ASSUME NEW k \in 1..Len(attached)
          PROVE  \E i \in 1..Len(attached') : attached'[i] = attached[k] /\ IsFirst(i)'
      <3>1. PICK i \in 1..Len(attached) : attached[i] = attached[k] /\ IsFirst(i)
        BY <2>1
      <3>2. attached'[i] = attached[k] /\ IsFirst(i)' /\ i \in 1..Len(attached')
        BY <1>1, <1>2, <1>3, <3>1
      <3> QED BY <3>2
    <2>3. \E i \in 1..Len(attached') : attached'[i] = s /\ IsFirst(i)'
      <3>1. CASE \E k \in 1..Len(attached) : attached[k] = s
        BY <2>2, <3>1
      <3>2. CASE \A k \in 1..Len(attached) : attached[k] # s
        <4>1. IsFirst(m)'
          BY <1>0, <1>1, <3>2 DEF IsFirst
        <4> QED BY <1>1, <1>2, <4>1
      <3> QED BY <3>1, <3>2
    <2>4. ASSUME NEW k \in 1..Len(attached')
          PROVE  \E i \in 1..Len(attached') : attached'[i] = attached'[k] /\ IsFirst(i)'
      <3>1. CASE k = m
        BY <1>1, <2>3, <3>1
      <3>2. CASE k # m
        <4>1. k \in 1..Len(attached) /\ attached'[k] = attached[k]
          BY <1>1, <1>2, <3>2
        <4> QED BY <2>2, <4>1
      <3> QED BY <3>1, <3>2
    <2> QED BY <2>4 DEF FirstsInv
  <1>6. HeldInv'
    BY <1>1, <1>2, <1>3, <1>4 DEF OutlierInv, HeldInv
  <1>7. WaitingInv'
    <2>1. \A k \in 1..Len(outlierCh) : NoOutlier < outlierCh[k].n
      BY OutlierFacts DEF OutlierInv, WaitingInv, NoOutlier
    <2>2. \A k \in 1..Len(outlierCh), i \in 1..Len(attached') :
            attached'[i] = outlierCh[k].sensor => override'[i] < outlierCh[k].n
      BY <1>1, <1>2, <2>1 DEF OutlierInv, WaitingInv
    <2> QED BY <1>4, <2>2 DEF OutlierInv, WaitingInv
  <1>8. EmittedInv'
    BY <1>4 DEF OutlierInv, EmittedInv
  <1> QED BY <1>5, <1>6, <1>7, <1>8 DEF OutlierInv

\* A new worker knows every listed sensor once and holds no outlier.
LEMMA OutlierStart ==
  ASSUME TypeOK, OutlierInv, Distinct(listed),
         attached' = listed, override' = Unset(listed), UNCHANGED <<outlierCh, injected, emitted>>
  PROVE  OutlierInv'
  <1>1. /\ Len(listed) \in Nat
        /\ \A i \in 1..Len(attached') : override'[i] = NoOutlier
    <2>1. listed \in Seq(SensorIds) /\ Len(listed) \in Nat
      BY DEF TypeOK
    <2>2. \A i \in 1..Len(listed) : Unset(listed)[i] = NoOutlier
      BY <2>1, UnsetFacts
    <2> QED BY <2>1, <2>2
  <1>2. \A t : NewestOf(t)' = NewestOf(t)
    BY DEF NewestOf
  <1>3. \A i \in 1..Len(attached') : IsFirst(i)'
    BY <1>1 DEF IsFirst, Distinct
  <1>4. FirstsInv' /\ HeldInv'
    BY <1>1, <1>3 DEF FirstsInv, HeldInv
  <1>5. WaitingInv'
    <2>1. \A k \in 1..Len(outlierCh) : NoOutlier < outlierCh[k].n
      BY OutlierFacts DEF OutlierInv, WaitingInv, NoOutlier
    <2> QED BY <1>1, <1>2, <2>1 DEF OutlierInv, WaitingInv
  <1>6. EmittedInv'
    BY <1>2 DEF OutlierInv, EmittedInv
  <1> QED BY <1>4, <1>5, <1>6 DEF OutlierInv

\* An accepted outlier is newer than all of its sensor's that are under way.
LEMMA OutlierAccept ==
  ASSUME TypeOK, OutlierInv, NEW s \in SensorIds, Accept(s),
         UNCHANGED <<attached, override, emitted>>
  PROVE  /\ OutlierInv'
         /\ \A t \in SensorIds : Outliers(t)!Next \/ UNCHANGED <<injected[t], emitted[t]>>
  <1> DEFINE m == Len(outlierCh) + 1  e == [sensor |-> s, n |-> injected[s] + 1]
  <1>1. outlierCh' = Append(outlierCh, e) /\ injected' = [injected EXCEPT ![s] = injected[s] + 1]
    BY DEF Accept
  <1>2. e \in [sensor : SensorIds, n : Nat]
    BY OutlierFacts
  <1>3. e.sensor = s /\ e.n = injected[s] + 1
    OBVIOUS
  <1> HIDE DEF e
  <1>4. /\ Len(outlierCh) \in Nat /\ Len(outlierCh') = m /\ outlierCh'[m] = e
        /\ \A k \in 1..Len(outlierCh) : outlierCh'[k] = outlierCh[k]
    BY <1>1, <1>2, AppendFacts DEF TypeOK
  <1> HIDE DEF m
  <1>5. /\ 1..Len(outlierCh') = 1..Len(outlierCh) \cup {m}
        /\ \A k \in 1..Len(outlierCh) : k < m /\ ~(m < k)
        /\ ~(m < m)
    BY <1>4 DEF m
  <1>6. /\ injected'[s] = injected[s] + 1 /\ injected[s] \in Nat
        /\ \A t \in SensorIds : t # s => injected'[t] = injected[t]
    BY <1>1 DEF TypeOK
  <1>7. \A t \in SensorIds : injected[t] <= injected'[t] /\ injected[t] \in Nat /\ injected'[t] \in Nat
    <2> TAKE t \in SensorIds
    <2>1. injected[t] \in Nat
      BY DEF TypeOK
    <2>2. injected'[t] = injected[t] \/ injected'[t] = injected[t] + 1
      BY <1>6
    <2> QED BY <2>1, <2>2
  <1>8. (\A t : NewestOf(t)' = NewestOf(t)) /\ (\A i : IsFirst(i)' <=> IsFirst(i))
    BY DEF NewestOf, IsFirst
  <1>9. FirstsInv'
    BY <1>8 DEF OutlierInv, FirstsInv
  <1>10. HeldInv'
    <2>1. \A i \in 1..Len(attached) : override[i] # NoOutlier =>
            /\ IsFirst(i) /\ NewestOf(attached[i]) < override[i]
            /\ override[i] <= injected[attached[i]]
      BY DEF OutlierInv, HeldInv
    <2> QED BY <1>7, <1>8, <2>1, OutlierFacts DEF HeldInv
  <1>11. EmittedInv'
    BY <1>7, <1>8, OutlierFacts DEF OutlierInv, EmittedInv
  <1>12. WaitingInv'
    <2>1. ASSUME NEW k \in 1..Len(outlierCh)
          PROVE  /\ NewestOf(outlierCh[k].sensor) < outlierCh[k].n
                 /\ outlierCh[k].n <= injected'[outlierCh[k].sensor]
                 /\ outlierCh[k].sensor = s => outlierCh[k].n < e.n
      <3>1. /\ NewestOf(outlierCh[k].sensor) < outlierCh[k].n
            /\ outlierCh[k].n <= injected[outlierCh[k].sensor]
        BY DEF OutlierInv, WaitingInv
      <3>2. outlierCh[k].sensor \in SensorIds /\ outlierCh[k].n \in Nat
        BY OutlierFacts
      <3> QED BY <1>3, <1>6, <1>7, <3>1, <3>2
    <2>2. NewestOf(s) < e.n /\ e.n <= injected'[s]
      <3>1. NewestOf(s) <= injected[s] /\ NewestOf(s) \in Nat
        BY OutlierFacts DEF OutlierInv, EmittedInv
      <3> QED BY <1>3, <1>6, <3>1
    <2>3. ASSUME NEW i \in 1..Len(attached), attached[i] = s PROVE override[i] < e.n
      <3>1. override[i] \in Nat /\ (override[i] # NoOutlier => override[i] <= injected[s])
        BY <2>3, OutlierFacts DEF OutlierInv, HeldInv
      <3> QED BY <1>3, <1>6, <3>1 DEF NoOutlier
    <2>4. \A k \in 1..Len(outlierCh'), i \in 1..Len(attached') :
            attached'[i] = outlierCh'[k].sensor => override'[i] < outlierCh'[k].n
      BY <1>3, <1>4, <1>5, <2>3 DEF OutlierInv, WaitingInv
    <2>5. ASSUME NEW k \in 1..Len(outlierCh'), NEW l \in 1..Len(outlierCh'), k < l,
                 outlierCh'[k].sensor = outlierCh'[l].sensor
          PROVE  outlierCh'[k].n < outlierCh'[l].n
      BY <1>3, <1>4, <1>5, <2>1, <2>5 DEF OutlierInv, WaitingInv
    <2>6. \A k \in 1..Len(outlierCh') : /\ NewestOf(outlierCh'[k].sensor) < outlierCh'[k].n
                                        /\ outlierCh'[k].n <= injected'[outlierCh'[k].sensor]
      BY <1>3, <1>4, <1>5, <2>1, <2>2
    <2> QED BY <1>8, <2>4, <2>5, <2>6 DEF WaitingInv
  <1>13. \A t \in SensorIds : Outliers(t)!Next \/ UNCHANGED <<injected[t], emitted[t]>>
    BY <1>6 DEF Outliers!Next, Outliers!Produce
  <1> QED BY <1>9, <1>10, <1>11, <1>12, <1>13 DEF OutlierInv

\* The oldest waiting outlier goes to the first entry of its sensor.
LEMMA OutlierDrain ==
  ASSUME TypeOK, OutlierInv, DrainOutlier
  PROVE  OutlierInv'
  <1> USE DEF outVars
  <1> DEFINE e == outlierCh[1]
  <1>1. /\ outlierCh # <<>> /\ outlierCh' = Tail(outlierCh) /\ e = Head(outlierCh)
        /\ UNCHANGED <<attached, injected, emitted>>
        /\ override' = IF e.sensor \in Elements(attached)
                         THEN [override EXCEPT ![First(e.sensor)] = e.n] ELSE override
    <2>1. Head(outlierCh) = outlierCh[1]
      BY TailFacts DEF TypeOK, DrainOutlier
    <2> QED BY <2>1 DEF DrainOutlier
  <1>2. /\ Len(outlierCh) \in Nat \ {0} /\ Len(outlierCh') = Len(outlierCh) - 1
        /\ \A k \in 1..Len(outlierCh') : outlierCh'[k] = outlierCh[k + 1]
    BY <1>1, TailFacts DEF TypeOK
  <1>3. 1 \in 1..Len(outlierCh) /\ \A k \in 1..Len(outlierCh') : k + 1 \in 1..Len(outlierCh) /\ 1 < k + 1
    BY <1>2
  <1>4. /\ e.sensor \in SensorIds /\ e.n \in Nat
        /\ NewestOf(e.sensor) < e.n /\ e.n <= injected[e.sensor]
        /\ \A k \in 1..Len(outlierCh') : outlierCh'[k].sensor = e.sensor => e.n < outlierCh'[k].n
    BY <1>2, <1>3, OutlierFacts DEF OutlierInv, WaitingInv
  <1> HIDE DEF e
  <1>5. (\A t : NewestOf(t)' = NewestOf(t)) /\ (\A i : IsFirst(i)' <=> IsFirst(i))
    BY <1>1 DEF NewestOf, IsFirst
  <1>6. ASSUME NEW i \in 1..Len(attached)
        PROVE  \/ override'[i] = override[i]
               \/ override'[i] = e.n /\ attached[i] = e.sensor /\ IsFirst(i)
    <2>1. CASE e.sensor \in Elements(attached)
      <3>1. PICK k \in 1..Len(attached) : attached[k] = e.sensor
        BY <2>1 DEF Elements
      <3>2. /\ First(e.sensor) \in 1..Len(attached) /\ attached[First(e.sensor)] = e.sensor
            /\ IsFirst(First(e.sensor))
        BY <3>1, FirstFacts DEF OutlierInv
      <3>3. override \in Seq(Nat) /\ i \in 1..Len(override) /\ First(e.sensor) \in 1..Len(override)
        BY <3>2 DEF TypeOK
      <3>4. override'[i] = IF i = First(e.sensor) THEN e.n ELSE override[i]
        BY <1>1, <1>4, <2>1, <3>3, ExceptFacts
      <3> QED BY <3>2, <3>4
    <2> QED BY <1>1, <2>1
  <1>7. FirstsInv'
    BY <1>1, <1>5 DEF OutlierInv, FirstsInv
  <1>8. EmittedInv'
    BY <1>1, <1>5 DEF OutlierInv, EmittedInv
  <1>9. HeldInv'
    <2>1. ASSUME NEW i \in 1..Len(attached), override'[i] # NoOutlier
          PROVE  /\ IsFirst(i)
                 /\ NewestOf(attached[i]) < override'[i] /\ override'[i] <= injected[attached[i]]
      BY <1>4, <1>6, <2>1 DEF OutlierInv, HeldInv
    <2> QED BY <1>1, <1>5, <2>1 DEF HeldInv
  <1>10. WaitingInv'
    <2>1. ASSUME NEW k \in 1..Len(outlierCh')
          PROVE  /\ NewestOf(outlierCh'[k].sensor) < outlierCh'[k].n
                 /\ outlierCh'[k].n <= injected[outlierCh'[k].sensor]
                 /\ \A i \in 1..Len(attached) :
                      attached[i] = outlierCh'[k].sensor => override'[i] < outlierCh'[k].n
      <3>1. /\ NewestOf(outlierCh'[k].sensor) < outlierCh'[k].n
            /\ outlierCh'[k].n <= injected[outlierCh'[k].sensor]
            /\ \A i \in 1..Len(attached) :
                 attached[i] = outlierCh'[k].sensor => override[i] < outlierCh'[k].n
        BY <1>2, <1>3 DEF OutlierInv, WaitingInv
      <3> QED BY <1>4, <1>6, <3>1
    <2>2. ASSUME NEW k \in 1..Len(outlierCh'), NEW l \in 1..Len(outlierCh'), k < l,
                 outlierCh'[k].sensor = outlierCh'[l].sensor
          PROVE  outlierCh'[k].n < outlierCh'[l].n
      <3>1. k + 1 < l + 1
        BY <1>2, <2>2
      <3> QED BY <1>2, <1>3, <2>2, <3>1 DEF OutlierInv, WaitingInv
    <2> QED BY <1>1, <1>5, <2>1, <2>2 DEF WaitingInv
  <1> QED BY <1>7, <1>8, <1>9, <1>10 DEF OutlierInv

\* Each generator gives its outlier up; the buffer gets it or never will.
LEMMA OutlierPublish ==
  ASSUME TypeOK, OutlierInv, Publish
  PROVE  /\ OutlierInv'
         /\ \A s \in SensorIds : Outliers(s)!Next \/ UNCHANGED <<injected[s], emitted[s]>>
  <1>1. PICK lost \in SUBSET SensorIds : Emit(lost)
    BY DEF Publish
  <1>2. override' = Unset(override) /\ UNCHANGED <<attached, outlierCh, injected>>
    BY DEF Publish
  <1>3. \A i \in 1..Len(attached) : override'[i] = NoOutlier
    <2>1. override \in Seq(Nat) /\ Len(override) = Len(attached)
      BY DEF TypeOK
    <2> QED BY <1>2, <2>1, UnsetFacts
  <1>4. ASSUME NEW s \in SensorIds
        PROVE  \/ emitted'[s] = emitted[s]
               \/ Due(s) # {} /\ emitted'[s] = Append(emitted[s], override[First(s)])
    BY <1>1 DEF Emit
  <1>5. ASSUME NEW s \in SensorIds
        PROVE  \/ emitted'[s] = emitted[s] /\ NewestOf(s)' = NewestOf(s)
               \/ /\ emitted'[s] = Append(emitted[s], override[First(s)])
                  /\ NewestOf(s)' = override[First(s)] /\ override[First(s)] \in Nat
                  /\ NewestOf(s) < override[First(s)] /\ override[First(s)] <= injected[s]
                  /\ First(s) \in 1..Len(attached) /\ attached[First(s)] = s
    <2>1. CASE emitted'[s] = emitted[s]
      BY <2>1 DEF NewestOf
    <2>2. CASE Due(s) # {} /\ emitted'[s] = Append(emitted[s], override[First(s)])
      <3>1. /\ First(s) \in 1..Len(attached) /\ attached[First(s)] = s
            /\ override[First(s)] \in Nat
            /\ NewestOf(s) < override[First(s)] /\ override[First(s)] <= injected[s]
        BY <2>2, DueFacts DEF OutlierInv
      <3>2. emitted[s] \in Seq(Nat)
        BY DEF TypeOK
      <3>3. NewestOf(s)' = override[First(s)]
        <4>1. /\ emitted'[s] # <<>> /\ Len(emitted'[s]) = Len(emitted[s]) + 1
              /\ emitted'[s][Len(emitted[s]) + 1] = override[First(s)]
          BY <2>2, <3>1, <3>2, AppendFacts
        <4> QED BY <4>1 DEF NewestOf
      <3> QED BY <2>2, <3>1, <3>3
    <2> QED BY <1>4, <2>1, <2>2
  <1>6. FirstsInv' /\ HeldInv'
    <2>1. \A i : IsFirst(i)' <=> IsFirst(i)
      BY <1>2 DEF IsFirst
    <2>2. FirstsInv'
      BY <1>2, <2>1 DEF OutlierInv, FirstsInv
    <2>3. HeldInv'
      BY <1>2, <1>3 DEF HeldInv
    <2> QED BY <2>2, <2>3
  <1>7. EmittedInv'
    BY <1>2, <1>5 DEF OutlierInv, EmittedInv
  <1>8. WaitingInv'
    <2>1. ASSUME NEW k \in 1..Len(outlierCh)
          PROVE  /\ NewestOf(outlierCh[k].sensor)' < outlierCh[k].n
                 /\ NoOutlier < outlierCh[k].n
      <3> DEFINE s == outlierCh[k].sensor  n == outlierCh[k].n
      <3>1. s \in SensorIds /\ n \in Nat /\ NewestOf(s) \in Nat
        BY OutlierFacts
      <3>2. /\ NewestOf(s) < n
            /\ \A i \in 1..Len(attached) : attached[i] = s => override[i] < n
        BY DEF OutlierInv, WaitingInv
      <3>3. outlierCh' = outlierCh
        BY <1>2
      <3>4. emitted'[s] = emitted[s] => NewestOf(s)' = NewestOf(s)
        BY <3>3 DEF NewestOf
      <3>5. NewestOf(s)' = NewestOf(s) \/
              (NewestOf(s)' = override[First(s)] /\ override[First(s)] < n)
        BY <1>5, <3>1, <3>2, <3>3
      <3>6. NoOutlier < n
        BY <3>1, <3>2 DEF NoOutlier
      <3> HIDE DEF s, n
      <3>7. NewestOf(s)' < n
        BY <3>2, <3>5
      <3> QED BY <3>6, <3>7 DEF s, n
    <2> QED BY <1>2, <1>3, <2>1 DEF OutlierInv, WaitingInv
  <1>9. ASSUME NEW s \in SensorIds
        PROVE  Outliers(s)!Next \/ UNCHANGED <<injected[s], emitted[s]>>
    <2>1. UNCHANGED injected[s]
      BY <1>2
    <2>2. CASE emitted'[s] = emitted[s]
      BY <2>1, <2>2
    <2>3. CASE /\ emitted'[s] = Append(emitted[s], override[First(s)])
               /\ override[First(s)] \in Nat
               /\ NewestOf(s) < override[First(s)] /\ override[First(s)] <= injected[s]
      <3>1. override[First(s)] \in 1..injected[s]
        BY <2>3, OutlierFacts
      <3>2. Outliers(s)!Newest = NewestOf(s)
        BY DEF Outliers!Newest, NewestOf
      <3>3. Outliers(s)!Store(override[First(s)])
        BY <2>1, <2>3, <3>2 DEF Outliers!Store
      <3> QED BY <3>1, <3>3 DEF Outliers!Next
    <2> QED BY <1>5, <2>2, <2>3
  <1> QED BY <1>6, <1>7, <1>8, <1>9 DEF OutlierInv

\* No step lets an outlier overtake another one of its sensor, or repeats it.
LEMMA OutlierStep ==
  TypeOK /\ SensorIdsInv /\ OutlierInv /\ [Next]_vars
    => /\ OutlierInv'
       /\ \A s \in SensorIds : Outliers(s)!Next \/ UNCHANGED <<injected[s], emitted[s]>>
  <1> SUFFICES ASSUME TypeOK, SensorIdsInv, OutlierInv, [Next]_vars
               PROVE  /\ OutlierInv'
                      /\ \A s \in SensorIds : Outliers(s)!Next \/ UNCHANGED <<injected[s], emitted[s]>>
    OBVIOUS
  <1> USE DEF reqVars, storeVars, sagaVars, workerVars, loopVars, outVars
  <1>1. ASSUME UNCHANGED <<attached, override, outlierCh, injected, emitted>> PROVE OutlierInv'
    <2>1. (\A t : NewestOf(t)' = NewestOf(t)) /\ (\A i : IsFirst(i)' <=> IsFirst(i))
      BY <1>1 DEF NewestOf, IsFirst
    <2>2. FirstsInv' /\ EmittedInv'
      BY <1>1, <2>1 DEF OutlierInv, FirstsInv, EmittedInv
    <2>3. HeldInv' /\ WaitingInv'
      BY <1>1, <2>1 DEF OutlierInv, HeldInv, WaitingInv
    <2> QED BY <2>2, <2>3 DEF OutlierInv
  <1>2. ASSUME NEW p \in Requests, Request(p)
        PROVE  /\ OutlierInv'
               /\ \A s \in SensorIds : Outliers(s)!Next \/ UNCHANGED <<injected[s], emitted[s]>>
    <2>1. CASE OfferOutlier(p) /\ Accept(sid[p])
      <3>1. sid[p] \in SensorIds /\ UNCHANGED <<attached, override, emitted>>
        BY <2>1, AtWork DEF OfferOutlier
      <3> QED BY <2>1, <3>1, OutlierAccept
    <2>2. CASE AttachSensor(p)
      <3>1. /\ sid[p] \in SensorIds /\ UNCHANGED <<outlierCh, injected, emitted>>
            /\ \/ UNCHANGED <<attached, override>>
               \/ /\ attached' = Append(attached, sid[p])
                  /\ override' = Append(override, NoOutlier)
        BY <2>2, AtWork DEF AttachSensor
      <3> QED BY <1>1, <3>1, OutlierAttach
    <2>3. CASE ~AttachSensor(p) /\ ~(OfferOutlier(p) /\ Accept(sid[p]))
      <3>1. UNCHANGED <<attached, override, outlierCh, injected, emitted>>
        BY <1>2, <2>3 DEF Request, AddSensor, CreateSensor, DeleteSensor, InjectSensorOutlier,
           RemoveSensorRow, FindWorker, OfferOutlier
      <3> QED BY <1>1, <3>1
    <2> QED BY <2>1, <2>2, <2>3
  <1>3. CASE StartWorker
    <2>1. /\ attached' = listed /\ override' = Unset(listed)
          /\ UNCHANGED <<outlierCh, injected, emitted>>
      BY <1>3 DEF StartWorker
    <2> QED BY <2>1, OutlierStart DEF SensorIdsInv
  <1>4. CASE DrainOutlier
    <2>1. UNCHANGED <<injected, emitted>>
      BY <1>4 DEF DrainOutlier
    <2> QED BY <1>4, <2>1, OutlierDrain
  <1>5. CASE Publish
    BY <1>5, OutlierPublish
  <1>6. CASE \/ SagaListSensors \/ Register \/ Stop \/ Start \/ RemoveWorker \/ DeleteGateway
             \/ DrainEnd \/ PublishBlocked \/ LoopExit \/ UNCHANGED vars
    <2>1. UNCHANGED <<attached, override, outlierCh, injected, emitted>>
      BY <1>6 DEF SagaListSensors, Register, Stop, Start, RemoveWorker, DeleteGateway, DrainEnd,
         PublishBlocked, LoopExit, vars
    <2> QED BY <1>1, <2>1
  <1> QED BY <1>2, <1>3, <1>4, <1>5, <1>6 DEF Next, Lifecycle, Tick

-----------------------------------------------------------------------------
(* The theorems *)

IInv == TypeOK /\ SensorIdsInv /\ CopyInv /\ SensorsServed /\ OutlierInv /\ NoOrphans

\* A gateway that the saga has just stored, and a restored one.
LEMMA InitIInv == Init => IInv
  <1> SUFFICES ASSUME Init PROVE IInv
    OBVIOUS
  <1>B. MaxSensors \in Nat /\ OutlierCap \in Nat \ {0}
    BY BoundsAssumption
  <1>1. /\ calls \in 0..MaxSensors /\ stored = Numbered(calls) /\ listed = <<>>
        /\ attached \in {<<>>, Numbered(calls)} /\ (life = "up" => attached = Numbered(calls))
        /\ life \in {"listing", "up"} /\ (life = "listing" => calls = 0)
    BY <1>B DEF Init
  <1>2. /\ Numbered(calls) \in Seq(SensorIds) /\ Len(Numbered(calls)) = calls
        /\ \A i \in 1..calls : Numbered(calls)[i] = i
    BY <1>1, NumberedFacts
  <1>3. <<>> \in Seq(SensorIds) /\ Len(<<>>) = 0 /\ <<>> \in Seq(Nat)
        /\ <<>> \in Seq([sensor : SensorIds, n : Nat])
    OBVIOUS
  <1>4. attached \in Seq(SensorIds) /\ Len(attached) \in Nat
        /\ \A i \in 1..Len(attached) : attached[i] = i /\ i <= calls
    BY <1>1, <1>2, <1>3
  <1>5. /\ override \in Seq(Nat) /\ Len(override) = Len(attached)
        /\ \A i \in 1..Len(attached) : override[i] = NoOutlier
    <2>1. override = Unset(attached)
      BY DEF Init
    <2> QED BY <1>4, <2>1, UnsetFacts
  <1>6. /\ \A p \in Requests : pc[p] = "idle" /\ sid[p] = NoSensor
        /\ emitted = [s \in SensorIds |-> <<>>] /\ injected = [s \in SensorIds |-> 0]
        /\ outlierCh = <<>> /\ early = {} /\ gwRow = TRUE
    BY DEF Init
  <1>7. TypeOK
    <2>1. RequestTypes
      BY <1>1 DEF Init, RequestTypes, Steps
    <2>2. StoreTypes
      BY <1>1, <1>2, <1>3 DEF Init, StoreTypes, Lives, LoopStates
    <2>3. WorkerTypes
      BY <1>4, <1>5 DEF WorkerTypes
    <2>4. OutlierTypes
      BY <1>B, <1>3, <1>6 DEF OutlierTypes
    <2> QED BY <2>1, <2>2, <2>3, <2>4, TypeParts
  <1>8. SensorIdsInv
    <2>1. \A s \in Known : s \in Nat /\ s <= calls
      BY <1>1, <1>2, <1>3, <1>4, <1>6 DEF Known, Elements
    <2>2. Distinct(stored) /\ Distinct(listed)
      BY <1>1, <1>2, <1>3 DEF Distinct
    <2>3. NoSensor <= calls
      BY <1>1 DEF NoSensor
    <2> QED BY <1>6, <2>1, <2>2, <2>3 DEF SensorIdsInv, Adding
  <1>9. CopyInv
    <2>1. life \in Saga => Elements(stored) = {}
      BY <1>1, <1>2 DEF Saga, Elements
    <2>2. Elements(listed) = {}
      BY <1>1, <1>3 DEF Elements
    <2> QED BY <1>6, <2>1, <2>2 DEF CopyInv
  <1>10. SensorsServed
    <2>1. ASSUME life = "up", NEW s \in Elements(stored) PROVE s \in 1..Len(attached) /\ Copies(s) = {s}
      BY <1>1, <1>2, <1>4, <2>1 DEF Elements, Copies
    <2> QED BY <2>1 DEF SensorsServed
  <1>11. OutlierInv
    <2>1. \A i \in 1..Len(attached) : IsFirst(i)
      <3>1. \A i \in 1..Len(attached) : \A j \in 1..(i - 1) : j \in 1..Len(attached) /\ j # i
        BY <1>4
      <3> QED BY <1>4, <3>1 DEF IsFirst
    <2>2. FirstsInv /\ HeldInv
      BY <1>5, <2>1 DEF FirstsInv, HeldInv
    <2>3. \A s \in SensorIds : NewestOf(s) = 0
      BY <1>6 DEF NewestOf
    <2>4. EmittedInv /\ WaitingInv
      BY <1>3, <1>6, <2>3 DEF EmittedInv, WaitingInv
    <2> QED BY <2>2, <2>4 DEF OutlierInv
  <1>12. NoOrphans
    BY <1>6 DEF NoOrphans
  <1> QED BY <1>7, <1>8, <1>9, <1>10, <1>11, <1>12 DEF IInv

\* The foreign key keeps the two tables together.
LEMMA OrphanStep == TypeOK /\ NoOrphans /\ [Next]_vars => NoOrphans'
  <1> SUFFICES ASSUME TypeOK, NoOrphans, [Next]_vars PROVE NoOrphans'
    OBVIOUS
  <1> USE DEF reqVars, storeVars, sagaVars, workerVars, loopVars, outVars
  <1>1. ASSUME NEW p \in Requests, RemoveSensorRow(p) PROVE NoOrphans'
    <2>1. gwRow' = gwRow /\ (stored # <<>> \/ stored' = stored)
      BY <1>1 DEF RemoveSensorRow, TypeOK
    <2> QED BY <2>1 DEF NoOrphans
  <1>2. ASSUME NEW p \in Requests, Request(p), ~RemoveSensorRow(p) PROVE NoOrphans'
    BY <1>2 DEF NoOrphans, Request, AddSensor, CreateSensor, AttachSensor, DeleteSensor,
       InjectSensorOutlier, FindWorker, OfferOutlier
  <1>3. CASE Lifecycle
    BY <1>3 DEF NoOrphans, Lifecycle, SagaListSensors, StartWorker, Register, Stop, Start,
       RemoveWorker, DeleteGateway
  <1>4. CASE Tick \/ LoopExit \/ UNCHANGED vars
    BY <1>4 DEF NoOrphans, Tick, DrainOutlier, DrainEnd, PublishBlocked, Publish, LoopExit, vars
  <1> QED BY <1>1, <1>2, <1>3, <1>4 DEF Next

\* Every step preserves the invariant.
LEMMA StepIInv == IInv /\ [Next]_vars => IInv'
  BY TypeStep, IdsStep, CopyStep, OutlierStep, OrphanStep DEF IInv

\* The inductive invariant holds in every reachable state.
THEOREM SensorsInvariant == Spec => []IInv
  BY InitIInv, StepIInv, PTL DEF Spec

\* Types, for any number of requests and sensors: in particular the outlier
\* channel never holds more than its capacity and the two slices of the worker
\* stay of one length.
THEOREM TypeCorrect == Spec => []TypeOK
  <1>1. IInv => TypeOK
    BY DEF IInv
  <1> QED BY SensorsInvariant, <1>1, PTL

\* A sensor row never outlives its gateway's row, wherever AddSensor is overtaken
\* by a removal or a compensation.
THEOREM OrphansNever == Spec => []NoOrphans
  <1>1. IInv => NoOrphans
    BY DEF IInv
  <1> QED BY SensorsInvariant, <1>1, PTL

\* A sensor added to a registered gateway is attached exactly once or is about to
\* be by its own request, whatever other requests and the loop do meanwhile.
THEOREM SensorsAttachedOnce == Spec => []SensorsServed
  <1>1. IInv => SensorsServed
    BY DEF IInv
  <1> QED BY SensorsInvariant, <1>1, PTL

\* For each sensor the emitted outliers implement the lossy stream: a subsequence
\* of the accepted ones, in order and without duplicates, for any channel size.
THEOREM OutliersKept == Spec => OutliersSpec
  <1>1. Init => \A s \in SensorIds : Outliers(s)!Init
    BY DEF Init, Outliers!Init
  <1>2. IInv /\ [Next]_vars =>
          [\A s \in SensorIds :
             Outliers(s)!Next \/ UNCHANGED <<injected[s], emitted[s]>>]_<<injected, emitted>>
    BY OutlierStep DEF IInv
  <1> QED BY <1>1, <1>2, SensorsInvariant, PTL DEF Spec, OutliersSpec
=============================================================================
