------------------------------ MODULE Sensors ------------------------------
(***************************************************************************)
(* The sensors of one gateway: their rows (internal/adapters/sqlite), the  *)
(* copies its worker emits for (internal/app/worker.go) and the requests   *)
(* that add, remove and disturb them (internal/app/registry.go).  The row, *)
(* the map of workers and the worker each know the sensors, and no lock    *)
(* spans two of them: a saga or a removal of the gateway runs in between.  *)
(*                                                                         *)
(* A sensor is the number of its AddSensor call, an outlier the number of  *)
(* its injection into that sensor.  The module starts when the gateway's   *)
(* row exists, inserted by the saga or restored, and ends when it is gone. *)
(* ListSensors changes nothing and is left out.                            *)
(***************************************************************************)
EXTENDS Naturals, Sequences

CONSTANTS
  Requests,    \* goroutines of the HTTP server
  OutlierCap,  \* capacity of outlierCh
  MaxSensors,  \* bound: AddSensor calls, and sensors of a restored gateway
  MaxOutliers  \* bound: outliers accepted for one sensor, and for any two

ASSUME BoundsAssumption ==
  OutlierCap \in Nat \ {0} /\ MaxSensors \in Nat /\ MaxOutliers \in Nat

SensorIds == 1..MaxSensors
NoSensor  == 0
NoOutlier == 0

VARIABLES
  pc, sid,    \* per request: next step and the sensor it works on
  calls,      \* sensor ids given out
  gwRow,      \* the gateway's row exists
  stored,     \* its rows in the sensors table, oldest first
  life,       \* how far the gateway's goroutine is in creating or removing it
  listed,     \* sensors the saga has listed
  attached,   \* w.sensors
  override,   \* outlierOverride of w.generators, index by index
  outlierCh,  \* w.outlierCh
  running,    \* w.isRunning
  loop,       \* where sensorLoop is
  early,      \* observer: sensors stored before the gateway was registered
  injected,   \* observer: outliers accepted, per sensor
  emitted     \* observer: outliers handed to the buffer, per sensor

reqVars    == <<pc, sid>>
storeVars  == <<gwRow, stored>>
sagaVars   == <<life, listed>>
workerVars == <<attached, override>>
loopVars   == <<running, loop>>
outVars    == <<outlierCh, injected, emitted>>
vars == <<reqVars, calls, storeVars, sagaVars, workerVars, loopVars, outVars, early>>

Steps == {"idle", "create", "attach", "remove", "find", "offer"}
Lives == {"listing", "launching", "registering", "up", "undo", "removing", "gone"}
LoopStates == {"ended", "select", "drain", "publish"}

Elements(s)  == {s[i] : i \in 1..Len(s)}
Numbered(n)  == [i \in 1..n |-> i]
Unset(s)     == [i \in 1..Len(s) |-> NoOutlier]
Without(s, i) == SubSeq(s, 1, i - 1) \o SubSeq(s, i + 1, Len(s))

Init ==
  /\ pc = [p \in Requests |-> "idle"]
  /\ sid = [p \in Requests |-> NoSensor]
  /\ gwRow = TRUE
  /\ \/ /\ calls = 0 /\ life = "listing" /\ attached = <<>>
        /\ running = FALSE /\ loop = "ended"
     \/ /\ calls \in 0..MaxSensors /\ life = "up" /\ attached = Numbered(calls)
        /\ running = TRUE /\ loop = "select"
  /\ stored = Numbered(calls)
  /\ listed = <<>>
  /\ override = Unset(attached)
  /\ outlierCh = <<>>
  /\ early = {}
  /\ injected = [s \in SensorIds |-> 0]
  /\ emitted = [s \in SensorIds |-> <<>>]

-----------------------------------------------------------------------------
(* Control of a request *)

Enter(p, s, l) ==
  /\ pc[p] = "idle"
  /\ pc' = [pc EXCEPT ![p] = l]
  /\ sid' = [sid EXCEPT ![p] = s]

Goto(p, l) ==
  /\ pc' = [pc EXCEPT ![p] = l]
  /\ UNCHANGED sid

Return(p) ==
  /\ pc' = [pc EXCEPT ![p] = "idle"]
  /\ sid' = [sid EXCEPT ![p] = NoSensor]

-----------------------------------------------------------------------------
(* AddSensor *)

\* The gateway's row is found; its id is used from here on.
AddSensor(p) ==
  /\ gwRow
  /\ calls < MaxSensors
  /\ calls' = calls + 1
  /\ Enter(p, calls + 1, "create")
  /\ UNCHANGED <<storeVars, sagaVars, workerVars, loopVars, outVars, early>>

\* Faulty variant: the database is opened without foreign_keys.
CreateSensorUnchecked(p) ==
  /\ pc[p] = "create"
  /\ \/ /\ stored' = Append(stored, sid[p])
        /\ early' = IF life \in {"listing", "launching", "registering"}
                      THEN early \cup {sid[p]} ELSE early
        /\ Goto(p, "attach")
     \/ /\ Return(p)
        /\ UNCHANGED <<stored, early>>
  /\ UNCHANGED <<calls, gwRow, sagaVars, workerVars, loopVars, outVars>>

\* store.CreateSensor: the foreign key refuses a gateway deleted meanwhile, and
\* any call may fail.
CreateSensor(p) ==
  /\ pc[p] = "create"
  /\ \/ /\ gwRow
        /\ stored' = Append(stored, sid[p])
        /\ early' = IF life \in {"listing", "launching", "registering"}
                      THEN early \cup {sid[p]} ELSE early
        /\ Goto(p, "attach")
     \/ /\ Return(p)
        /\ UNCHANGED <<stored, early>>
  /\ UNCHANGED <<calls, gwRow, sagaVars, workerVars, loopVars, outVars>>

\* Faulty variant: a worker that is not running gets no sensor.
AttachSensorIfRunning(p) ==
  /\ pc[p] = "attach"
  /\ IF life = "up" /\ running
       THEN /\ attached' = Append(attached, sid[p])
            /\ override' = Append(override, NoOutlier)
       ELSE UNCHANGED workerVars
  /\ Return(p)
  /\ UNCHANGED <<calls, storeVars, sagaVars, loopVars, outVars, early>>

\* Faulty variant: the sensor is kept without its generator.
AttachSensorOnly(p) ==
  /\ pc[p] = "attach"
  /\ attached' = IF life = "up" THEN Append(attached, sid[p]) ELSE attached
  /\ Return(p)
  /\ UNCHANGED <<calls, storeVars, sagaVars, override, loopVars, outVars, early>>

\* The map is locked from the look-up to the end of w.AttachSensor, which takes
\* the lock of the two slices for both of them.
AttachSensor(p) ==
  /\ pc[p] = "attach"
  /\ IF life = "up"
       THEN /\ attached' = Append(attached, sid[p])
            /\ override' = Append(override, NoOutlier)
       ELSE UNCHANGED workerVars
  /\ Return(p)
  /\ UNCHANGED <<calls, storeVars, sagaVars, loopVars, outVars, early>>

-----------------------------------------------------------------------------
(* DeleteSensor and InjectSensorOutlier *)

\* store.GetSensorBySensorID; an unknown sensor is a 404.
DeleteSensor(p, s) ==
  /\ s \in Elements(stored)
  /\ Enter(p, s, "remove")
  /\ UNCHANGED <<calls, storeVars, sagaVars, workerVars, loopVars, outVars, early>>

\* store.DeleteSensor, which may fail or find the sensor deleted already; its id
\* is the primary key.  The worker is not told.
RemoveSensorRow(p) ==
  /\ pc[p] = "remove"
  /\ \/ UNCHANGED stored
     \/ \E i \in 1..Len(stored) :
          /\ stored[i] = sid[p]
          /\ stored' = Without(stored, i)
  /\ Return(p)
  /\ UNCHANGED <<calls, gwRow, sagaVars, workerVars, loopVars, outVars, early>>

InjectSensorOutlier(p, s) ==
  /\ s \in Elements(stored)
  /\ Enter(p, s, "find")
  /\ UNCHANGED <<calls, storeVars, sagaVars, workerVars, loopVars, outVars, early>>

\* The worker of the sensor's gateway is looked up in the map.
FindWorker(p) ==
  /\ pc[p] = "find"
  /\ \/ life = "up" /\ Goto(p, "offer")
     \/ life # "up" /\ Return(p)
  /\ UNCHANGED <<calls, storeVars, sagaVars, workerVars, loopVars, outVars, early>>

Accept(s) ==
  /\ injected[s] < MaxOutliers
  /\ \A t \in SensorIds \ {s} : injected[s] + injected[t] < MaxOutliers
  /\ outlierCh' = Append(outlierCh, [sensor |-> s, n |-> injected[s] + 1])
  /\ injected' = [injected EXCEPT ![s] = @ + 1]

\* A full channel is an error; the worker may have been stopped or removed.
OfferOutlier(p) ==
  /\ pc[p] = "offer"
  /\ \/ Len(outlierCh) < OutlierCap /\ Accept(sid[p])
     \/ Len(outlierCh) = OutlierCap /\ UNCHANGED <<outlierCh, injected>>
  /\ Return(p)
  /\ UNCHANGED <<calls, storeVars, sagaVars, workerVars, loopVars, emitted, early>>

-----------------------------------------------------------------------------
(* The gateway is created, stopped, started and removed *)

\* runProvisioningSaga lists the sensors of its row, or fails and compensates.
SagaListSensors ==
  /\ life = "listing"
  /\ \/ listed' = stored /\ life' = "launching"
     \/ UNCHANGED listed /\ life' = "undo"
  /\ UNCHANGED <<reqVars, calls, storeVars, workerVars, loopVars, outVars, early>>

\* startWorker: a worker with a generator for each listed sensor,
StartWorker ==
  /\ life = "launching"
  /\ life' = "registering"
  /\ attached' = listed
  /\ override' = Unset(listed)
  /\ running' = TRUE
  /\ loop' = "select"
  /\ UNCHANGED <<reqVars, calls, storeVars, listed, outVars, early>>

\* which runs before it is in the map.
Register ==
  /\ life = "registering"
  /\ life' = "up"
  /\ UNCHANGED <<reqVars, calls, storeVars, listed, workerVars, loopVars, outVars, early>>

\* Stop and Start of the registered gateway keep the worker and its sensors.  The
\* loop ends some time after w.Stop has set isRunning.
Stop ==
  /\ life = "up"
  /\ running' = FALSE
  /\ UNCHANGED <<reqVars, calls, storeVars, sagaVars, workerVars, loop, outVars, early>>

\* A Start after a Stop that timed out would add a second loop (WorkerLifecycle).
Start ==
  /\ life = "up"
  /\ ~running /\ loop = "ended"
  /\ running' = TRUE
  /\ loop' = "select"
  /\ UNCHANGED <<reqVars, calls, storeVars, sagaVars, workerVars, outVars, early>>

\* Delete and HandleDecommission take the worker off the map and stop it.
RemoveWorker ==
  /\ life = "up"
  /\ life' = "removing"
  /\ running' = FALSE
  /\ UNCHANGED <<reqVars, calls, storeVars, listed, workerVars, loop, outVars, early>>

\* store.DeleteGateway, at the end of a removal or a compensation: the rows of
\* the sensors go with the gateway's (ON DELETE CASCADE).  It may fail.
DeleteGateway ==
  /\ life \in {"undo", "removing"}
  /\ life' = "gone"
  /\ \/ gwRow' = FALSE /\ stored' = <<>>
     \/ UNCHANGED storeVars
  /\ UNCHANGED <<reqVars, calls, listed, workerVars, loopVars, outVars, early>>

-----------------------------------------------------------------------------
(* sensorLoop *)

\* The select may serve a tick although the context is cancelled.
Ticking == loop \in {"select", "drain"}

\* drainControlChannels passes an outlier to the generator of the first entry
\* for its sensor, over one that is still there.
First(s) == CHOOSE i \in 1..Len(attached) :
              attached[i] = s /\ \A j \in 1..(i - 1) : attached[j] # s

DrainOutlier ==
  /\ Ticking
  /\ outlierCh # <<>>
  /\ LET e == Head(outlierCh)
     IN override' = IF e.sensor \in Elements(attached)
                      THEN [override EXCEPT ![First(e.sensor)] = e.n] ELSE override
  /\ outlierCh' = Tail(outlierCh)
  /\ loop' = "drain"
  /\ UNCHANGED <<reqVars, calls, storeVars, sagaVars, attached, running, injected,
                 emitted, early>>

DrainEnd ==
  /\ Ticking
  /\ outlierCh = <<>>
  /\ loop' = "publish"
  /\ UNCHANGED <<reqVars, calls, storeVars, sagaVars, workerVars, running, outVars, early>>

\* The outliers that the generators return next, by sensor.
Due(s) == {i \in 1..Len(attached) : attached[i] = s /\ override[i] # NoOutlier}
Emit(lost) ==
  emitted' = [s \in SensorIds |->
                IF s \notin lost /\ Due(s) # {} THEN Append(emitted[s], override[First(s)])
                                                ELSE emitted[s]]

\* publishSensorData is blocked by a disconnect or the gateway's status.
PublishBlocked ==
  /\ loop = "publish"
  /\ loop' = "select"
  /\ UNCHANGED <<reqVars, calls, storeVars, sagaVars, workerVars, running, outVars, early>>

\* Faulty variant: a generator keeps its outlier after returning it.
PublishKeepsOverride ==
  /\ loop = "publish"
  /\ loop' = "select"
  /\ \E lost \in SUBSET SensorIds : Emit(lost)
  /\ UNCHANGED <<reqVars, calls, storeVars, sagaVars, workerVars, running, outlierCh,
                 injected, early>>

\* Otherwise every generator's Next is called, which gives up its outlier; the
\* value may be lost on its way to the buffer (encryption, packet loss).
Publish ==
  /\ loop = "publish"
  /\ loop' = "select"
  /\ \E lost \in SUBSET SensorIds : Emit(lost)
  /\ override' = Unset(override)
  /\ UNCHANGED <<reqVars, calls, storeVars, sagaVars, attached, running, outlierCh,
                 injected, early>>

\* The select sees the context that Stop cancelled; a tick is always finished.
LoopExit ==
  /\ loop = "select"
  /\ ~running
  /\ loop' = "ended"
  /\ UNCHANGED <<reqVars, calls, storeVars, sagaVars, workerVars, running, outVars, early>>

-----------------------------------------------------------------------------
Request(p) ==
  \/ AddSensor(p) \/ CreateSensor(p) \/ AttachSensor(p)
  \/ \E s \in SensorIds : DeleteSensor(p, s) \/ InjectSensorOutlier(p, s)
  \/ RemoveSensorRow(p) \/ FindWorker(p) \/ OfferOutlier(p)

Lifecycle ==
  \/ SagaListSensors \/ StartWorker \/ Register
  \/ Stop \/ Start \/ RemoveWorker \/ DeleteGateway

Tick == DrainOutlier \/ DrainEnd \/ PublishBlocked \/ Publish

Next == (\E p \in Requests : Request(p)) \/ Lifecycle \/ Tick \/ LoopExit

Spec == Init /\ [][Next]_vars

-----------------------------------------------------------------------------
(* Properties *)

TypeOK ==
  /\ pc \in [Requests -> Steps] /\ sid \in [Requests -> SensorIds \cup {NoSensor}]
  /\ \A p \in Requests : pc[p] = "idle" <=> sid[p] = NoSensor
  /\ calls \in 0..MaxSensors
  /\ gwRow \in BOOLEAN /\ stored \in Seq(SensorIds)
  /\ life \in Lives /\ listed \in Seq(SensorIds)
  /\ attached \in Seq(SensorIds) /\ override \in Seq(Nat)
  /\ Len(override) = Len(attached)
  /\ running \in BOOLEAN /\ loop \in LoopStates
  /\ outlierCh \in Seq([sensor : SensorIds, n : Nat]) /\ Len(outlierCh) <= OutlierCap
  /\ early \subseteq SensorIds
  /\ injected \in [SensorIds -> Nat]
  /\ emitted \in [SensorIds -> Seq(Nat)]

\* No sensor survives its gateway, although AddSensor stores it under a gateway
\* id that it read before a removal or a compensation deleted the row.
NoOrphans == stored # <<>> => gwRow

Copies(s) == {i \in 1..Len(attached) : attached[i] = s}

\* A sensor added to a registered gateway is attached exactly once, also to a
\* stopped worker.  One added while the saga is under way may be missed or, when
\* the saga lists it and AddSensor attaches it too, attached twice.
SensorsServed ==
  life = "up" =>
    \A s \in Elements(stored) \ early :
      \/ \E i \in 1..Len(attached) : Copies(s) = {i}
      \/ Copies(s) = {} /\ \E p \in Requests : pc[p] = "attach" /\ sid[p] = s

\* README: inject a single out-of-range value.  Each accepted outlier is emitted
\* at most once, in order of acceptance; a later one may replace an earlier one.
Outliers(s)  == INSTANCE LossyStream WITH produced <- injected[s], stream <- emitted[s]
OutliersSpec ==
  /\ \A s \in SensorIds : Outliers(s)!Init
  /\ [][\A s \in SensorIds :
          Outliers(s)!Next \/ UNCHANGED <<injected[s], emitted[s]>>]_<<injected, emitted>>
=============================================================================
