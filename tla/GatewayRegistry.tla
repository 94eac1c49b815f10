-------------------------- MODULE GatewayRegistry --------------------------
(***************************************************************************)
(* The gateway lifecycle (internal/app/registry.go): HTTP requests create, *)
(* start, stop and delete gateways, the decommission listener removes      *)
(* them, RestoreAll brings them back after a restart.  They share the map  *)
(* of workers (guarded by a mutex that is never held across a store or     *)
(* NATS call), the SQLite rows and the worker objects.                     *)
(*                                                                         *)
(* Every critical section, store call, connection attempt and atomic       *)
(* operation of a worker is one step of its goroutine, so requests on the  *)
(* same gateway interleave between any two of them.  A gateway stands for  *)
(* its management id.  A worker object is named by the row id it was built *)
(* for: within one life of the process there is at most one per row.       *)
(***************************************************************************)
EXTENDS Integers, Sequences, FiniteSets

CONSTANTS
  Gateways,      \* management gateway ids the provisioning service hands out
  Requests,      \* goroutines of the HTTP server
  Listener,      \* the callback goroutine of the decommission subscription
  Restorer,      \* the main goroutine, in RestoreAll
  None,          \* no gateway
  RecoveryMode,  \* cfg.RecoveryMode
  MaxId,         \* bound: rows ever inserted
  MaxFaults,     \* bound: store and connection errors
  MaxEvents,     \* bound: decommission events published
  MaxCrashes,    \* bound: ends of the process
  MaxGone        \* bound: clients that are gone at a time

ASSUME NoneAssumption == None \notin Gateways
ASSUME ProcsAssumption == Listener \notin Requests /\ Restorer \notin Requests /\ Listener # Restorer
ASSUME RequestsAssumption == IsFiniteSet(Requests)
ASSUME MaxIdAssumption == MaxId \in Nat
ASSUME RecoveryModeAssumption == RecoveryMode \in BOOLEAN

Procs == Requests \cup {Listener, Restorer}
Ids   == 1..MaxId
NoId  == 0

VARIABLES
  pc, gw, rid,  \* per goroutine: next step, gateway and row id it works on
  gone,         \* requests whose client went away: their context is cancelled
  rows,         \* gateways table: row id -> management id
  status,       \* gateways table: row id -> status column
  nextId,       \* AUTOINCREMENT sequence
  workers,      \* r.workers: management id -> worker, NoId when absent
  running,      \* workers with isRunning
  conn,         \* row ids with an open NATS connection
  pumping,      \* workers whose command pump is alive
  memStatus,    \* w.gateway.Status, the worker's own copy
  gauge,        \* GatewaysRunning
  phase,        \* of the process
  subscription, \* of the decommission listener of this process
  durable,      \* external: JetStream keeps the listener's durable consumer
  todo,         \* rows RestoreAll has listed and not yet handled
  events,       \* external: unacknowledged decommission events, oldest first
  faults, published, crashes,  \* used up of the bounds
  abandoned,    \* history: rows given up after a reported error, in this life
  doomed        \* history: rows that existed when their gateway was decommissioned

procVars   == <<pc, gw, rid, gone>>
storeVars  == <<rows, status, nextId>>
workerVars == <<running, conn, pumping, memStatus>>
envVars    == <<phase, subscription, durable, todo, events, published, crashes>>
histVars   == <<abandoned, doomed>>
vars == <<procVars, storeVars, workers, workerVars, gauge, envVars, faults, histVars>>

Labels == {"idle",
  "insert", "connect", "sensors", "undo", "launch", "register", "online",
  "check", "start", "setOnline", "swap", "close", "setOffline",
  "dswap", "dclose", "dremove", "ack",
  "list", "next", "rsensors", "rconnect"}
Statuses == {"provisioning", "online", "offline"}
Phases   == {"restoring", "up", "stopping", "down"}
Subscriptions == {"starting", "open", "closed"}

Registered == {workers[g] : g \in Gateways} \ {NoId}
Rows       == {id \in Ids : rows[id] # None}

\* NewGatewayRegistry on an empty database; main has started the goroutine that
\* will subscribe, and is about to call RestoreAll.
Init ==
  /\ pc = [p \in Procs |-> IF p = Restorer /\ RecoveryMode THEN "list" ELSE "idle"]
  /\ gw = [p \in Procs |-> None]
  /\ rid = [p \in Procs |-> NoId]
  /\ gone = {}
  /\ rows = [id \in Ids |-> None]
  /\ status = [id \in Ids |-> "provisioning"]
  /\ nextId = 1
  /\ workers = [g \in Gateways |-> NoId]
  /\ running = {} /\ conn = {} /\ pumping = {}
  /\ memStatus = [id \in Ids |-> "provisioning"]
  /\ gauge = 0
  /\ phase = IF RecoveryMode THEN "restoring" ELSE "up"
  /\ subscription = "starting" /\ durable = FALSE
  /\ faults = 0
  /\ todo = {}
  /\ events = <<>>
  /\ published = 0 /\ crashes = 0
  /\ abandoned = {} /\ doomed = {}

-----------------------------------------------------------------------------
(* Control of a goroutine *)

Goto(p, l) ==
  /\ pc' = [pc EXCEPT ![p] = l]
  /\ UNCHANGED <<gw, rid, gone>>

Enter(p, g, id, l) ==
  /\ pc' = [pc EXCEPT ![p] = l]
  /\ gw' = [gw EXCEPT ![p] = g]
  /\ rid' = [rid EXCEPT ![p] = id]
  /\ UNCHANGED gone

\* Where a goroutine goes on when the registry method it called returns.
Caller(p) ==
  IF p = Restorer THEN "next" ELSE IF p = Listener THEN "ack" ELSE "idle"

Return(p) ==
  /\ pc' = [pc EXCEPT ![p] = Caller(p)]
  /\ gw' = [gw EXCEPT ![p] = None]
  /\ rid' = [rid EXCEPT ![p] = NoId]
  /\ gone' = gone \ {p}

\* A store call with a cancelled context always fails; any other one may fail
\* (locked or full database), like a connection attempt, within the bound.
Succeed(p) == p \notin gone /\ UNCHANGED faults

Fail(p) ==
  \/ p \in gone /\ UNCHANGED faults
  \/ p \notin gone /\ faults < MaxFaults /\ faults' = faults + 1

\* store.UpdateStatus: an absent row is reported as not found, which every
\* caller here returns or logs without a further change.
UpdateStatus(p, s) ==
  \/ /\ Succeed(p)
     /\ status' = IF rows[rid[p]] # None THEN [status EXCEPT ![rid[p]] = s] ELSE status
  \/ Fail(p) /\ UNCHANGED status

\* store.DeleteGateway, when it succeeds.
DeleteRow(p) ==
  /\ rows' = [rows EXCEPT ![rid[p]] = None]
  /\ status' = [status EXCEPT ![rid[p]] = "provisioning"]
  /\ UNCHANGED nextId

-----------------------------------------------------------------------------
(* CreateAndStart: runProvisioningSaga *)

\* Onboard succeeded with gateway g; when it fails nothing has happened.  The
\* bound MaxId leaves a row id for every saga under way.
Onboard(p, g) ==
  /\ phase = "up"
  /\ p \in Requests /\ pc[p] = "idle"
  /\ nextId + Cardinality({q \in Requests : pc[q] = "insert"}) <= MaxId
  /\ Enter(p, g, NoId, "insert")
  /\ UNCHANGED <<storeVars, workers, workerVars, gauge, envVars, faults, histVars>>

\* Faulty variant: the table is declared without AUTOINCREMENT, so SQLite reuses
\* the ids of deleted rows.
CreateGatewayReusingIds(p) ==
  /\ pc[p] = "insert"
  /\ \/ /\ Succeed(p)
        /\ nextId <= MaxId
        /\ \A id \in Ids : rows[id] # gw[p]
        /\ LET new == CHOOSE id \in Ids : /\ \A r \in Rows : r < id
                                     /\ (id = 1 \/ id - 1 \in Rows)
           IN /\ rows' = [rows EXCEPT ![new] = gw[p]]
              /\ Enter(p, gw[p], new, "connect")
        /\ nextId' = nextId + 1
     \/ /\ Fail(p) \/ (Succeed(p) /\ \E id \in Ids : rows[id] = gw[p])
        /\ Return(p)
        /\ UNCHANGED <<rows, nextId>>
  /\ UNCHANGED <<status, workers, workerVars, gauge, envVars, histVars>>

\* store.CreateGateway: the id is never reused (AUTOINCREMENT) and the
\* management id is UNIQUE.  An error ends the request: nothing is stored.
CreateGateway(p) ==
  /\ pc[p] = "insert"
  /\ \/ /\ Succeed(p)
        /\ nextId <= MaxId
        /\ \A id \in Ids : rows[id] # gw[p]
        /\ rows' = [rows EXCEPT ![nextId] = gw[p]]
        /\ nextId' = nextId + 1
        /\ Enter(p, gw[p], nextId, "connect")
     \/ /\ Fail(p) \/ (Succeed(p) /\ \E id \in Ids : rows[id] = gw[p])
        /\ Return(p)
        /\ UNCHANGED <<rows, nextId>>
  /\ UNCHANGED <<status, workers, workerVars, gauge, envVars, histVars>>

\* connector.Connect does not look at the context's cancellation.
Connect(p) ==
  /\ pc[p] = "connect"
  /\ \/ /\ conn' = conn \cup {rid[p]}
        /\ Goto(p, "sensors")
        /\ UNCHANGED faults
     \/ /\ faults < MaxFaults /\ faults' = faults + 1
        /\ Goto(p, "undo")
        /\ UNCHANGED conn
  /\ UNCHANGED <<storeVars, workers, running, pumping, memStatus, gauge, envVars, histVars>>

\* Faulty variant: the connection stays open when the saga fails after it.
SagaListSensorsNoClose(p) ==
  /\ pc[p] = "sensors"
  /\ \/ Succeed(p) /\ Goto(p, "launch")
     \/ Fail(p) /\ Goto(p, "undo")
  /\ UNCHANGED <<storeVars, workers, workerVars, gauge, envVars, histVars>>

\* store.ListSensors; on an error compensate closes the subscription and the
\* connection before it deletes the row.
SagaListSensors(p) ==
  /\ pc[p] = "sensors"
  /\ \/ /\ Succeed(p)
        /\ Goto(p, "launch")
        /\ UNCHANGED conn
     \/ /\ Fail(p)
        /\ conn' = conn \ {rid[p]}
        /\ Goto(p, "undo")
  /\ UNCHANGED <<storeVars, workers, running, pumping, memStatus, gauge, envVars, histVars>>

\* Faulty variant: compensate stops after closing the connection.
CompensateNoDelete(p) ==
  /\ pc[p] = "undo"
  /\ Return(p)
  /\ UNCHANGED <<storeVars, workers, workerVars, gauge, envVars, faults, histVars>>

\* Faulty variant: the compensation is tried again until it succeeds.
CompensateRetry(p) ==
  /\ pc[p] = "undo"
  /\ \/ Succeed(p) /\ DeleteRow(p) /\ Return(p)
     \/ Fail(p) /\ UNCHANGED <<procVars, storeVars>>
  /\ UNCHANGED <<workers, workerVars, gauge, envVars, histVars>>

\* compensate deletes the row with the request's own context; an error is only
\* logged.
Compensate(p) ==
  /\ pc[p] = "undo"
  /\ \/ /\ Succeed(p)
        /\ DeleteRow(p)
        /\ UNCHANGED abandoned
     \/ /\ Fail(p)
        /\ abandoned' = abandoned \cup {rid[p]}
        /\ UNCHANGED storeVars
  /\ Return(p)
  /\ UNCHANGED <<workers, workerVars, gauge, envVars, doomed>>

-----------------------------------------------------------------------------
(* startWorker, shared by the saga and by restoreGateway *)

\* NewGatewayWorker, w.Start and the goroutine of the command pump.  The saga
\* passes the gateway with status provisioning, RestoreAll as it was stored.
StartWorker(p) ==
  /\ pc[p] = "launch"
  /\ running' = running \cup {rid[p]}
  /\ pumping' = pumping \cup {rid[p]}
  /\ memStatus' = [memStatus EXCEPT ![rid[p]] =
                     IF p = Restorer THEN status[rid[p]] ELSE "provisioning"]
  /\ Goto(p, "register")
  /\ UNCHANGED <<storeVars, workers, conn, gauge, envVars, faults, histVars>>

Register(p) ==
  /\ pc[p] = "register"
  /\ workers' = [workers EXCEPT ![gw[p]] = rid[p]]
  /\ Goto(p, "online")
  /\ UNCHANGED <<storeVars, workerVars, gauge, envVars, faults, histVars>>

\* Faulty variant: startWorker returns the error of the store before it counts.
CountOnlineIfStored(p) ==
  /\ pc[p] = "online"
  /\ UpdateStatus(p, "online")
  /\ gauge' = IF p \in gone \/ faults' # faults THEN gauge ELSE gauge + 1
  /\ Return(p)
  /\ UNCHANGED <<rows, nextId, workers, workerVars, envVars, histVars>>

\* The gauge and the status column follow; an error of the store is logged.
CountOnline(p) ==
  /\ pc[p] = "online"
  /\ gauge' = gauge + 1
  /\ UpdateStatus(p, "online")
  /\ Return(p)
  /\ UNCHANGED <<rows, nextId, workers, workerVars, envVars, histVars>>

-----------------------------------------------------------------------------
(* Start and Stop of a registered gateway; an unknown one is a 404 *)

StartLookup(p, g) ==
  /\ phase = "up"
  /\ p \in Requests /\ pc[p] = "idle"
  /\ workers[g] # NoId
  /\ Enter(p, g, workers[g], "check")
  /\ UNCHANGED <<storeVars, workers, workerVars, gauge, envVars, faults, histVars>>

StartCheck(p) ==
  /\ pc[p] = "check"
  /\ \/ rid[p] \in running /\ Return(p)
     \/ rid[p] \notin running /\ Goto(p, "start")
  /\ UNCHANGED <<storeVars, workers, workerVars, gauge, envVars, faults, histVars>>

\* w.Start: isRunning.Swap(true) and, when it was false, the two goroutines; the
\* NATS connection and the command pump are not set up again.
WorkerStart(p) ==
  /\ pc[p] = "start"
  /\ running' = running \cup {rid[p]}
  /\ Goto(p, "setOnline")
  /\ UNCHANGED <<storeVars, workers, conn, pumping, memStatus, gauge, envVars, faults, histVars>>

StartUpdateStatus(p) ==
  /\ pc[p] = "setOnline"
  /\ UpdateStatus(p, "online")
  /\ Return(p)
  /\ UNCHANGED <<rows, nextId, workers, workerVars, gauge, envVars, histVars>>

StopLookup(p, g) ==
  /\ phase = "up"
  /\ p \in Requests /\ pc[p] = "idle"
  /\ workers[g] # NoId
  /\ Enter(p, g, workers[g], "swap")
  /\ UNCHANGED <<storeVars, workers, workerVars, gauge, envVars, faults, histVars>>

\* commandPumpCancel, then w.Stop up to isRunning.Swap(false) and w.cancel(); a
\* worker that was not running is left at that.
WorkerStop(p, closing, after) ==
  /\ pumping' = pumping \ {rid[p]}
  /\ running' = running \ {rid[p]}
  /\ Goto(p, IF rid[p] \in running THEN closing ELSE after)
  /\ UNCHANGED <<storeVars, workers, conn, memStatus, gauge, envVars, faults, histVars>>

\* The rest of w.Stop: the sensor loop has returned or the timeout has passed,
\* publisher.Close and closeNC follow, once per worker (publisherClosed).
WorkerClose(p, after) ==
  /\ conn' = conn \ {rid[p]}
  /\ Goto(p, after)
  /\ UNCHANGED <<storeVars, workers, running, pumping, memStatus, gauge, envVars, faults, histVars>>

StopSwap(p)  == pc[p] = "swap" /\ WorkerStop(p, "close", "setOffline")
StopClose(p) == pc[p] = "close" /\ WorkerClose(p, "setOffline")

StopUpdateStatus(p) ==
  /\ pc[p] = "setOffline"
  /\ UpdateStatus(p, "offline")
  /\ Return(p)
  /\ UNCHANGED <<rows, nextId, workers, workerVars, gauge, envVars, histVars>>

-----------------------------------------------------------------------------
(* Delete and HandleDecommission *)

\* Both look the worker up and remove it in one critical section.
RemoveWorker(p, g) ==
  /\ Enter(p, g, workers[g], "dswap")
  /\ workers' = [workers EXCEPT ![g] = NoId]
  /\ UNCHANGED <<storeVars, workerVars, gauge, envVars, faults, histVars>>

\* Faulty variant: the entry is looked up, and left for a later step to remove.
DeleteLookupWithoutRemove(p, g) ==
  /\ phase = "up"
  /\ p \in Requests /\ pc[p] = "idle"
  /\ workers[g] # NoId
  /\ Enter(p, g, workers[g], "dswap")
  /\ UNCHANGED <<storeVars, workers, workerVars, gauge, envVars, faults, histVars>>

\* Faulty variant: the result of the map lookup is not checked.
DeleteLookupUnchecked(p, g) ==
  /\ phase = "up"
  /\ p \in Requests /\ pc[p] = "idle"
  /\ RemoveWorker(p, g)

DeleteLookup(p, g) ==
  /\ phase = "up"
  /\ p \in Requests /\ pc[p] = "idle"
  /\ workers[g] # NoId
  /\ RemoveWorker(p, g)

DeleteSwap(p)  == pc[p] = "dswap" /\ WorkerStop(p, "dclose", "dremove")
DeleteClose(p) == pc[p] = "dclose" /\ WorkerClose(p, "dremove")

\* Faulty variant: the worker goes back into the map when the store fails.
DeleteRemovePutBack(p) ==
  /\ p \in Requests /\ pc[p] = "dremove"
  /\ \/ /\ Succeed(p)
        /\ DeleteRow(p)
        /\ gauge' = gauge - 1
        /\ UNCHANGED workers
     \/ /\ Fail(p)
        /\ workers' = [workers EXCEPT ![gw[p]] = rid[p]]
        /\ UNCHANGED <<storeVars, gauge>>
  /\ Return(p)
  /\ UNCHANGED <<workerVars, envVars, histVars>>

\* Delete: a store error is returned before the gauge is decremented.
DeleteRemove(p) ==
  /\ p \in Requests /\ pc[p] = "dremove"
  /\ \/ /\ Succeed(p)
        /\ DeleteRow(p)
        /\ gauge' = gauge - 1
        /\ UNCHANGED abandoned
     \/ /\ Fail(p)
        /\ abandoned' = abandoned \cup {rid[p]}
        /\ UNCHANGED <<storeVars, gauge>>
  /\ Return(p)
  /\ UNCHANGED <<workers, workerVars, envVars, doomed>>

\* The listener's goroutine subscribes, at any time after the start, or fails,
\* which is only logged; with DeliverNew, a durable consumer that is created now
\* holds no event.  The bound MaxEvents = 0 leaves the listener out.
Subscribe ==
  /\ MaxEvents > 0
  /\ phase # "down" /\ subscription = "starting"
  /\ \/ subscription' = "open" /\ durable' = TRUE /\ UNCHANGED faults
     \/ /\ subscription' = "closed" /\ UNCHANGED durable
        /\ faults < MaxFaults /\ faults' = faults + 1
  /\ UNCHANGED <<procVars, storeVars, workers, workerVars, gauge, phase, todo, events,
                 published, crashes, histVars>>

\* HandleDecommission: the tenant of the event must be the worker's.  An event
\* for an unknown gateway, or of another tenant, is dropped.
ListenerReceive ==
  /\ phase # "down" /\ subscription = "open"
  /\ pc[Listener] = "idle"
  /\ events # <<>>
  /\ LET e == Head(events)
     IN \/ /\ workers[e.gw] # NoId /\ e.sameTenant
           /\ RemoveWorker(Listener, e.gw)
        \/ /\ workers[e.gw] = NoId \/ ~e.sameTenant
           /\ Goto(Listener, "ack")
           /\ UNCHANGED <<storeVars, workers, workerVars, gauge, envVars, faults, histVars>>

\* HandleDecommission logs a store error and decrements the gauge all the same.
ListenerRemove ==
  /\ pc[Listener] = "dremove"
  /\ \/ /\ Succeed(Listener)
        /\ DeleteRow(Listener)
        /\ UNCHANGED abandoned
     \/ /\ Fail(Listener)
        /\ abandoned' = abandoned \cup {rid[Listener]}
        /\ UNCHANGED storeVars
  /\ gauge' = gauge - 1
  /\ Return(Listener)
  /\ UNCHANGED <<workers, workerVars, envVars, doomed>>

\* ctx.Done: the listener drains its subscription.  The client may delete the
\* consumer it has created, and the events that wait there with it.
Drain ==
  /\ phase = "stopping" /\ subscription = "open"
  /\ pc[Listener] = "idle"
  /\ subscription' = "closed"
  /\ durable' \in BOOLEAN
  /\ events' = IF durable' THEN events ELSE <<>>
  /\ UNCHANGED <<procVars, storeVars, workers, workerVars, gauge, phase, todo, published,
                 crashes, faults, histVars>>

\* Faulty variant: the callback does not acknowledge the event.
ListenerNoAck ==
  /\ pc[Listener] = "ack"
  /\ Goto(Listener, "idle")
  /\ UNCHANGED <<storeVars, workers, workerVars, gauge, envVars, faults, histVars>>

\* msg.Ack(), whatever the handler did.
ListenerAck ==
  /\ pc[Listener] = "ack"
  /\ events' = Tail(events)
  /\ Goto(Listener, "idle")
  /\ UNCHANGED <<storeVars, workers, workerVars, gauge, phase, subscription, durable, todo,
                 published, crashes, faults, histVars>>

-----------------------------------------------------------------------------
(* RestoreAll, run by main before the HTTP server starts *)

\* Every row was inserted with Provisioned = true, so none is skipped.
RestoreList ==
  /\ pc[Restorer] = "list"
  /\ \/ /\ Succeed(Restorer)
        /\ todo' = Rows
        /\ UNCHANGED abandoned
     \/ /\ Fail(Restorer)
        /\ abandoned' = Rows
        /\ UNCHANGED todo
  /\ Goto(Restorer, "next")
  /\ UNCHANGED <<storeVars, workers, workerVars, gauge, phase, subscription, durable, events,
                 published, crashes, doomed>>

RestoreNext(id) ==
  /\ pc[Restorer] = "next"
  /\ id \in todo
  /\ todo' = todo \ {id}
  /\ Enter(Restorer, rows[id], id, "rsensors")
  /\ UNCHANGED <<storeVars, workers, workerVars, gauge, phase, subscription, durable, events,
                 published, crashes, faults, histVars>>

\* restoreGateway: an error is logged and the next row is taken.
RestoreListSensors ==
  /\ pc[Restorer] = "rsensors"
  /\ \/ /\ Succeed(Restorer)
        /\ Goto(Restorer, "rconnect")
        /\ UNCHANGED abandoned
     \/ /\ Fail(Restorer)
        /\ abandoned' = abandoned \cup {rid[Restorer]}
        /\ Return(Restorer)
  /\ UNCHANGED <<storeVars, workers, workerVars, gauge, envVars, doomed>>

RestoreConnect ==
  /\ pc[Restorer] = "rconnect"
  /\ \/ /\ Succeed(Restorer)
        /\ conn' = conn \cup {rid[Restorer]}
        /\ Goto(Restorer, "launch")
        /\ UNCHANGED abandoned
     \/ /\ Fail(Restorer)
        /\ abandoned' = abandoned \cup {rid[Restorer]}
        /\ Return(Restorer)
        /\ UNCHANGED conn
  /\ UNCHANGED <<storeVars, workers, running, pumping, memStatus, gauge, envVars, doomed>>

\* RestoreAll returns, whatever failed, and the HTTP server starts.
RestoreDone ==
  /\ pc[Restorer] = "next"
  /\ todo = {}
  /\ Goto(Restorer, "idle")
  /\ phase' = "up"
  /\ UNCHANGED <<storeVars, workers, workerVars, gauge, subscription, durable, todo, events,
                 published, crashes, faults, histVars>>

-----------------------------------------------------------------------------
(* The process and its environment *)

\* The client of a request closes the connection.
ClientLeaves(p) ==
  /\ p \in Requests \ gone
  /\ Cardinality(gone) < MaxGone
  /\ pc[p] # "idle"
  /\ gone' = gone \cup {p}
  /\ UNCHANGED <<pc, gw, rid, storeVars, workers, workerVars, gauge, envVars, faults, histVars>>

\* external: the management service publishes a decommission event; JetStream
\* keeps it for the consumer, when there is one.
Decommission(g, sameTenant) ==
  /\ published < MaxEvents
  /\ published' = published + 1
  /\ events' = IF durable THEN Append(events, [gw |-> g, sameTenant |-> sameTenant])
                          ELSE events
  /\ doomed' = IF durable /\ sameTenant THEN doomed \cup {id \in Ids : rows[id] = g} ELSE doomed
  /\ UNCHANGED <<procVars, storeVars, workers, workerVars, gauge, phase, subscription, durable, todo,
                 crashes, faults, abandoned>>

\* handleShutdown on SIGTERM: the server takes no more requests and, its context
\* being cancelled already, does not wait for those under way; StopAll stops
\* the registered workers.
StopAll ==
  /\ phase = "up"
  /\ phase' = "stopping"
  /\ running' = running \ Registered
  /\ pumping' = pumping \ Registered
  /\ conn' = conn \ (Registered \cap running)
  /\ UNCHANGED <<procVars, storeVars, workers, memStatus, gauge, subscription, durable, todo,
                 events, published, crashes, faults, histVars>>

\* The process ends: after StopAll, or by a crash at any time.  The database, the
\* consumer and its unacknowledged events remain.
Exit ==
  /\ phase # "down"
  /\ crashes < MaxCrashes
  /\ crashes' = crashes + 1
  /\ phase' = "down"
  /\ pc' = [p \in Procs |-> "idle"]
  /\ gw' = [p \in Procs |-> None]
  /\ rid' = [p \in Procs |-> NoId]
  /\ gone' = {}
  /\ workers' = [g \in Gateways |-> NoId]
  /\ running' = {} /\ conn' = {} /\ pumping' = {}
  /\ memStatus' = [id \in Ids |-> "provisioning"]
  /\ gauge' = 0
  /\ subscription' = "closed"
  /\ todo' = {}
  /\ abandoned' = {}
  /\ UNCHANGED <<storeVars, durable, events, published, faults, doomed>>

\* app.Run: the listener's goroutine is started first; RestoreAll only in recovery
\* mode.
Boot ==
  /\ phase = "down"
  /\ phase' = IF RecoveryMode THEN "restoring" ELSE "up"
  /\ subscription' = "starting"
  /\ pc' = [pc EXCEPT ![Restorer] = IF RecoveryMode THEN "list" ELSE "idle"]
  /\ abandoned' = IF RecoveryMode THEN {} ELSE Rows
  /\ UNCHANGED <<gw, rid, gone, storeVars, workers, workerVars, gauge, durable, todo,
                 events, published, crashes, faults, doomed>>

-----------------------------------------------------------------------------
\* What a goroutine does once its method has begun.
Continue(p) ==
  \/ CreateGateway(p) \/ Connect(p) \/ SagaListSensors(p) \/ Compensate(p)
  \/ StartWorker(p) \/ Register(p) \/ CountOnline(p)
  \/ StartCheck(p) \/ WorkerStart(p) \/ StartUpdateStatus(p)
  \/ StopSwap(p) \/ StopClose(p) \/ StopUpdateStatus(p)
  \/ DeleteSwap(p) \/ DeleteClose(p) \/ DeleteRemove(p)

Request(p) == \E g \in Gateways :
  Onboard(p, g) \/ StartLookup(p, g) \/ StopLookup(p, g) \/ DeleteLookup(p, g)

Listen == Subscribe \/ ListenerReceive \/ ListenerRemove \/ ListenerAck

Restore ==
  \/ RestoreList \/ (\E id \in Ids : RestoreNext(id))
  \/ RestoreListSensors \/ RestoreConnect \/ RestoreDone

Environment ==
  \/ \E p \in Requests : ClientLeaves(p)
  \/ \E g \in Gateways, t \in BOOLEAN : Decommission(g, t)
  \/ StopAll \/ Drain \/ Exit \/ Boot

Next ==
  \/ \E p \in Procs : Continue(p)
  \/ \E p \in Requests : Request(p)
  \/ Listen \/ Restore \/ Environment

Spec == Init /\ [][Next]_vars

\* Goroutines are scheduled and their calls return: w.Stop, the store and the
\* connection attempts are bounded by timeouts.  Nobody has to send a request,
\* publish an event, or end or start the process.
FairSpec ==
  /\ Spec
  /\ \A p \in Requests : WF_vars(Continue(p))
  /\ WF_vars(Continue(Listener) \/ Listen)
  /\ WF_vars(Continue(Restorer) \/ Restore)

-----------------------------------------------------------------------------
(* Properties *)

\* Labels at which a goroutine works on no gateway.
Resting == {"idle", "ack", "list", "next"}

ProcTypeOK ==
  /\ pc \in [Procs -> Labels]
  /\ gw \in [Procs -> Gateways \cup {None}]
  /\ rid \in [Procs -> Ids \cup {NoId}]
  /\ \A p \in Procs :
       IF pc[p] \in Resting THEN gw[p] = None /\ rid[p] = NoId
       ELSE gw[p] \in Gateways /\ (rid[p] = NoId <=> pc[p] = "insert")
  /\ gone \subseteq Requests

StoreTypeOK ==
  /\ rows \in [Ids -> Gateways \cup {None}]
  /\ status \in [Ids -> Statuses]
  /\ nextId \in 1..(MaxId + 1)

WorkerTypeOK ==
  /\ workers \in [Gateways -> Ids \cup {NoId}]
  /\ running \subseteq Ids /\ conn \subseteq Ids /\ pumping \subseteq Ids
  /\ memStatus \in [Ids -> Statuses]
  /\ gauge \in Int

EnvTypeOK ==
  /\ phase \in Phases /\ subscription \in Subscriptions /\ durable \in BOOLEAN
  /\ todo \subseteq Ids
  /\ events \in Seq([gw : Gateways, sameTenant : BOOLEAN])
  /\ faults \in Nat /\ published \in Nat /\ crashes \in Nat

HistTypeOK == abandoned \subseteq Ids /\ doomed \subseteq Ids

\* Types; in particular a goroutine past its lookup always has a worker or a row.
TypeOK == ProcTypeOK /\ StoreTypeOK /\ WorkerTypeOK /\ EnvTypeOK /\ HistTypeOK

\* A worker in the registry always has its row, whichever requests, events and
\* compensations race: what the map offers to Start, Stop and the anomaly
\* handlers is a gateway the store knows.
RegisteredHasRow == \A g \in Gateways : workers[g] # NoId => rows[workers[g]] = g

\* A goroutine that kept a worker across its lookup never touches the row of
\* another gateway, even when its own was deleted and others created since.
OwnRowOnly ==
  \A p \in Procs : rid[p] # NoId => rows[rid[p]] \in {gw[p], None}

\* The goroutines that answer for the row they work on: the saga and the restore
\* up to the registration, the removal up to the deletion.
Responsible(p, id) ==
  /\ rid[p] = id
  /\ pc[p] \in {"connect", "sensors", "undo", "launch", "register", "rsensors",
                "rconnect", "dswap", "dclose", "dremove"}

Managed ==
  \A id \in Rows : \/ id \in Registered \cup todo \cup abandoned
                   \/ \E p \in Procs : Responsible(p, id)

\* No row is forgotten: it is registered, RestoreAll has still to take it, some
\* goroutine will register or delete it, or an error was reported for it.
EveryRowManaged == phase = "down" \/ pc[Restorer] = "list" \/ Managed

\* The goroutines that will close a connection that is open.
WillClose(p, id) ==
  /\ rid[p] = id
  /\ pc[p] \in {"sensors", "launch", "register", "close", "dswap", "dclose"}

\* No NATS connection and no command pump outlives its gateway: it belongs to a
\* registered worker, or a goroutine is about to register or to close it.
ConnectionsOwned ==
  \A id \in conn \cup pumping : id \in Registered \/ \E p \in Procs : WillClose(p, id)

\* The gauge never falls short of the workers of the registry, up to the updates
\* under way, whatever Deletes, events, errors and restarts meet.  (It may exceed
\* them: after a Delete that failed in the store it does so until the restart.)
GaugeNeverShort ==
  gauge + Cardinality({p \in Procs : pc[p] = "online"}) >=
    Cardinality(Registered)
      + Cardinality({p \in Procs : pc[p] \in {"dswap", "dclose", "dremove"}})

\* The stage of a row as a client sees it: served while its worker is in the map,
\* retired once a removal has begun or an error was reported for it.
Retiring(id) ==
  \/ id \in abandoned
  \/ \E p \in Procs : rid[p] = id /\ pc[p] \in {"dswap", "dclose", "dremove"}

Stage(id) ==
  IF id >= nextId THEN "new"
  ELSE IF rows[id] = None THEN "removed"
  ELSE IF id \in Registered THEN "served"
  ELSE IF Retiring(id) THEN "retired" ELSE "stored"

Catalog == INSTANCE GatewayCatalog WITH stage <- [id \in Ids |-> Stage(id)], holder <- rows

\* However requests, events, errors, recoveries and restarts interleave, the rows
\* go through the stages of GatewayCatalog: a gateway is served only after its
\* row was stored, a removal is final, and what was retired is not served again
\* before a restart.
CatalogSpec == Catalog!Spec

\* Every lifecycle request returns, and RestoreAll ends so that the HTTP server
\* starts, however often the store fails.
RequestsReturn == \A p \in Requests \cup {Restorer} : pc[p] # "idle" ~> pc[p] = "idle"

\* While the process serves and its subscription is open, decommission events are
\* handled and acknowledged, those that were left over from its last life too.
EventsHandled ==
  subscription = "open" /\ events # <<>>
    ~> events = <<>> \/ phase \notin {"restoring", "up"}

-----------------------------------------------------------------------------
(* Expectations that the README states and that do not hold *)

Quiescent == phase = "up" /\ events = <<>> /\ \A p \in Procs : pc[p] = "idle"

\* README: start means start telemetry emission.  A gateway that runs and is
\* online in the store is not held back by its worker's own status, offline.
RunningIsNotBlocked ==
  Quiescent => \A id \in Registered \cap running :
                 status[id] = "online" => memStatus[id] # "offline"

\* README: a gateway stops when its decommission event is received.
DecommissionStops == Quiescent => doomed \cap running = {}
=============================================================================
