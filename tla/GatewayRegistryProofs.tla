----------------------- MODULE GatewayRegistryProofs -----------------------
(***************************************************************************)
(* Theorems about GatewayRegistry for every set of gateways and requests   *)
(* and every bound on faults, events and crashes.  The invariant is the    *)
(* conjunction IInv of four parts, each with its own step lemma: types     *)
(* (TypeStep), who is at work before the server starts (PhaseStep), whose  *)
(* row each goroutine may touch (OwnStep) and who answers for a connection *)
(* (ConnStep).  On top of it come the balance of the gauge (GaugeStep) and *)
(* the refinement of the catalog (Effects, CatStep, CatalogStep).          *)
(***************************************************************************)
EXTENDS GatewayRegistry, FiniteSetTheorems, TLAPS

-----------------------------------------------------------------------------
(* Lemmas about the control of a goroutine *)

Active == Labels \ (Resting \cup {"insert"})

\* Going on to another step of the same piece of work keeps the control typed.
LEMMA GotoActive ==
  ASSUME ProcTypeOK, NEW p \in Procs, pc[p] \in Active, NEW l \in Active, Goto(p, l)
  PROVE  ProcTypeOK'
  BY DEF ProcTypeOK, Goto, Active

\* So does a step between two pieces of work,
LEMMA GotoResting ==
  ASSUME ProcTypeOK, NEW p \in Procs, pc[p] \in Resting, NEW l \in Resting, Goto(p, l)
  PROVE  ProcTypeOK'
  BY DEF ProcTypeOK, Goto, Resting, Labels

\* beginning one,
LEMMA EnterWork ==
  ASSUME ProcTypeOK, NEW p \in Procs, NEW g \in Gateways, NEW id \in Ids \cup {NoId},
         NEW l \in Labels \ Resting, id = NoId <=> l = "insert", Enter(p, g, id, l)
  PROVE  ProcTypeOK'
  BY DEF ProcTypeOK, Enter

\* and returning to the caller.
LEMMA ReturnRests ==
  ASSUME ProcTypeOK, NEW p \in Procs, Return(p)
  PROVE  ProcTypeOK'
  <1>1. Caller(p) \in Resting /\ Caller(p) \in Labels
    BY DEF Caller, Resting, Labels
  <1> QED BY <1>1 DEF ProcTypeOK, Return

\* A call that succeeds or fails counts its error.
LEMMA FaultsType ==
  ASSUME EnvTypeOK, NEW p \in Procs, Succeed(p) \/ Fail(p)
  PROVE  faults' \in Nat
  BY DEF EnvTypeOK, Succeed, Fail

\* store.UpdateStatus keeps the table typed,
LEMMA UpdateStatusType ==
  ASSUME TypeOK, NEW p \in Procs, NEW s \in Statuses, UpdateStatus(p, s),
         UNCHANGED <<rows, nextId>>
  PROVE  StoreTypeOK' /\ faults' \in Nat
  BY FaultsType DEF TypeOK, StoreTypeOK, UpdateStatus

\* and so does store.DeleteGateway.
LEMMA DeleteRowType ==
  ASSUME StoreTypeOK, NEW p \in Procs, DeleteRow(p)
  PROVE  StoreTypeOK'
  BY DEF StoreTypeOK, DeleteRow, Statuses

\* The oldest decommission event, and what remains when it is acknowledged.
LEMMA HeadTailType ==
  ASSUME NEW S, NEW s \in Seq(S), s # <<>>
  PROVE  Head(s) \in S /\ Tail(s) \in Seq(S)
  OBVIOUS

-----------------------------------------------------------------------------
(* The inductive invariant *)

\* RestoreAll has rows to take only while they exist.
TodoRows == \A id \in todo : rows[id] # None

\* Requests are served after the restore; nothing runs while the process is down.
PhaseInv ==
  /\ phase = "down" => (\A p \in Procs : pc[p] = "idle") /\ (\A g \in Gateways : workers[g] = NoId)
  /\ phase = "restoring" => \A p \in Requests : pc[p] = "idle"
  /\ pc[Restorer] # "idle" => phase = "restoring"
  /\ todo # {} => pc[Restorer] \notin {"idle", "list"}

\* The listener works on the oldest event until it acknowledges it.
AckInv == pc[Listener] # "idle" => events # <<>>

-----------------------------------------------------------------------------
\* No action of any goroutine breaks a type.
LEMMA TypeStep == TypeOK /\ TodoRows /\ PhaseInv /\ AckInv /\ [Next]_vars => TypeOK'
  <1> SUFFICES ASSUME TypeOK, TodoRows, PhaseInv, AckInv, [Next]_vars PROVE TypeOK'
    OBVIOUS
  <1> USE DEF procVars, storeVars, workerVars, envVars, histVars
  <1>T. ProcTypeOK /\ StoreTypeOK /\ WorkerTypeOK /\ EnvTypeOK /\ HistTypeOK
    BY DEF TypeOK
  <1>L. /\ Resting \subseteq Labels /\ "insert" \in Labels \ Resting
        /\ {"swap", "check", "dswap", "rsensors"} \subseteq Active
    BY DEF Resting, Labels, Active
  <1>1. ASSUME NEW p \in Procs, Continue(p) PROVE TypeOK'
    <2>R. pc[p] \in Active => rid[p] \in Ids /\ gw[p] \in Gateways
      BY <1>T DEF ProcTypeOK, Active
    <2>1. CASE CreateGateway(p)
      <3>1. Enter(p, gw[p], nextId, "connect") /\ nextId <= MaxId => ProcTypeOK'
        BY <2>1, <1>T, EnterWork, MaxIdAssumption DEF CreateGateway, ProcTypeOK, StoreTypeOK, Ids, NoId, Labels, Resting
      <3>2. ProcTypeOK'
        BY <2>1, <3>1, <1>T, ReturnRests DEF CreateGateway
      <3>3. StoreTypeOK'
        BY <2>1, <1>T, MaxIdAssumption DEF CreateGateway, StoreTypeOK, ProcTypeOK, Resting, Ids
      <3>4. WorkerTypeOK' /\ EnvTypeOK' /\ HistTypeOK'
        BY <2>1, <1>T, FaultsType DEF CreateGateway, WorkerTypeOK, EnvTypeOK, HistTypeOK
      <3> QED BY <3>2, <3>3, <3>4 DEF TypeOK
    <2>2. CASE Connect(p)
      <3>1. ProcTypeOK'
        BY <2>2, <1>T, GotoActive DEF Connect, Active, Labels, Resting
      <3>2. StoreTypeOK'
        BY <2>2, <1>T DEF Connect, TypeOK, StoreTypeOK
      <3>3. WorkerTypeOK' /\ EnvTypeOK' /\ HistTypeOK'
        BY <2>2, <2>R, <1>T, FaultsType DEF Connect, TypeOK, WorkerTypeOK, EnvTypeOK, HistTypeOK, Active, Labels, Resting, Statuses, StoreTypeOK
      <3> QED BY <3>1, <3>2, <3>3 DEF TypeOK
    <2>3. CASE SagaListSensors(p)
      <3>1. ProcTypeOK'
        BY <2>3, <1>T, GotoActive DEF SagaListSensors, Active, Labels, Resting
      <3>2. StoreTypeOK'
        BY <2>3, <1>T DEF SagaListSensors, TypeOK, StoreTypeOK
      <3>3. WorkerTypeOK' /\ EnvTypeOK' /\ HistTypeOK'
        BY <2>3, <2>R, <1>T, FaultsType DEF SagaListSensors, TypeOK, WorkerTypeOK, EnvTypeOK, HistTypeOK, Active, Labels, Resting, Statuses, StoreTypeOK
      <3> QED BY <3>1, <3>2, <3>3 DEF TypeOK
    <2>4. CASE Compensate(p)
      <3>1. ProcTypeOK'
        BY <2>4, <1>T, ReturnRests DEF Compensate
      <3>2. StoreTypeOK'
        BY <2>4, <1>T, DeleteRowType DEF Compensate, StoreTypeOK
      <3>3. WorkerTypeOK' /\ EnvTypeOK' /\ HistTypeOK'
        BY <2>4, <2>R, <1>T, FaultsType DEF Compensate, TypeOK, WorkerTypeOK, EnvTypeOK, HistTypeOK, Active, Labels, Resting, Statuses, StoreTypeOK
      <3> QED BY <3>1, <3>2, <3>3 DEF TypeOK
    <2>5. CASE StartWorker(p)
      <3>1. ProcTypeOK'
        BY <2>5, <1>T, GotoActive DEF StartWorker, Active, Labels, Resting
      <3>2. StoreTypeOK'
        BY <2>5, <1>T DEF StartWorker, TypeOK, StoreTypeOK
      <3>3. WorkerTypeOK' /\ EnvTypeOK' /\ HistTypeOK'
        BY <2>5, <2>R, <1>T, FaultsType DEF StartWorker, TypeOK, WorkerTypeOK, EnvTypeOK, HistTypeOK, Active, Labels, Resting, Statuses, StoreTypeOK
      <3> QED BY <3>1, <3>2, <3>3 DEF TypeOK
    <2>6. CASE Register(p)
      <3>1. ProcTypeOK'
        BY <2>6, <1>T, GotoActive DEF Register, Active, Labels, Resting
      <3>2. StoreTypeOK'
        BY <2>6, <1>T DEF Register, TypeOK, StoreTypeOK
      <3>3. WorkerTypeOK' /\ EnvTypeOK' /\ HistTypeOK'
        BY <2>6, <2>R, <1>T, FaultsType DEF Register, TypeOK, WorkerTypeOK, EnvTypeOK, HistTypeOK, Active, Labels, Resting, Statuses, StoreTypeOK
      <3> QED BY <3>1, <3>2, <3>3 DEF TypeOK
    <2>7. CASE CountOnline(p)
      <3>1. ProcTypeOK'
        BY <2>7, <1>T, ReturnRests DEF CountOnline
      <3>2. StoreTypeOK'
        BY <2>7, <1>T, UpdateStatusType DEF CountOnline, TypeOK, Statuses
      <3>3. WorkerTypeOK' /\ EnvTypeOK' /\ HistTypeOK'
        BY <2>7, <2>R, <1>T, FaultsType, UpdateStatusType DEF CountOnline, TypeOK, WorkerTypeOK, EnvTypeOK, HistTypeOK, Active, Labels, Resting, Statuses, StoreTypeOK
      <3> QED BY <3>1, <3>2, <3>3 DEF TypeOK
    <2>8. CASE StartCheck(p)
      <3>1. ProcTypeOK'
        BY <2>8, <1>T, GotoActive, ReturnRests DEF StartCheck, Active, Labels, Resting
      <3>2. StoreTypeOK'
        BY <2>8, <1>T DEF StartCheck, TypeOK, StoreTypeOK
      <3>3. WorkerTypeOK' /\ EnvTypeOK' /\ HistTypeOK'
        BY <2>8, <2>R, <1>T, FaultsType DEF StartCheck, TypeOK, WorkerTypeOK, EnvTypeOK, HistTypeOK, Active, Labels, Resting, Statuses, StoreTypeOK
      <3> QED BY <3>1, <3>2, <3>3 DEF TypeOK
    <2>9. CASE WorkerStart(p)
      <3>1. ProcTypeOK'
        BY <2>9, <1>T, GotoActive DEF WorkerStart, Active, Labels, Resting
      <3>2. StoreTypeOK'
        BY <2>9, <1>T DEF WorkerStart, TypeOK, StoreTypeOK
      <3>3. WorkerTypeOK' /\ EnvTypeOK' /\ HistTypeOK'
        BY <2>9, <2>R, <1>T, FaultsType DEF WorkerStart, TypeOK, WorkerTypeOK, EnvTypeOK, HistTypeOK, Active, Labels, Resting, Statuses, StoreTypeOK
      <3> QED BY <3>1, <3>2, <3>3 DEF TypeOK
    <2>10. CASE StartUpdateStatus(p)
      <3>1. ProcTypeOK'
        BY <2>10, <1>T, ReturnRests DEF StartUpdateStatus
      <3>2. StoreTypeOK'
        BY <2>10, <1>T, UpdateStatusType DEF StartUpdateStatus, TypeOK, Statuses
      <3>3. WorkerTypeOK' /\ EnvTypeOK' /\ HistTypeOK'
        BY <2>10, <2>R, <1>T, FaultsType, UpdateStatusType DEF StartUpdateStatus, TypeOK, WorkerTypeOK, EnvTypeOK, HistTypeOK, Active, Labels, Resting, Statuses, StoreTypeOK
      <3> QED BY <3>1, <3>2, <3>3 DEF TypeOK
    <2>11. CASE StopSwap(p)
      <3>1. ProcTypeOK'
        BY <2>11, <1>T, GotoActive DEF StopSwap, WorkerStop, Active, Labels, Resting
      <3>2. StoreTypeOK'
        BY <2>11, <1>T DEF StopSwap, WorkerStop, TypeOK, StoreTypeOK
      <3>3. WorkerTypeOK' /\ EnvTypeOK' /\ HistTypeOK'
        BY <2>11, <2>R, <1>T, FaultsType DEF StopSwap, WorkerStop, TypeOK, WorkerTypeOK, EnvTypeOK, HistTypeOK, Active, Labels, Resting, Statuses, StoreTypeOK
      <3> QED BY <3>1, <3>2, <3>3 DEF TypeOK
    <2>12. CASE StopClose(p)
      <3>1. ProcTypeOK'
        BY <2>12, <1>T, GotoActive DEF StopClose, WorkerClose, Active, Labels, Resting
      <3>2. StoreTypeOK'
        BY <2>12, <1>T DEF StopClose, WorkerClose, TypeOK, StoreTypeOK
      <3>3. WorkerTypeOK' /\ EnvTypeOK' /\ HistTypeOK'
        BY <2>12, <2>R, <1>T, FaultsType DEF StopClose, WorkerClose, TypeOK, WorkerTypeOK, EnvTypeOK, HistTypeOK, Active, Labels, Resting, Statuses, StoreTypeOK
      <3> QED BY <3>1, <3>2, <3>3 DEF TypeOK
    <2>13. CASE StopUpdateStatus(p)
      <3>1. ProcTypeOK'
        BY <2>13, <1>T, ReturnRests DEF StopUpdateStatus
      <3>2. StoreTypeOK'
        BY <2>13, <1>T, UpdateStatusType DEF StopUpdateStatus, TypeOK, Statuses
      <3>3. WorkerTypeOK' /\ EnvTypeOK' /\ HistTypeOK'
        BY <2>13, <2>R, <1>T, FaultsType, UpdateStatusType DEF StopUpdateStatus, TypeOK, WorkerTypeOK, EnvTypeOK, HistTypeOK, Active, Labels, Resting, Statuses, StoreTypeOK
      <3> QED BY <3>1, <3>2, <3>3 DEF TypeOK
    <2>14. CASE DeleteSwap(p)
      <3>1. ProcTypeOK'
        BY <2>14, <1>T, GotoActive DEF DeleteSwap, WorkerStop, Active, Labels, Resting
      <3>2. StoreTypeOK'
        BY <2>14, <1>T DEF DeleteSwap, WorkerStop, TypeOK, StoreTypeOK
      <3>3. WorkerTypeOK' /\ EnvTypeOK' /\ HistTypeOK'
        BY <2>14, <2>R, <1>T, FaultsType DEF DeleteSwap, WorkerStop, TypeOK, WorkerTypeOK, EnvTypeOK, HistTypeOK, Active, Labels, Resting, Statuses, StoreTypeOK
      <3> QED BY <3>1, <3>2, <3>3 DEF TypeOK
    <2>15. CASE DeleteClose(p)
      <3>1. ProcTypeOK'
        BY <2>15, <1>T, GotoActive DEF DeleteClose, WorkerClose, Active, Labels, Resting
      <3>2. StoreTypeOK'
        BY <2>15, <1>T DEF DeleteClose, WorkerClose, TypeOK, StoreTypeOK
      <3>3. WorkerTypeOK' /\ EnvTypeOK' /\ HistTypeOK'
        BY <2>15, <2>R, <1>T, FaultsType DEF DeleteClose, WorkerClose, TypeOK, WorkerTypeOK, EnvTypeOK, HistTypeOK, Active, Labels, Resting, Statuses, StoreTypeOK
      <3> QED BY <3>1, <3>2, <3>3 DEF TypeOK
    <2>16. CASE DeleteRemove(p)
      <3>1. ProcTypeOK'
        BY <2>16, <1>T, ReturnRests DEF DeleteRemove
      <3>2. StoreTypeOK'
        BY <2>16, <1>T, DeleteRowType DEF DeleteRemove, StoreTypeOK
      <3>3. WorkerTypeOK' /\ EnvTypeOK' /\ HistTypeOK'
        BY <2>16, <2>R, <1>T, FaultsType DEF DeleteRemove, TypeOK, WorkerTypeOK, EnvTypeOK, HistTypeOK, Active, Labels, Resting, Statuses, StoreTypeOK
      <3> QED BY <3>1, <3>2, <3>3 DEF TypeOK
    <2> QED BY <1>1, <2>1, <2>2, <2>3, <2>4, <2>5, <2>6, <2>7, <2>8, <2>9, <2>10, <2>11, <2>12, <2>13, <2>14, <2>15, <2>16 DEF Continue
  <1>2. ASSUME NEW p \in Requests, NEW g \in Gateways,
               Onboard(p, g) \/ StartLookup(p, g) \/ StopLookup(p, g) \/ DeleteLookup(p, g)
        PROVE  TypeOK'
    <2>1. p \in Procs /\ workers[g] \in Ids \cup {NoId} /\ NoId \in Ids \cup {NoId}
      BY <1>T DEF Procs, WorkerTypeOK
    <2>2. ProcTypeOK'
      BY <1>2, <2>1, <1>T, <1>L, EnterWork DEF Onboard, StartLookup, StopLookup, DeleteLookup,
         RemoveWorker, Active
    <2> QED
      BY <1>2, <2>2, <1>T DEF Onboard, StartLookup, StopLookup, DeleteLookup,
         RemoveWorker, TypeOK, StoreTypeOK, WorkerTypeOK, EnvTypeOK, HistTypeOK
  <1>3. CASE ListenerReceive
    <2>1. Listener \in Procs /\ Head(events) \in [gw : Gateways, sameTenant : BOOLEAN]
      BY <1>3, <1>T, HeadTailType DEF Procs, ListenerReceive, EnvTypeOK
    <2>2. Head(events).gw \in Gateways /\ workers[Head(events).gw] \in Ids \cup {NoId}
      BY <2>1, <1>T DEF WorkerTypeOK
    <2>3. ProcTypeOK'
      BY <1>3, <2>1, <2>2, <1>T, <1>L, EnterWork, GotoResting DEF ListenerReceive, RemoveWorker,
         Active, Resting
    <2> QED
      BY <1>3, <2>2, <2>3, <1>T DEF ListenerReceive, RemoveWorker, TypeOK, StoreTypeOK,
         WorkerTypeOK, EnvTypeOK, HistTypeOK
  <1>4. CASE ListenerRemove
    <2>1. Listener \in Procs /\ rid[Listener] \in Ids
      BY <1>4, <1>T DEF Procs, ListenerRemove, ProcTypeOK, Resting
    <2>2. ProcTypeOK' /\ StoreTypeOK'
      BY <1>4, <2>1, <1>T, ReturnRests, DeleteRowType DEF ListenerRemove, StoreTypeOK
    <2> QED
      BY <1>4, <2>1, <2>2, <1>T, FaultsType DEF ListenerRemove, TypeOK, WorkerTypeOK,
         EnvTypeOK, HistTypeOK
  <1>5. CASE ListenerAck
    <2>1. Listener \in Procs /\ ProcTypeOK'
      BY <1>5, <1>T, GotoResting DEF Procs, ListenerAck, Resting
    <2>2. events # <<>>
      BY <1>5 DEF AckInv, ListenerAck
    <2>3. EnvTypeOK'
      BY <1>5, <2>2, <1>T, HeadTailType DEF ListenerAck, EnvTypeOK
    <2> QED
      BY <1>5, <2>1, <2>3, <1>T DEF ListenerAck, TypeOK, StoreTypeOK, WorkerTypeOK, HistTypeOK
  <1>6. CASE RestoreList
    <2>1. Restorer \in Procs /\ ProcTypeOK'
      BY <1>6, <1>T, GotoResting DEF Procs, RestoreList, Resting
    <2> QED
      BY <1>6, <2>1, <1>T, FaultsType DEF RestoreList, Rows, TypeOK, StoreTypeOK, WorkerTypeOK,
         EnvTypeOK, HistTypeOK
  <1>7. ASSUME NEW id \in Ids, RestoreNext(id) PROVE TypeOK'
    <2>1. Restorer \in Procs /\ rows[id] \in Gateways /\ id \in Ids \cup {NoId} /\ id # NoId
      BY <1>7, <1>T, MaxIdAssumption DEF Procs, RestoreNext, TodoRows, StoreTypeOK, NoId, Ids
    <2>2. ProcTypeOK'
      BY <1>7, <2>1, <1>T, <1>L, EnterWork DEF RestoreNext, Active, Resting
    <2> QED
      BY <1>7, <2>2, <1>T DEF RestoreNext, TypeOK, StoreTypeOK, WorkerTypeOK, EnvTypeOK, HistTypeOK
  <1>8. CASE RestoreListSensors \/ RestoreConnect
    <2>1. Restorer \in Procs /\ rid[Restorer] \in Ids
      BY <1>8, <1>T DEF Procs, RestoreListSensors, RestoreConnect, ProcTypeOK, Resting
    <2>2. ProcTypeOK'
      BY <1>8, <2>1, <1>T, GotoActive, ReturnRests DEF RestoreListSensors, RestoreConnect,
         Active, Labels, Resting
    <2> QED
      BY <1>8, <2>1, <2>2, <1>T, FaultsType DEF RestoreListSensors, RestoreConnect, TypeOK,
         StoreTypeOK, WorkerTypeOK, EnvTypeOK, HistTypeOK
  <1>9. CASE RestoreDone
    <2>1. ProcTypeOK'
      BY <1>9, <1>T, GotoResting DEF Procs, RestoreDone, Resting
    <2> QED
      BY <1>9, <2>1, <1>T DEF RestoreDone, TypeOK, StoreTypeOK, WorkerTypeOK, EnvTypeOK,
         HistTypeOK, Phases
  <1>10. ASSUME NEW p \in Requests, ClientLeaves(p) PROVE TypeOK'
    BY <1>10, <1>T DEF ClientLeaves, TypeOK, ProcTypeOK, StoreTypeOK, WorkerTypeOK, EnvTypeOK,
       HistTypeOK
  <1>11. ASSUME NEW g \in Gateways, NEW t \in BOOLEAN, Decommission(g, t) PROVE TypeOK'
    <2>1. [gw |-> g, sameTenant |-> t] \in [gw : Gateways, sameTenant : BOOLEAN]
      BY Zenon
    <2>2. events' \in Seq([gw : Gateways, sameTenant : BOOLEAN])
      <3>1. CASE durable
        BY <1>11, <2>1, <3>1, <1>T DEF Decommission, EnvTypeOK
      <3>2. CASE ~durable
        BY <1>11, <3>2, <1>T DEF Decommission, EnvTypeOK
      <3> QED BY <3>1, <3>2
    <2>3. published' \in Nat
      BY <1>11, <1>T DEF Decommission, EnvTypeOK
    <2>4. EnvTypeOK'
      BY <1>11, <2>2, <2>3, <1>T DEF Decommission, EnvTypeOK
    <2> QED
      BY <1>11, <2>4, <1>T DEF Decommission, TypeOK, ProcTypeOK, StoreTypeOK, WorkerTypeOK, HistTypeOK
  <1>12. CASE StopAll
    BY <1>12, <1>T DEF StopAll, TypeOK, ProcTypeOK, StoreTypeOK, WorkerTypeOK, EnvTypeOK,
       HistTypeOK, Phases
  <1>13. CASE Exit
    <2>1. ProcTypeOK'
      BY <1>13 DEF Exit, ProcTypeOK, Labels, Resting
    <2>2. WorkerTypeOK'
      BY <1>13 DEF Exit, WorkerTypeOK, Statuses
    <2>3. subscription' \in Subscriptions /\ durable' \in BOOLEAN
      BY <1>13, <1>T DEF Exit, Subscriptions, EnvTypeOK
    <2>4. EnvTypeOK'
      BY <1>13, <2>3, <1>T DEF Exit, EnvTypeOK, Phases
    <2> QED
      BY <1>13, <2>1, <2>2, <2>4, <1>T DEF Exit, TypeOK, StoreTypeOK, HistTypeOK
  <1>14. CASE Boot
    <2>1. ProcTypeOK'
      BY <1>14, <1>T DEF Boot, PhaseInv, ProcTypeOK, Labels, Resting
    <2>2. subscription' \in Subscriptions
      BY <1>14 DEF Boot, Subscriptions
    <2>4. EnvTypeOK'
      BY <1>14, <2>2, <1>T DEF Boot, EnvTypeOK, Phases
    <2> QED
      BY <1>14, <2>1, <2>4, <1>T DEF Boot, Rows, TypeOK, StoreTypeOK, WorkerTypeOK, HistTypeOK
  <1>15. CASE UNCHANGED vars
    BY <1>15, <1>T DEF vars, TypeOK, ProcTypeOK, StoreTypeOK, WorkerTypeOK, EnvTypeOK, HistTypeOK
  <1>16. CASE Subscribe
    <2>1. subscription' \in Subscriptions /\ durable' \in BOOLEAN
      BY <1>16, <1>T DEF Subscribe, Subscriptions, EnvTypeOK
    <2>3. faults' \in Nat
      BY <1>16, <1>T DEF Subscribe, EnvTypeOK
    <2>2. EnvTypeOK'
      BY <1>16, <2>1, <2>3, <1>T DEF Subscribe, EnvTypeOK
    <2> QED
      BY <1>16, <2>2, <1>T DEF Subscribe, TypeOK, ProcTypeOK, StoreTypeOK, WorkerTypeOK, HistTypeOK
  <1>17. CASE Drain
    <2>1. /\ subscription' \in Subscriptions /\ durable' \in BOOLEAN
          /\ events' \in Seq([gw : Gateways, sameTenant : BOOLEAN])
      BY <1>17, <1>T DEF Drain, Subscriptions, EnvTypeOK
    <2>2. EnvTypeOK'
      BY <1>17, <2>1, <1>T DEF Drain, EnvTypeOK
    <2> QED
      BY <1>17, <2>2, <1>T DEF Drain, TypeOK, ProcTypeOK, StoreTypeOK, WorkerTypeOK, HistTypeOK
  <1> QED
    BY <1>1, <1>2, <1>3, <1>4, <1>5, <1>6, <1>7, <1>8, <1>9, <1>10, <1>11, <1>12, <1>13, <1>14,
       <1>15, <1>16, <1>17 DEF Next, Request, Listen, Restore, Environment

-----------------------------------------------------------------------------
(* Who owns a row.  A row belongs to the map, to the list of RestoreAll or to *)
(* one goroutine, and goroutines keep the id of a row only under its gateway. *)

ResponsibleLabels == {"connect", "sensors", "undo", "launch", "register", "rsensors",
                      "rconnect", "dswap", "dclose", "dremove"}

Fresh ==
  /\ \A id \in Ids : rows[id] # None => id < nextId
  /\ \A p \in Procs : rid[p] < nextId

\* The UNIQUE constraint on management_gateway_id.
UniqueRows == \A i, j \in Ids : rows[i] # None /\ rows[i] = rows[j] => i = j

Exclusive ==
  /\ \A p \in Procs, id \in Ids : Responsible(p, id) =>
       rows[id] = gw[p] /\ id \notin Registered /\ id \notin todo
  /\ \A p, q \in Procs, id \in Ids : Responsible(p, id) /\ Responsible(q, id) => p = q
  /\ \A id \in todo : rows[id] # None /\ id \notin Registered

\* When RestoreAll lists the rows nothing else has happened in this life.
AtList == pc[Restorer] = "list" =>
  /\ \A g \in Gateways : workers[g] = NoId
  /\ \A p \in Procs \ {Restorer} : pc[p] \in {"idle", "ack"}

OwnInv == Fresh /\ UniqueRows /\ RegisteredHasRow /\ OwnRowOnly /\ Exclusive /\ AtList

RowVars == <<rows, nextId, workers, todo>>

\* The worker of a gateway in the map is a registered worker,
LEMMA RegisteredDef ==
  ASSUME NEW id \in Ids
  PROVE  id \in Registered <=> \E g \in Gateways : workers[g] = id
  BY MaxIdAssumption DEF Registered, Ids, NoId

\* also after a step.
LEMMA RegisteredDefPrime ==
  ASSUME NEW id \in Ids
  PROVE  id \in Registered' <=> \E g \in Gateways : workers'[g] = id
  BY MaxIdAssumption DEF Registered, Ids, NoId

\* A step of p that keeps its row, its gateway and its responsibility.
LEMMA OwnGoto ==
  ASSUME TypeOK, OwnInv, NEW p \in Procs, NEW l \in Labels \ {"list"}, Goto(p, l),
         pc[p] \in Active \/ l \in {"idle", "ack"},
         pc[p] \in ResponsibleLabels <=> l \in ResponsibleLabels,
         UNCHANGED RowVars, abandoned \subseteq abandoned'
  PROVE  OwnInv' /\ (Managed => Managed')
  <1>1. Registered' = Registered /\ Rows' = Rows
    BY DEF RowVars, Registered, Rows
  <1>2. \A q \in Procs, id \in Ids : Responsible(q, id)' <=> Responsible(q, id)
    BY DEF Responsible, Goto, ResponsibleLabels, TypeOK, ProcTypeOK
  <1>3. Exclusive'
    BY <1>1, <1>2 DEF OwnInv, Exclusive, RowVars, Goto
  <1>4. AtList'
    BY DEF OwnInv, AtList, RowVars, Goto, TypeOK, ProcTypeOK, Active, Resting, Procs
  <1>5. Fresh' /\ UniqueRows' /\ RegisteredHasRow' /\ OwnRowOnly'
    BY DEF OwnInv, Fresh, UniqueRows, RegisteredHasRow, OwnRowOnly, RowVars, Goto
  <1>6. Managed => Managed'
    BY <1>1, <1>2 DEF Managed, RowVars, Rows
  <1> QED BY <1>3, <1>4, <1>5, <1>6 DEF OwnInv

\* p gives its row up, which is then known as abandoned.
LEMMA OwnReturn ==
  ASSUME TypeOK, OwnInv, NEW p \in Procs, Return(p), UNCHANGED RowVars,
         abandoned \subseteq abandoned',
         pc[p] \in ResponsibleLabels => rid[p] \in abandoned'
  PROVE  OwnInv' /\ (Managed => Managed')
  <1>1. Registered' = Registered /\ Rows' = Rows
    BY DEF RowVars, Registered, Rows
  <1>2. /\ rid'[p] = NoId
        /\ pc'[p] \in (IF p = Restorer THEN {"next"} ELSE {"idle", "ack"})
        /\ \A q \in Procs \ {p} : rid'[q] = rid[q] /\ pc'[q] = pc[q] /\ gw'[q] = gw[q]
    BY DEF Return, Caller, TypeOK, ProcTypeOK
  <1>3. \A q \in Procs, id \in Ids : Responsible(q, id)' <=> (q # p /\ Responsible(q, id))
    BY <1>2 DEF Responsible
  <1>4. Exclusive'
    BY <1>1, <1>2, <1>3 DEF OwnInv, Exclusive, RowVars
  <1>5. AtList'
    BY <1>2 DEF OwnInv, AtList, RowVars, Procs
  <1>6. UniqueRows' /\ RegisteredHasRow' /\ OwnRowOnly'
    BY <1>2 DEF OwnInv, UniqueRows, RegisteredHasRow, OwnRowOnly, RowVars
  <1>7. Fresh'
    BY <1>2 DEF OwnInv, Fresh, RowVars, NoId, TypeOK, StoreTypeOK
  <1>8. Managed => Managed'
    BY <1>1, <1>3 DEF Managed, RowVars, Rows, Responsible, ResponsibleLabels
  <1> QED BY <1>4, <1>5, <1>6, <1>7, <1>8 DEF OwnInv

\* p deletes the row it is responsible for.
LEMMA OwnDelete ==
  ASSUME TypeOK, OwnInv, NEW p \in Procs, pc[p] \in ResponsibleLabels, DeleteRow(p), Return(p),
         UNCHANGED <<workers, todo>>, abandoned \subseteq abandoned'
  PROVE  OwnInv' /\ (Managed => Managed')
  <1>0. /\ rid[p] \in Ids /\ Responsible(p, rid[p]) /\ rid[p] \notin Registered
        /\ rid[p] \notin todo
    BY DEF TypeOK, ProcTypeOK, Resting, ResponsibleLabels, Responsible, OwnInv, Exclusive
  <1>1. /\ Registered' = Registered /\ Rows' = Rows \ {rid[p]}
        /\ rows'[rid[p]] = None /\ nextId' = nextId
        /\ \A id \in Ids \ {rid[p]} : rows'[id] = rows[id]
    BY <1>0 DEF Registered, Rows, DeleteRow, TypeOK, StoreTypeOK
  <1>2. /\ rid'[p] = NoId
        /\ pc'[p] \in (IF p = Restorer THEN {"next"} ELSE {"idle", "ack"})
        /\ \A q \in Procs \ {p} : rid'[q] = rid[q] /\ pc'[q] = pc[q] /\ gw'[q] = gw[q]
    BY DEF Return, Caller, TypeOK, ProcTypeOK
  <1>3. \A q \in Procs, id \in Ids : Responsible(q, id)' <=> (q # p /\ Responsible(q, id))
    BY <1>2 DEF Responsible
  <1>3a. \A q \in Procs, id \in Ids : Responsible(q, id)' => id # rid[p]
    BY <1>0, <1>3 DEF OwnInv, Exclusive
  <1>4. Exclusive'
    BY <1>0, <1>1, <1>2, <1>3, <1>3a DEF OwnInv, Exclusive, TypeOK, EnvTypeOK
  <1>5. AtList'
    BY <1>2 DEF OwnInv, AtList, Procs
  <1>6. UniqueRows' /\ Fresh'
    BY <1>1, <1>2 DEF OwnInv, UniqueRows, Fresh, NoId, TypeOK, StoreTypeOK
  <1>7. RegisteredHasRow'
    BY <1>0, <1>1, RegisteredDef DEF OwnInv, RegisteredHasRow, TypeOK, WorkerTypeOK
  <1>8. OwnRowOnly'
    BY <1>1, <1>2 DEF OwnInv, OwnRowOnly, TypeOK, ProcTypeOK
  <1>9. Managed => Managed'
    BY <1>1, <1>2, <1>3 DEF Managed, Responsible, Rows
  <1> QED BY <1>4, <1>5, <1>6, <1>7, <1>8, <1>9 DEF OwnInv

\* The saga inserts a row under a fresh id.
LEMMA OwnInsert ==
  ASSUME TypeOK, OwnInv, NEW p \in Procs, gw[p] \in Gateways, nextId <= MaxId,
         \A id \in Ids : rows[id] # gw[p], pc[p] = "insert",
         rows' = [rows EXCEPT ![nextId] = gw[p]], nextId' = nextId + 1,
         Enter(p, gw[p], nextId, "connect"),
         UNCHANGED <<workers, todo, abandoned>>
  PROVE  OwnInv' /\ (Managed => Managed')
  <1>0. nextId \in Ids /\ rows[nextId] = None /\ nextId # NoId /\ gw[p] # None
    BY NoneAssumption, MaxIdAssumption DEF TypeOK, StoreTypeOK, OwnInv, Fresh, Ids, NoId
  <1>1. /\ Registered' = Registered /\ Rows' = Rows \cup {nextId}
        /\ rows'[nextId] = gw[p]
        /\ \A id \in Ids \ {nextId} : rows'[id] = rows[id]
    BY <1>0 DEF Registered, Rows, TypeOK, StoreTypeOK
  <1>2. /\ rid'[p] = nextId /\ pc'[p] = "connect" /\ gw'[p] = gw[p]
        /\ \A q \in Procs \ {p} : rid'[q] = rid[q] /\ pc'[q] = pc[q] /\ gw'[q] = gw[q]
        /\ \A q \in Procs : rid[q] # nextId
    BY DEF Enter, TypeOK, ProcTypeOK, StoreTypeOK, OwnInv, Fresh, Ids
  <1>3. \A q \in Procs, id \in Ids :
          Responsible(q, id)' <=> IF q = p THEN id = nextId ELSE Responsible(q, id)
    BY <1>2 DEF Responsible
  <1>3a. nextId \notin Registered /\ nextId \notin todo /\ \A q \in Procs : ~Responsible(q, nextId)
    BY <1>0, <1>2, RegisteredDef, NoneAssumption DEF OwnInv, RegisteredHasRow, Exclusive, Responsible
  <1>4. Exclusive'
    BY <1>0, <1>1, <1>2, <1>3, <1>3a DEF OwnInv, Exclusive, TypeOK, EnvTypeOK
  <1>5. AtList'
    BY <1>2 DEF OwnInv, AtList, Procs
  <1>6. UniqueRows'
    BY <1>0, <1>1 DEF OwnInv, UniqueRows
  <1>7. Fresh'
    BY <1>0, <1>1, <1>2 DEF OwnInv, Fresh, TypeOK, StoreTypeOK, ProcTypeOK, Ids, NoId
  <1>8. RegisteredHasRow'
    BY <1>0, <1>1, <1>3a, RegisteredDef DEF OwnInv, RegisteredHasRow, TypeOK, WorkerTypeOK
  <1>9. OwnRowOnly'
    BY <1>1, <1>2 DEF OwnInv, OwnRowOnly, TypeOK, ProcTypeOK
  <1>10. Managed => Managed'
    <2> SUFFICES ASSUME Managed, NEW id \in Rows'
                 PROVE  id \in (Registered \cup todo \cup abandoned)'
                        \/ \E q \in Procs : Responsible(q, id)'
      BY DEF Managed
    <2>1. CASE id = nextId
      BY <2>1, <1>0, <1>3
    <2>2. CASE id \in Rows
      <3>1. id \in Ids /\ id # nextId
        BY <2>2, <1>0 DEF Rows
      <3> QED BY <2>2, <3>1, <1>1, <1>3, <1>2 DEF Managed, Responsible
    <2> QED BY <2>1, <2>2, <1>1
  <1> QED BY <1>4, <1>5, <1>6, <1>7, <1>8, <1>9, <1>10 DEF OwnInv

\* The worker p has built enters the map; it replaces no other one.
LEMMA OwnRegister ==
  ASSUME TypeOK, OwnInv, NEW p \in Procs, pc[p] = "register", Goto(p, "online"),
         workers' = [workers EXCEPT ![gw[p]] = rid[p]],
         UNCHANGED <<rows, nextId, todo, abandoned>>
  PROVE  /\ OwnInv' /\ (Managed => Managed')
         /\ \A id \in Ids : id \in Registered' <=> id \in Registered \/ id = rid[p]
  <1>0. /\ gw[p] \in Gateways /\ rid[p] \in Ids /\ Responsible(p, rid[p])
        /\ rows[rid[p]] = gw[p] /\ rid[p] \notin Registered /\ rid[p] \notin todo
    BY DEF TypeOK, ProcTypeOK, Resting, Responsible, OwnInv, Exclusive
  <1>1. workers[gw[p]] = NoId
    BY <1>0, RegisteredDef, NoneAssumption DEF OwnInv, RegisteredHasRow, UniqueRows, TypeOK, WorkerTypeOK
  <1>2. \A g \in Gateways : workers'[g] = IF g = gw[p] THEN rid[p] ELSE workers[g]
    BY <1>0 DEF TypeOK, WorkerTypeOK
  <1>3. \A id \in Ids : id \in Registered' <=> id \in Registered \/ id = rid[p]
    BY <1>0, <1>1, <1>2, RegisteredDef, RegisteredDefPrime, MaxIdAssumption DEF Ids, NoId
  <1>4. \A q \in Procs, id \in Ids : Responsible(q, id)' <=> (q # p /\ Responsible(q, id))
    BY DEF Responsible, Goto, TypeOK, ProcTypeOK
  <1>5. \A q \in Procs : Responsible(q, rid[p]) => q = p
    BY <1>0 DEF OwnInv, Exclusive
  <1>6. Exclusive'
    BY <1>0, <1>3, <1>4, <1>5 DEF OwnInv, Exclusive, Goto, TypeOK, EnvTypeOK
  <1>7. AtList'
    BY DEF OwnInv, AtList, Goto, TypeOK, ProcTypeOK, Procs
  <1>8. UniqueRows' /\ Fresh' /\ OwnRowOnly'
    BY DEF OwnInv, UniqueRows, Fresh, OwnRowOnly, Goto
  <1>9. RegisteredHasRow'
    BY <1>0, <1>2 DEF OwnInv, RegisteredHasRow
  <1>10. Managed => Managed'
    <2> SUFFICES ASSUME Managed, NEW id \in Rows
                 PROVE  id \in (Registered \cup todo \cup abandoned)'
                        \/ \E q \in Procs : Responsible(q, id)'
      BY DEF Managed, Rows
    <2>1. id \in Ids
      BY DEF Rows
    <2> QED BY <2>1, <1>3, <1>4 DEF Managed, Responsible
  <1> QED BY <1>3, <1>6, <1>7, <1>8, <1>9, <1>10 DEF OwnInv

\* A request begins, or keeps the id of a worker it found in the map.
LEMMA OwnLookup ==
  ASSUME TypeOK, OwnInv, PhaseInv, NEW p \in Requests, NEW g \in Gateways,
         NEW id \in Ids \cup {NoId}, NEW l \in {"insert", "check", "swap"},
         id = NoId \/ workers[g] = id, pc[p] = "idle", phase = "up",
         Enter(p, g, id, l), UNCHANGED <<RowVars, abandoned>>
  PROVE  OwnInv' /\ (Managed => Managed')
  <1>0. p \in Procs /\ (id # NoId => id \in Ids /\ id \in Registered /\ rows[id] = g)
    BY RegisteredDef DEF Procs, OwnInv, RegisteredHasRow
  <1>1. Registered' = Registered /\ Rows' = Rows
    BY DEF RowVars, Registered, Rows
  <1>2. /\ rid'[p] = id /\ pc'[p] = l /\ gw'[p] = g
        /\ \A q \in Procs \ {p} : rid'[q] = rid[q] /\ pc'[q] = pc[q] /\ gw'[q] = gw[q]
    BY <1>0 DEF Enter, TypeOK, ProcTypeOK
  <1>3. \A q \in Procs, i \in Ids : Responsible(q, i)' <=> Responsible(q, i)
    BY <1>2 DEF Responsible
  <1>3a. \A q \in Procs, i \in Ids : Responsible(q, i) => q # p
    BY DEF Responsible
  <1>4. Exclusive'
    BY <1>0, <1>1, <1>2, <1>3, <1>3a DEF OwnInv, Exclusive, RowVars
  <1>5. AtList'
    BY <1>0, <1>2, ProcsAssumption DEF PhaseInv, AtList, Procs
  <1>6. UniqueRows' /\ RegisteredHasRow'
    BY DEF OwnInv, UniqueRows, RegisteredHasRow, RowVars
  <1>7. Fresh'
    BY <1>0, <1>2, NoneAssumption DEF OwnInv, Fresh, RowVars, NoId, TypeOK, StoreTypeOK
  <1>8. OwnRowOnly'
    BY <1>0, <1>2 DEF OwnInv, OwnRowOnly, RowVars
  <1>9. Managed => Managed'
    BY <1>1, <1>3 DEF Managed, RowVars, Rows
  <1> QED BY <1>4, <1>5, <1>6, <1>7, <1>8, <1>9 DEF OwnInv

\* Delete or HandleDecommission takes a worker out of the map and answers for it.
LEMMA OwnRemove ==
  ASSUME TypeOK, OwnInv, NEW p \in Procs \ {Restorer}, NEW g \in Gateways, workers[g] # NoId,
         pc[p] = "idle", RemoveWorker(p, g)
  PROVE  /\ OwnInv' /\ (Managed => Managed')
         /\ \A id \in Ids : id \in Registered' <=> id \in Registered /\ id # workers[g]
  <1> DEFINE w == workers[g]
  <1>0. /\ w \in Ids /\ w \in Registered /\ rows[w] = g /\ w < nextId
        /\ w \notin todo /\ \A q \in Procs : ~Responsible(q, w)
    BY RegisteredDef, NoneAssumption
       DEF TypeOK, WorkerTypeOK, OwnInv, RegisteredHasRow, Fresh, Exclusive
  <1>1. \A h \in Gateways : workers'[h] = IF h = g THEN NoId ELSE workers[h]
    BY DEF RemoveWorker, TypeOK, WorkerTypeOK
  <1>2. /\ rid'[p] = w /\ pc'[p] = "dswap" /\ gw'[p] = g
        /\ \A q \in Procs \ {p} : rid'[q] = rid[q] /\ pc'[q] = pc[q] /\ gw'[q] = gw[q]
    BY DEF RemoveWorker, Enter, TypeOK, ProcTypeOK
  <1>3. UNCHANGED <<rows, nextId, todo, abandoned>>
    BY DEF RemoveWorker, storeVars, envVars, histVars
  <1>4. \A h \in Gateways : workers[h] = w => h = g
    BY <1>0, MaxIdAssumption DEF OwnInv, RegisteredHasRow, Ids, NoId
  <1>5. \A id \in Ids : id \in Registered' <=> id \in Registered /\ id # w
    BY <1>1, <1>4, RegisteredDef, RegisteredDefPrime, MaxIdAssumption DEF Ids, NoId
  <1>6. \A q \in Procs, id \in Ids :
          Responsible(q, id)' <=> IF q = p THEN id = w ELSE Responsible(q, id)
    BY <1>2 DEF Responsible
  <1>7. Exclusive'
    BY <1>0, <1>2, <1>3, <1>5, <1>6 DEF OwnInv, Exclusive, TypeOK, EnvTypeOK
  <1>8. AtList'
    BY <1>2 DEF OwnInv, AtList, Procs
  <1>9. UniqueRows' /\ Fresh'
    BY <1>0, <1>2, <1>3 DEF OwnInv, UniqueRows, Fresh
  <1>10. RegisteredHasRow' /\ OwnRowOnly'
    BY <1>0, <1>1, <1>2, <1>3 DEF OwnInv, RegisteredHasRow, OwnRowOnly
  <1>11. Managed => Managed'
    <2> SUFFICES ASSUME Managed, NEW id \in Rows
                 PROVE  id \in (Registered \cup todo \cup abandoned)'
                        \/ \E q \in Procs : Responsible(q, id)'
      BY <1>3 DEF Managed, Rows
    <2>1. id \in Ids
      BY DEF Rows
    <2> QED BY <2>1, <1>3, <1>5, <1>6, <1>2 DEF Managed, Responsible
  <1> QED BY <1>5, <1>7, <1>8, <1>9, <1>10, <1>11 DEF OwnInv

\* RestoreAll has listed the rows: all of them are now its task.
LEMMA OwnList ==
  ASSUME TypeOK, OwnInv, PhaseInv, RestoreList
  PROVE  OwnInv' /\ Managed'
  <1>0. /\ \A g \in Gateways : workers[g] = NoId
        /\ \A q \in Procs, id \in Ids : ~Responsible(q, id)
        /\ todo = {}
    BY DEF RestoreList, OwnInv, AtList, PhaseInv, Responsible, Procs
  <1>1. /\ \A g \in Gateways : workers'[g] = NoId
        /\ \A q \in Procs, id \in Ids : ~Responsible(q, id)'
        /\ rows' = rows /\ nextId' = nextId /\ rid' = rid /\ gw' = gw /\ workers' = workers
        /\ pc' = [pc EXCEPT ![Restorer] = "next"]
    BY <1>0 DEF RestoreList, storeVars, Goto, Responsible, TypeOK, ProcTypeOK, Procs
  <1>2. Registered' = {} /\ Rows' = Rows /\ Rows \subseteq Ids
    BY <1>1 DEF Registered, Rows
  <1>3. todo' \subseteq Rows /\ Rows \subseteq todo' \cup abandoned'
    BY <1>0 DEF RestoreList
  <1>4. Exclusive'
    BY <1>1, <1>2, <1>3 DEF Exclusive, Rows
  <1>5. AtList'
    BY <1>1 DEF AtList, TypeOK, ProcTypeOK, Procs
  <1>6. UniqueRows' /\ Fresh' /\ RegisteredHasRow' /\ OwnRowOnly'
    BY <1>1 DEF OwnInv, UniqueRows, Fresh, RegisteredHasRow, OwnRowOnly
  <1>7. Managed'
    BY <1>2, <1>3 DEF Managed
  <1> QED BY <1>4, <1>5, <1>6, <1>7 DEF OwnInv

\* RestoreAll takes the next row over from its list.
LEMMA OwnNext ==
  ASSUME TypeOK, OwnInv, NEW id \in Ids, RestoreNext(id)
  PROVE  OwnInv' /\ (Managed => Managed')
  <1>0. /\ Restorer \in Procs /\ id \in todo /\ rows[id] # None /\ id \notin Registered
        /\ id < nextId /\ \A q \in Procs : ~Responsible(q, id)
    BY DEF Procs, RestoreNext, OwnInv, Exclusive, Fresh
  <1>1. /\ Registered' = Registered /\ Rows' = Rows /\ rows' = rows /\ nextId' = nextId
        /\ workers' = workers /\ todo' = todo \ {id} /\ abandoned' = abandoned
    BY DEF RestoreNext, storeVars, histVars, Registered, Rows
  <1>2. /\ rid'[Restorer] = id /\ pc'[Restorer] = "rsensors" /\ gw'[Restorer] = rows[id]
        /\ \A q \in Procs \ {Restorer} : rid'[q] = rid[q] /\ pc'[q] = pc[q] /\ gw'[q] = gw[q]
    BY <1>0 DEF RestoreNext, Enter, TypeOK, ProcTypeOK
  <1>3. \A q \in Procs, i \in Ids :
          Responsible(q, i)' <=> IF q = Restorer THEN i = id ELSE Responsible(q, i)
    BY <1>2 DEF Responsible
  <1>4. Exclusive'
    BY <1>0, <1>1, <1>2, <1>3 DEF OwnInv, Exclusive
  <1>5. AtList'
    BY <1>2 DEF AtList
  <1>6. UniqueRows' /\ RegisteredHasRow'
    BY <1>1 DEF OwnInv, UniqueRows, RegisteredHasRow
  <1>7. Fresh' /\ OwnRowOnly'
    BY <1>0, <1>1, <1>2 DEF OwnInv, Fresh, OwnRowOnly
  <1>8. Managed => Managed'
    <2> SUFFICES ASSUME Managed, NEW i \in Rows
                 PROVE  i \in (Registered \cup todo \cup abandoned)'
                        \/ \E q \in Procs : Responsible(q, i)'
      BY <1>1 DEF Managed
    <2>1. i \in Ids /\ ~Responsible(Restorer, i)
      BY DEF Rows, RestoreNext, Responsible
    <2> QED BY <2>1, <1>0, <1>1, <1>3 DEF Managed
  <1> QED BY <1>4, <1>5, <1>6, <1>7, <1>8 DEF OwnInv

\* Nobody owns anything after the end of the process; the table is as it was.
LEMMA OwnExit ==
  ASSUME TypeOK, OwnInv, Exit
  PROVE  OwnInv'
  <1>1. /\ \A g \in Gateways : workers'[g] = NoId
        /\ \A q \in Procs : rid'[q] = NoId /\ pc'[q] = "idle"
        /\ rows' = rows /\ nextId' = nextId /\ todo' = {}
    BY DEF Exit, storeVars
  <1>2. \A q \in Procs, id \in Ids : ~Responsible(q, id)'
    BY <1>1 DEF Responsible
  <1> QED
    BY <1>1, <1>2 DEF OwnInv, Fresh, UniqueRows, RegisteredHasRow, OwnRowOnly, Exclusive, AtList,
       TypeOK, StoreTypeOK, NoId, Procs

-----------------------------------------------------------------------------
\* Whatever a goroutine does after its lookup, it stays on its way or returns.
LEMMA ContinueEffect ==
  ASSUME TypeOK, NEW p \in Procs, Continue(p)
  PROVE  /\ pc[p] \in Active \cup {"insert"}
         /\ UNCHANGED <<phase, todo, events>>
         /\ abandoned \subseteq abandoned'
         /\ \E x \in Active \cup {Caller(p)} : pc' = [pc EXCEPT ![p] = x]
  <1> USE DEF envVars, histVars, Active, Labels, Resting
  <1>1. CASE CreateGateway(p) \/ Compensate(p) \/ CountOnline(p) \/ StartUpdateStatus(p)
             \/ StopUpdateStatus(p) \/ DeleteRemove(p)
    BY <1>1 DEF CreateGateway, Compensate, CountOnline, StartUpdateStatus, StopUpdateStatus,
       DeleteRemove, Enter, Return
  <1>2. CASE Connect(p) \/ SagaListSensors(p) \/ StartWorker(p) \/ Register(p) \/ StartCheck(p)
             \/ WorkerStart(p)
    BY <1>2 DEF Connect, SagaListSensors, StartWorker, Register, StartCheck, WorkerStart, Goto, Return
  <1>3. CASE StopSwap(p) \/ StopClose(p) \/ DeleteSwap(p) \/ DeleteClose(p)
    BY <1>3 DEF StopSwap, StopClose, DeleteSwap, DeleteClose, WorkerStop, WorkerClose, Goto
  <1> QED BY <1>1, <1>2, <1>3 DEF Continue

\* Before main serves requests only RestoreAll and the listener are at work.
LEMMA PhaseStep ==
  TypeOK /\ AtList /\ PhaseInv /\ AckInv /\ [Next]_vars => PhaseInv' /\ AckInv'
  <1> SUFFICES ASSUME TypeOK, AtList, PhaseInv, AckInv, [Next]_vars PROVE PhaseInv' /\ AckInv'
    OBVIOUS
  <1> USE ProcsAssumption DEF procVars, storeVars, workerVars, envVars, histVars, Procs
  <1>T. pc \in [Procs -> Labels] /\ Listener \in Procs /\ Restorer \in Procs
    BY DEF TypeOK, ProcTypeOK
  <1>1. ASSUME NEW p \in Procs, Continue(p) PROVE PhaseInv' /\ AckInv'
    <2>1. PICK x \in Active \cup {Caller(p)} : pc' = [pc EXCEPT ![p] = x]
      BY <1>1, ContinueEffect
    <2>2. pc[p] # "idle" /\ pc[p] # "list" /\ UNCHANGED <<phase, todo, events>>
      BY <1>1, ContinueEffect DEF Active, Resting, Labels
    <2>3. x # "list" /\ (x = "idle" => p \in Requests)
      BY <2>1 DEF Active, Resting, Labels, Caller
    <2> QED BY <2>1, <2>2, <2>3, <1>T DEF PhaseInv, AckInv
  <1>2. ASSUME NEW p \in Requests, NEW g \in Gateways,
               Onboard(p, g) \/ StartLookup(p, g) \/ StopLookup(p, g) \/ DeleteLookup(p, g)
        PROVE  PhaseInv' /\ AckInv'
    BY <1>2, <1>T DEF PhaseInv, AckInv, Onboard, StartLookup, StopLookup, DeleteLookup,
       RemoveWorker, Enter
  <1>3. CASE ListenerReceive \/ ListenerRemove
    BY <1>3, <1>T DEF PhaseInv, AckInv, ListenerReceive, ListenerRemove, RemoveWorker, Enter, Goto,
       Return, Caller
  <1>4. CASE ListenerAck
    BY <1>4, <1>T DEF PhaseInv, AckInv, ListenerAck, Goto
  <1>5. CASE RestoreList \/ \E id \in Ids : RestoreNext(id)
    BY <1>5, <1>T DEF PhaseInv, AckInv, RestoreList, RestoreNext, Enter, Goto
  <1>6. CASE RestoreListSensors \/ RestoreConnect \/ RestoreDone
    BY <1>6, <1>T DEF PhaseInv, AckInv, RestoreListSensors, RestoreConnect, RestoreDone, Goto,
       Return, Caller
  <1>7. CASE \E p \in Requests : ClientLeaves(p)
    BY <1>7 DEF PhaseInv, AckInv, ClientLeaves
  <1>8. ASSUME NEW g \in Gateways, NEW t \in BOOLEAN, Decommission(g, t)
        PROVE  PhaseInv' /\ AckInv'
    <2>1. events # <<>> => events' # <<>>
      BY <1>8 DEF Decommission, TypeOK, EnvTypeOK
    <2> QED BY <1>8, <2>1 DEF PhaseInv, AckInv, Decommission
  <1>9. CASE StopAll \/ Exit
    BY <1>9 DEF PhaseInv, AckInv, StopAll, Exit
  <1>10. CASE Boot
    BY <1>10, <1>T, RecoveryModeAssumption DEF PhaseInv, AckInv, Boot
  <1>11. CASE UNCHANGED vars
    BY <1>11 DEF PhaseInv, AckInv, vars
  <1>12. CASE Subscribe \/ Drain
    BY <1>12, <1>T DEF PhaseInv, AckInv, Subscribe, Drain
  <1> QED
    BY <1>1, <1>2, <1>3, <1>4, <1>5, <1>6, <1>7, <1>8, <1>9, <1>10, <1>11, <1>12
    DEF Next, Request, Listen, Restore, Environment

\* Goroutines keep to their own rows, and no row is forgotten.
LEMMA OwnStep ==
  TypeOK /\ OwnInv /\ PhaseInv /\ AckInv /\ EveryRowManaged /\ [Next]_vars
    => OwnInv' /\ EveryRowManaged'
  <1> SUFFICES ASSUME TypeOK, OwnInv, PhaseInv, AckInv, EveryRowManaged, [Next]_vars
               PROVE  OwnInv' /\ EveryRowManaged'
    OBVIOUS
  <1> USE DEF procVars, storeVars, workerVars, envVars, histVars, RowVars
  <1>P. Listener \in Procs /\ Restorer \in Procs /\ Requests \subseteq Procs
    BY DEF Procs
  <1>M. ASSUME NEW p \in Procs, NEW x, pc' = [pc EXCEPT ![p] = x], x # "list",
               pc[p] # "list", pc[p] # "idle" \/ phase # "down", UNCHANGED phase,
               Managed => Managed'
        PROVE  EveryRowManaged'
    BY <1>M, <1>P DEF EveryRowManaged, PhaseInv, TypeOK, ProcTypeOK
  <1>1. ASSUME NEW p \in Procs, Continue(p) PROVE OwnInv' /\ EveryRowManaged'
    <2>1. pc[p] \in Active \cup {"insert"} /\ UNCHANGED <<phase, todo>> /\ abandoned \subseteq abandoned'
      BY <1>1, ContinueEffect
    <2>2. OwnInv' /\ (Managed => Managed')
      <3>1. CASE CreateGateway(p)
        <4>1. CASE Return(p) /\ UNCHANGED <<rows, nextId>>
          BY <3>1, <4>1, OwnReturn DEF CreateGateway, ResponsibleLabels
        <4>2. CASE ~(Return(p) /\ UNCHANGED <<rows, nextId>>)
          <5>1. gw[p] \in Gateways
            BY <3>1 DEF CreateGateway, TypeOK, ProcTypeOK, Resting
          <5> QED BY <3>1, <4>2, <5>1, OwnInsert DEF CreateGateway
        <4> QED BY <4>1, <4>2
      <3>2. CASE Connect(p) \/ SagaListSensors(p) \/ StartWorker(p) \/ WorkerStart(p)
                 \/ StopSwap(p) \/ StopClose(p) \/ DeleteSwap(p) \/ DeleteClose(p)
        <4>1. PICK l \in Active : Goto(p, l) /\ (pc[p] \in ResponsibleLabels <=> l \in ResponsibleLabels)
          BY <3>2 DEF Connect, SagaListSensors, StartWorker, WorkerStart, StopSwap, StopClose,
             DeleteSwap, DeleteClose, WorkerStop, WorkerClose, ResponsibleLabels, Active, Labels, Resting
        <4>2. UNCHANGED RowVars
          BY <3>2 DEF Connect, SagaListSensors, StartWorker, WorkerStart, StopSwap, StopClose,
             DeleteSwap, DeleteClose, WorkerStop, WorkerClose
        <4>3. pc[p] \in Active /\ l \in Labels \ {"list"}
          BY <3>2 DEF Connect, SagaListSensors, StartWorker, WorkerStart, StopSwap, StopClose,
             DeleteSwap, DeleteClose, Active, Labels, Resting
        <4> QED BY <4>1, <4>2, <4>3, <2>1, OwnGoto
      <3>3. CASE StartCheck(p)
        <4>1. CASE Return(p)
          BY <3>3, <4>1, OwnReturn DEF StartCheck, ResponsibleLabels
        <4>2. CASE Goto(p, "start")
          BY <3>3, <4>2, <2>1, OwnGoto DEF StartCheck, ResponsibleLabels, Active, Labels, Resting
        <4> QED BY <3>3, <4>1, <4>2 DEF StartCheck
      <3>4. CASE CountOnline(p) \/ StartUpdateStatus(p) \/ StopUpdateStatus(p)
        BY <3>4, <2>1, OwnReturn DEF CountOnline, StartUpdateStatus, StopUpdateStatus, ResponsibleLabels
      <3>5. CASE Register(p)
        BY <3>5, OwnRegister DEF Register
      <3>6. CASE Compensate(p) \/ DeleteRemove(p)
        <4>1. CASE DeleteRow(p)
          BY <3>6, <4>1, <2>1, OwnDelete DEF Compensate, DeleteRemove, ResponsibleLabels
        <4>2. CASE rid[p] \in abandoned' /\ UNCHANGED storeVars
          BY <3>6, <4>2, <2>1, OwnReturn DEF Compensate, DeleteRemove
        <4> QED BY <3>6, <4>1, <4>2 DEF Compensate, DeleteRemove
      <3> QED BY <1>1, <3>1, <3>2, <3>3, <3>4, <3>5, <3>6 DEF Continue
    <2>3. PICK x \in Active \cup {Caller(p)} : pc' = [pc EXCEPT ![p] = x]
      BY <1>1, ContinueEffect
    <2>4. x # "list" /\ pc[p] # "list" /\ pc[p] # "idle"
      BY <2>1 DEF Active, Resting, Labels, Caller
    <2> QED BY <2>1, <2>2, <2>3, <2>4, <1>M
  <1>2. ASSUME NEW p \in Requests, NEW g \in Gateways,
               Onboard(p, g) \/ StartLookup(p, g) \/ StopLookup(p, g) \/ DeleteLookup(p, g)
        PROVE  OwnInv' /\ EveryRowManaged'
    <2>1. p \in Procs /\ workers[g] \in Ids \cup {NoId} /\ NoId \in Ids \cup {NoId}
          /\ p \in Procs \ {Restorer}
      BY <1>P, ProcsAssumption DEF TypeOK, WorkerTypeOK
    <2>2. OwnInv' /\ (Managed => Managed')
      <3>1. CASE Onboard(p, g)
        BY <3>1, <2>1, OwnLookup DEF Onboard
      <3>2. CASE StartLookup(p, g) \/ StopLookup(p, g)
        BY <3>2, <2>1, OwnLookup DEF StartLookup, StopLookup
      <3>3. CASE DeleteLookup(p, g)
        BY <3>3, <2>1, OwnRemove DEF DeleteLookup
      <3> QED BY <1>2, <3>1, <3>2, <3>3
    <2>3. \E x \in {"insert", "check", "swap", "dswap"} : pc' = [pc EXCEPT ![p] = x]
      BY <1>2 DEF Onboard, StartLookup, StopLookup, DeleteLookup, RemoveWorker, Enter
    <2>4. pc[p] = "idle" /\ phase = "up" /\ UNCHANGED phase
      BY <1>2 DEF Onboard, StartLookup, StopLookup, DeleteLookup, RemoveWorker
    <2> QED BY <2>1, <2>2, <2>3, <2>4, <1>M
  <1>3. CASE ListenerReceive
    <2>1. OwnInv' /\ (Managed => Managed')
      <3>1. CASE RemoveWorker(Listener, Head(events).gw) /\ workers[Head(events).gw] # NoId
        <4>1. Head(events).gw \in Gateways
          <5>1. Head(events) \in [gw : Gateways, sameTenant : BOOLEAN]
            BY <1>3, HeadTailType DEF ListenerReceive, TypeOK, EnvTypeOK
          <5> QED BY <5>1
        <4> QED BY <1>3, <3>1, <4>1, <1>P, ProcsAssumption, OwnRemove DEF ListenerReceive
      <3>2. CASE Goto(Listener, "ack") /\ UNCHANGED <<storeVars, workers, envVars, histVars>>
        BY <1>3, <3>2, <1>P, OwnGoto DEF ListenerReceive, ResponsibleLabels, Labels
      <3> QED BY <1>3, <3>1, <3>2 DEF ListenerReceive
    <2>2. \E x \in {"dswap", "ack"} : pc' = [pc EXCEPT ![Listener] = x]
      BY <1>3 DEF ListenerReceive, RemoveWorker, Enter, Goto
    <2>3. pc[Listener] = "idle" /\ phase # "down" /\ UNCHANGED phase
      BY <1>3 DEF ListenerReceive, RemoveWorker
    <2> QED BY <2>1, <2>2, <2>3, <1>P, <1>M
  <1>4. CASE ListenerRemove
    <2>1. OwnInv' /\ (Managed => Managed')
      <3>1. CASE DeleteRow(Listener) /\ UNCHANGED abandoned
        BY <1>4, <3>1, <1>P, OwnDelete DEF ListenerRemove, ResponsibleLabels
      <3>2. CASE abandoned' = abandoned \cup {rid[Listener]} /\ UNCHANGED storeVars
        BY <1>4, <3>2, <1>P, OwnReturn DEF ListenerRemove
      <3> QED BY <1>4, <3>1, <3>2 DEF ListenerRemove
    <2> QED BY <1>4, <2>1, <1>P, <1>M, ProcsAssumption DEF ListenerRemove, Return, Caller
  <1>5. CASE ListenerAck
    <2>1. OwnInv' /\ (Managed => Managed')
      BY <1>5, <1>P, OwnGoto DEF ListenerAck, ResponsibleLabels, Labels
    <2> QED BY <1>5, <2>1, <1>P, <1>M DEF ListenerAck, Goto
  <1>6. CASE RestoreList
    BY <1>6, OwnList DEF EveryRowManaged
  <1>7. ASSUME NEW id \in Ids, RestoreNext(id) PROVE OwnInv' /\ EveryRowManaged'
    BY <1>7, OwnNext, <1>P, <1>M DEF RestoreNext, Enter
  <1>8. CASE RestoreListSensors \/ RestoreConnect
    <2>1. UNCHANGED RowVars /\ UNCHANGED phase /\ abandoned \subseteq abandoned'
      BY <1>8 DEF RestoreListSensors, RestoreConnect
    <2>2. OwnInv' /\ (Managed => Managed')
      <3>1. CASE Return(Restorer) /\ abandoned' = abandoned \cup {rid[Restorer]}
        BY <3>1, <2>1, <1>P, OwnReturn
      <3>2. CASE RestoreListSensors /\ Goto(Restorer, "rconnect")
        BY <3>2, <2>1, <1>P, OwnGoto DEF RestoreListSensors, ResponsibleLabels, Active, Labels, Resting
      <3>3. CASE RestoreConnect /\ Goto(Restorer, "launch")
        BY <3>3, <2>1, <1>P, OwnGoto DEF RestoreConnect, ResponsibleLabels, Active, Labels, Resting
      <3> QED BY <1>8, <3>1, <3>2, <3>3 DEF RestoreListSensors, RestoreConnect
    <2>3. \E x \in {"rconnect", "launch", "next"} : pc' = [pc EXCEPT ![Restorer] = x]
      BY <1>8 DEF RestoreListSensors, RestoreConnect, Goto, Return, Caller
    <2>4. pc[Restorer] \in {"rsensors", "rconnect"}
      BY <1>8 DEF RestoreListSensors, RestoreConnect
    <2> QED BY <2>1, <2>2, <2>3, <2>4, <1>P, <1>M
  <1>9. CASE RestoreDone
    <2>1. OwnInv' /\ (Managed => Managed')
      BY <1>9, <1>P, OwnGoto DEF RestoreDone, ResponsibleLabels, Labels
    <2>2. phase # "down" /\ pc[Restorer] # "list"
      BY <1>9, <1>P DEF PhaseInv, RestoreDone
    <2> QED BY <2>1, <2>2 DEF EveryRowManaged
  <1>10. CASE \/ \E p \in Requests : ClientLeaves(p)
              \/ \E g \in Gateways, t \in BOOLEAN : Decommission(g, t)
              \/ Subscribe \/ Drain \/ StopAll \/ UNCHANGED vars
    <2>1. UNCHANGED <<pc, gw, rid, rows, nextId, workers, todo, abandoned>>
      BY <1>10 DEF ClientLeaves, Decommission, Subscribe, Drain, StopAll, vars
    <2>2. phase' = phase \/ phase # "down"
      BY <1>10 DEF ClientLeaves, Decommission, Subscribe, Drain, StopAll, vars
    <2>3. OwnInv'
      BY <2>1 DEF OwnInv, Fresh, UniqueRows, RegisteredHasRow, OwnRowOnly, Exclusive, AtList,
         Responsible, Registered
    <2>4. Managed => Managed'
      BY <2>1 DEF Managed, Responsible, Registered, Rows
    <2> QED BY <2>1, <2>2, <2>3, <2>4 DEF EveryRowManaged
  <1>11. CASE Exit
    BY <1>11, OwnExit DEF EveryRowManaged, Exit
  <1>12. CASE Boot
    <2>1. /\ UNCHANGED <<gw, rid, rows, nextId, workers, todo>>
          /\ pc' = [pc EXCEPT ![Restorer] = IF RecoveryMode THEN "list" ELSE "idle"]
          /\ \A p \in Procs : pc[p] = "idle" /\ rid[p] = NoId
      BY <1>12 DEF Boot, PhaseInv, TypeOK, ProcTypeOK, Resting
    <2>2. \A p \in Procs, id \in Ids : ~Responsible(p, id) /\ ~Responsible(p, id)'
      BY <2>1 DEF Responsible, TypeOK, ProcTypeOK
    <2>3. Registered = {} /\ Registered' = {} /\ todo = {} /\ todo' = {}
          /\ \A g \in Gateways : workers'[g] = NoId
      BY <1>12, <2>1, <1>P DEF PhaseInv, Boot, Registered
    <2>4. Exclusive'
      BY <2>2, <2>3 DEF Exclusive
    <2>5. AtList'
      BY <2>1, <2>3 DEF AtList, TypeOK, ProcTypeOK, Procs
    <2>6. UniqueRows' /\ Fresh' /\ RegisteredHasRow' /\ OwnRowOnly'
      BY <2>1 DEF OwnInv, UniqueRows, Fresh, RegisteredHasRow, OwnRowOnly
    <2>7. EveryRowManaged'
      <3>1. CASE RecoveryMode
        BY <3>1, <2>1, <1>P DEF EveryRowManaged, TypeOK, ProcTypeOK
      <3>2. CASE ~RecoveryMode
        BY <3>2, <1>12, <2>1 DEF EveryRowManaged, Managed, Boot, Rows
      <3> QED BY <3>1, <3>2
    <2> QED BY <2>4, <2>5, <2>6, <2>7 DEF OwnInv
  <1> QED
    BY <1>1, <1>2, <1>3, <1>4, <1>5, <1>6, <1>7, <1>8, <1>9, <1>10, <1>11, <1>12
    DEF Next, Request, Listen, Restore, Environment

-----------------------------------------------------------------------------
(* Who closes a connection.  An open connection whose worker does not run is  *)
(* on its way to be used or closed by some goroutine; a pump belongs to a     *)
(* registered worker or to the goroutine that registers or removes it.        *)

At(p, id, labels) == rid[p] = id /\ pc[p] \in labels

Closing(id) == \E p \in Procs : At(p, id, {"sensors", "launch", "close", "dclose"})
Pumping(id) == \E p \in Procs : At(p, id, {"register", "dswap"})
Owning(id)  == \E p \in Procs : WillClose(p, id)

ConnAt(id) ==
  /\ id \in conn /\ id \notin running => Closing(id)
  /\ id \in conn => id \in Registered \/ Owning(id)
  /\ id \in pumping => id \in Registered \/ Pumping(id)

ConnInv == \A id \in Ids : ConnAt(id)

UsesConn(p, id)  == At(p, id, {"sensors", "launch", "close", "dclose"})
UsesPump(p, id)  == At(p, id, {"register", "dswap"})

\* What a step of p may do to the connection and the pump of one worker.
LEMMA ConnKeep ==
  ASSUME TypeOK, NEW p \in Procs, NEW id \in Ids, ConnAt(id),
         \A q \in Procs \ {p} : pc'[q] = pc[q] /\ rid'[q] = rid[q],
         \/ id \notin conn'
         \/ UsesConn(p, id)'
         \/ id \in conn /\ id \in running' /\ (id \in Registered' \/ WillClose(p, id)')
         \/ /\ id \in conn /\ (id \in running => id \in running') /\ ~UsesConn(p, id)
            /\ \/ ~WillClose(p, id) /\ (id \in Registered => id \in Registered')
               \/ id \in Registered' \/ WillClose(p, id)' \/ id \notin running,
         \/ id \notin pumping'
         \/ UsesPump(p, id)'
         \/ id \in Registered'
         \/ id \in pumping /\ ~UsesPump(p, id) /\ id \notin Registered
  PROVE  ConnAt(id)'
  <1>1. Closing(id) /\ ~UsesConn(p, id) => Closing(id)'
    BY DEF Closing, UsesConn, At
  <1>2. Pumping(id) /\ ~UsesPump(p, id) => Pumping(id)'
    BY DEF Pumping, UsesPump, At
  <1>3. Owning(id) /\ ~WillClose(p, id) => Owning(id)'
    BY DEF Owning, WillClose
  <1>4. /\ UsesConn(p, id)' => Closing(id)'
        /\ UsesPump(p, id)' => Pumping(id)'
        /\ WillClose(p, id)' => Owning(id)'
        /\ Closing(id)' => Owning(id)'
    BY DEF Closing, Pumping, Owning, UsesConn, UsesPump, At, WillClose
  <1> QED BY <1>1, <1>2, <1>3, <1>4 DEF ConnAt

\* Whoever opened a connection registers it or closes it.
LEMMA ConnStep ==
  TypeOK /\ OwnInv /\ PhaseInv /\ ConnInv /\ [Next]_vars => ConnInv'
  <1> SUFFICES ASSUME TypeOK, OwnInv, PhaseInv, ConnInv, [Next]_vars, NEW id \in Ids
               PROVE  ConnAt(id)'
    BY DEF ConnInv
  <1> USE DEF procVars, storeVars, workerVars, envVars, histVars
  <1>P. Listener \in Procs /\ Restorer \in Procs /\ Requests \subseteq Procs
    BY DEF Procs
  <1>A. ConnAt(id)
    BY DEF ConnInv
  <1>T. pc \in [Procs -> Labels] /\ rid \in [Procs -> Ids \cup {NoId}]
    BY DEF TypeOK, ProcTypeOK
  <1>G. ASSUME NEW p \in Procs, NEW l, Goto(p, l)
        PROVE  /\ rid'[p] = rid[p] /\ pc'[p] = l
               /\ \A q \in Procs \ {p} : pc'[q] = pc[q] /\ rid'[q] = rid[q]
    BY <1>G, <1>T DEF Goto
  <1>R. ASSUME NEW p \in Procs, Return(p),
               pc[p] \notin {"sensors", "launch", "close", "dclose", "register", "dswap"},
               UNCHANGED <<workers, conn, running, pumping>>
        PROVE  ConnAt(id)'
    <2>1. \A q \in Procs \ {p} : pc'[q] = pc[q] /\ rid'[q] = rid[q]
      BY <1>R, <1>T DEF Return
    <2>2. ~UsesConn(p, id) /\ ~UsesPump(p, id) /\ ~WillClose(p, id) /\ Registered' = Registered
      BY <1>R DEF UsesConn, UsesPump, At, WillClose, Registered
    <2> QED BY <1>R, <1>A, <2>1, <2>2, ConnKeep
  <1>1. ASSUME NEW p \in Procs, Continue(p) PROVE ConnAt(id)'
    <2> USE <1>A DEF UsesConn, UsesPump, At, WillClose
    <2>R. ~Register(p) => Registered' = Registered
      <3>1. ~Register(p) => workers' = workers
        BY <1>1 DEF Continue, CreateGateway, Connect, SagaListSensors, Compensate, StartWorker,
           CountOnline, StartCheck, WorkerStart, StartUpdateStatus, StopSwap, StopClose,
           StopUpdateStatus, DeleteSwap, DeleteClose, DeleteRemove, WorkerStop, WorkerClose
      <3> QED BY <3>1 DEF Registered
    <2>1. CASE CreateGateway(p)
      <3>1. \A q \in Procs \ {p} : pc'[q] = pc[q] /\ rid'[q] = rid[q]
        BY <2>1, <1>T DEF CreateGateway, Enter, Return
      <3> QED BY <2>1, <2>R, <3>1, ConnKeep DEF CreateGateway, Register
    <2>2. CASE Connect(p)
      BY <2>2, <2>R, <1>G, ConnKeep DEF Connect, Register
    <2>3. CASE SagaListSensors(p)
      BY <2>3, <2>R, <1>G, ConnKeep DEF SagaListSensors, Register
    <2>4. CASE StartWorker(p)
      BY <2>4, <2>R, <1>G, ConnKeep DEF StartWorker, Register
    <2>5. CASE Register(p)
      <3>1. id \in Registered' <=> id \in Registered \/ id = rid[p]
        BY <2>5, OwnRegister DEF Register
      <3> QED BY <2>5, <3>1, <1>G, ConnKeep DEF Register
    <2>6. CASE StartCheck(p)
      <3>1. CASE Return(p)
        BY <2>6, <3>1, <1>R DEF StartCheck
      <3>2. CASE Goto(p, "start")
        BY <2>6, <3>2, <2>R, <1>G, ConnKeep DEF StartCheck, Register
      <3> QED BY <2>6, <3>1, <3>2 DEF StartCheck
    <2>7. CASE WorkerStart(p)
      BY <2>7, <2>R, <1>G, ConnKeep DEF WorkerStart, Register
    <2>8. CASE StopSwap(p)
      BY <2>8, <2>R, <1>G, ConnKeep DEF StopSwap, WorkerStop, Register
    <2>9. CASE DeleteSwap(p)
      BY <2>9, <2>R, <1>G, ConnKeep DEF DeleteSwap, WorkerStop, Register
    <2>10. CASE StopClose(p) \/ DeleteClose(p)
      BY <2>10, <2>R, <1>G, ConnKeep DEF StopClose, DeleteClose, WorkerClose, Register
    <2>11. CASE Compensate(p) \/ CountOnline(p) \/ StartUpdateStatus(p) \/ StopUpdateStatus(p)
                \/ DeleteRemove(p)
      BY <2>11, <1>R DEF Compensate, CountOnline, StartUpdateStatus, StopUpdateStatus, DeleteRemove
    <2> QED BY <1>1, <2>1, <2>2, <2>3, <2>4, <2>5, <2>6, <2>7, <2>8, <2>9, <2>10, <2>11 DEF Continue
  <1>E. ASSUME NEW p \in Procs, NEW g, NEW i, NEW l, pc[p] \in {"idle", "next"}, Enter(p, g, i, l),
               l \notin {"dswap"}, UNCHANGED <<workers, conn, running, pumping>>
        PROVE  ConnAt(id)'
    <2>1. \A q \in Procs \ {p} : pc'[q] = pc[q] /\ rid'[q] = rid[q]
      BY <1>E, <1>T DEF Enter
    <2>2. ~UsesConn(p, id) /\ ~UsesPump(p, id) /\ ~WillClose(p, id) /\ Registered' = Registered
      BY <1>E DEF UsesConn, UsesPump, At, WillClose, Registered
    <2> QED BY <1>E, <1>A, <2>1, <2>2, ConnKeep
  <1>D. ASSUME NEW p \in Procs \ {Restorer}, NEW g \in Gateways, workers[g] # NoId,
               pc[p] = "idle", RemoveWorker(p, g)
        PROVE  ConnAt(id)'
    <2>1. \A q \in Procs \ {p} : pc'[q] = pc[q] /\ rid'[q] = rid[q]
      BY <1>D, <1>T DEF RemoveWorker, Enter
    <2>2. id \in Registered' <=> id \in Registered /\ id # workers[g]
      BY <1>D, OwnRemove
    <2>3. rid'[p] = workers[g] /\ pc'[p] = "dswap" /\ UNCHANGED <<conn, running, pumping>>
      BY <1>D, <1>T DEF RemoveWorker, Enter
    <2> QED BY <1>D, <1>A, <2>1, <2>2, <2>3, ConnKeep DEF UsesConn, UsesPump, At, WillClose
  <1>2. ASSUME NEW p \in Requests, NEW g \in Gateways,
               Onboard(p, g) \/ StartLookup(p, g) \/ StopLookup(p, g) \/ DeleteLookup(p, g)
        PROVE  ConnAt(id)'
    BY <1>2, <1>E, <1>D, <1>P, ProcsAssumption DEF Onboard, StartLookup, StopLookup, DeleteLookup
  <1>3. CASE ListenerReceive
    <2>1. CASE RemoveWorker(Listener, Head(events).gw) /\ workers[Head(events).gw] # NoId
      <3>1. Head(events) \in [gw : Gateways, sameTenant : BOOLEAN]
        BY <1>3, HeadTailType DEF ListenerReceive, TypeOK, EnvTypeOK
      <3> QED BY <1>3, <2>1, <3>1, <1>D, <1>P, ProcsAssumption DEF ListenerReceive
    <2>2. CASE Goto(Listener, "ack") /\ UNCHANGED <<workers, workerVars>>
      <3>1. Registered' = Registered
        BY <2>2 DEF Registered
      <3> QED BY <1>3, <2>2, <3>1, <1>A, <1>G, <1>P, ConnKeep DEF ListenerReceive, UsesConn, UsesPump,
              At, WillClose
    <2> QED BY <1>3, <2>1, <2>2 DEF ListenerReceive
  <1>4. CASE ListenerRemove
    BY <1>4, <1>R, <1>P DEF ListenerRemove
  <1>5. CASE ListenerAck \/ RestoreList \/ RestoreDone
    <2>1. Registered' = Registered /\ UNCHANGED <<conn, running, pumping>>
      BY <1>5 DEF Registered, ListenerAck, RestoreList, RestoreDone
    <2>2. PICK p \in {Listener, Restorer}, l \in {"idle", "next"} :
            Goto(p, l) /\ pc[p] \in {"ack", "list", "next"}
      BY <1>5 DEF ListenerAck, RestoreList, RestoreDone
    <2> QED BY <2>1, <2>2, <1>A, <1>G, <1>P, ConnKeep DEF UsesConn, UsesPump, At, WillClose
  <1>6. ASSUME NEW i \in Ids, RestoreNext(i) PROVE ConnAt(id)'
    BY <1>6, <1>E, <1>P DEF RestoreNext
  <1>7. CASE RestoreListSensors \/ RestoreConnect
    <2>0. Registered' = Registered
      BY <1>7 DEF Registered, RestoreListSensors, RestoreConnect
    <2>1. CASE Return(Restorer) /\ UNCHANGED conn
      BY <1>7, <2>1, <1>R, <1>P DEF RestoreListSensors, RestoreConnect
    <2>2. CASE RestoreListSensors /\ Goto(Restorer, "rconnect")
      BY <2>0, <2>2, <1>A, <1>G, <1>P, ConnKeep DEF RestoreListSensors, UsesConn, UsesPump, At, WillClose
    <2>3. CASE RestoreConnect /\ Goto(Restorer, "launch") /\ conn' = conn \cup {rid[Restorer]}
      BY <2>0, <2>3, <1>A, <1>G, <1>P, ConnKeep DEF RestoreConnect, UsesConn, UsesPump, At, WillClose
    <2> QED BY <1>7, <2>1, <2>2, <2>3 DEF RestoreListSensors, RestoreConnect
  <1>8. CASE StopAll
    <2>1. UNCHANGED <<pc, rid, workers>>
      BY <1>8 DEF StopAll
    <2> QED BY <1>8, <2>1, <1>A DEF StopAll, ConnAt, Closing, Owning, Pumping, At, WillClose, Registered
  <1>9. CASE Exit
    BY <1>9 DEF Exit, ConnAt
  <1>10. CASE Boot
    <2>1. UNCHANGED <<rid, workers, conn, running, pumping>> /\ \A p \in Procs : rid[p] = NoId
      BY <1>10 DEF Boot, PhaseInv, TypeOK, ProcTypeOK, Resting
    <2>2. \A p \in Procs : rid[p] # id
      BY <2>1, MaxIdAssumption DEF Ids, NoId
    <2> QED BY <2>1, <2>2, <1>A DEF ConnAt, Closing, Owning, Pumping, At, WillClose, Registered
  <1>11. CASE \/ \E p \in Requests : ClientLeaves(p)
              \/ \E g \in Gateways, t \in BOOLEAN : Decommission(g, t)
              \/ Subscribe \/ Drain \/ UNCHANGED vars
    <2>1. UNCHANGED <<pc, rid, workers, conn, running, pumping>>
      BY <1>11 DEF ClientLeaves, Decommission, Subscribe, Drain, vars
    <2> QED BY <2>1, <1>A DEF ConnAt, Closing, Owning, Pumping, At, WillClose, Registered
  <1> QED
    BY <1>1, <1>2, <1>3, <1>4, <1>5, <1>6, <1>7, <1>8, <1>9, <1>10, <1>11
    DEF Next, Request, Listen, Restore, Environment

-----------------------------------------------------------------------------
IInv == TypeOK /\ OwnInv /\ PhaseInv /\ AckInv /\ EveryRowManaged /\ ConnInv

\* A new process on an empty database satisfies the invariant.
LEMMA InitIInv == Init => IInv
  <1> SUFFICES ASSUME Init PROVE IInv
    OBVIOUS
  <1>1. /\ \A p \in Procs : rid[p] = NoId /\ gw[p] = None
                            /\ pc[p] = IF p = Restorer /\ RecoveryMode THEN "list" ELSE "idle"
        /\ \A g \in Gateways : workers[g] = NoId
        /\ \A id \in Ids : rows[id] = None
        /\ todo = {} /\ conn = {} /\ pumping = {} /\ nextId = 1 /\ events = <<>>
        /\ Restorer \in Procs /\ Listener \in Procs /\ Requests \subseteq Procs
    BY DEF Init, Procs
  <1>2. ProcTypeOK
    BY DEF Init, ProcTypeOK, Labels, Resting
  <1>3. StoreTypeOK /\ WorkerTypeOK
    BY MaxIdAssumption DEF Init, StoreTypeOK, WorkerTypeOK, Statuses
  <1>4. EnvTypeOK /\ HistTypeOK
    <2>1. subscription \in Subscriptions /\ phase \in Phases
      BY RecoveryModeAssumption DEF Init, Phases, Subscriptions
    <2>2. durable \in BOOLEAN /\ todo \subseteq Ids
      BY DEF Init
    <2>3. events \in Seq([gw : Gateways, sameTenant : BOOLEAN])
      BY DEF Init
    <2>4. faults \in Nat /\ published \in Nat /\ crashes \in Nat
      BY DEF Init
    <2> QED BY <2>1, <2>2, <2>3, <2>4 DEF Init, EnvTypeOK, HistTypeOK
  <1>5. \A p \in Procs, id \in Ids : ~Responsible(p, id)
    BY <1>1 DEF Responsible
  <1>6. OwnInv
    BY <1>1, <1>5, NoneAssumption, ProcsAssumption DEF OwnInv, Fresh, UniqueRows, RegisteredHasRow, OwnRowOnly, Exclusive, AtList,
       NoId, Procs
  <1>7. PhaseInv /\ AckInv
    BY <1>1, ProcsAssumption, RecoveryModeAssumption DEF Init, PhaseInv, AckInv
  <1>8. EveryRowManaged /\ ConnInv
    BY <1>1 DEF EveryRowManaged, Managed, Rows, ConnInv, ConnAt
  <1> QED BY <1>2, <1>3, <1>4, <1>6, <1>7, <1>8 DEF IInv, TypeOK

\* Every step preserves it.
LEMMA StepIInv == IInv /\ [Next]_vars => IInv'
  <1>1. OwnInv => TodoRows /\ AtList
    BY DEF OwnInv, Exclusive, TodoRows
  <1> QED BY <1>1, TypeStep, OwnStep, PhaseStep, ConnStep DEF IInv

\* The inductive invariant holds in every reachable state of the registry,
\* across restarts and crashes of the process.
THEOREM RegistryInvariant == Spec => []IInv
  BY InitIInv, StepIInv, PTL DEF Spec

\* Every variable keeps its type: in particular no handler goes on without the
\* worker or the row it looked up, for any number of requests and gateways.
THEOREM TypeCorrect == Spec => []TypeOK
  <1>1. IInv => TypeOK
    BY DEF IInv
  <1> QED BY RegistryInvariant, <1>1, PTL

\* The map of workers never offers a gateway whose row is gone.
THEOREM RegisteredRowsExist == Spec => []RegisteredHasRow
  <1>1. IInv => RegisteredHasRow
    BY DEF IInv, OwnInv
  <1> QED BY RegistryInvariant, <1>1, PTL

\* Requests that outlive the gateway they looked up never write to another one.
THEOREM StaleIdsAreHarmless == Spec => []OwnRowOnly
  <1>1. IInv => OwnRowOnly
    BY DEF IInv, OwnInv
  <1> QED BY RegistryInvariant, <1>1, PTL

\* No row of the gateways table is forgotten without an error being reported.
THEOREM RowsAreManaged == Spec => []EveryRowManaged
  <1>1. IInv => EveryRowManaged
    BY DEF IInv
  <1> QED BY RegistryInvariant, <1>1, PTL

\* No connection and no command pump outlives the gateway it was opened for.
THEOREM ConnectionsAreOwned == Spec => []ConnectionsOwned
  <1>1. IInv => ConnectionsOwned
    <2> SUFFICES ASSUME IInv, NEW id \in conn \cup pumping
                 PROVE  id \in Registered \/ \E p \in Procs : WillClose(p, id)
      BY DEF ConnectionsOwned
    <2>1. id \in Ids
      BY DEF IInv, TypeOK, WorkerTypeOK
    <2>2. ConnAt(id)
      BY <2>1 DEF IInv, ConnInv
    <2> QED BY <2>2 DEF ConnAt, Owning, Pumping, At, WillClose
  <1> QED BY RegistryInvariant, <1>1, PTL

-----------------------------------------------------------------------------
(* The gauge.  Each goroutine stands at one label, so a step moves the counts *)
(* of the goroutines at given labels by at most one.                          *)

Count(f, L)  == Cardinality({q \in Procs : f[q] \in L})
Is(x, L)     == IF x \in L THEN 1 ELSE 0
Removing     == {"dswap", "dclose", "dremove"}

\* There are finitely many goroutines, so they can be counted.
LEMMA ProcsFinite == IsFiniteSet(Procs)
  <1>1. IsFiniteSet(Requests \cup {Listener})
    BY RequestsAssumption, FS_AddElement
  <1>2. IsFiniteSet((Requests \cup {Listener}) \cup {Restorer})
    BY <1>1, FS_AddElement
  <1>3. Procs = (Requests \cup {Listener}) \cup {Restorer}
    BY DEF Procs
  <1> QED BY <1>2, <1>3

\* When p alone moves, a count changes by what p was and what it becomes.
LEMMA CountMove ==
  ASSUME NEW f, NEW g, NEW p \in Procs, \A q \in Procs \ {p} : g[q] = f[q], NEW L
  PROVE  /\ Count(f, L) \in Int
         /\ Count(g, L) = Count(f, L) + Is(g[p], L) - Is(f[p], L)
  <1> DEFINE R == {q \in Procs \ {p} : f[q] \in L}
             S(h) == {q \in Procs : h[q] \in L}
  <1>1. IsFiniteSet(R)
    BY ProcsFinite, FS_Subset
  <1>2. Cardinality(R) \in Nat
    BY <1>1, FS_CardinalityType
  <1>3. p \notin R
    OBVIOUS
  <1>4. Cardinality(R \cup {p}) = Cardinality(R) + 1
    BY <1>1, <1>3, FS_AddElement
  <1>5. S(f) = IF f[p] \in L THEN R \cup {p} ELSE R
    OBVIOUS
  <1>6. S(g) = IF g[p] \in L THEN R \cup {p} ELSE R
    OBVIOUS
  <1>7. Count(f, L) = Cardinality(S(f)) /\ Count(g, L) = Cardinality(S(g))
    BY DEF Count
  <1> HIDE DEF R, S
  <1>8. Count(f, L) = Cardinality(R) + Is(f[p], L)
    BY <1>2, <1>4, <1>5, <1>7 DEF Is
  <1>9. Count(g, L) = Cardinality(R) + Is(g[p], L)
    BY <1>2, <1>4, <1>6, <1>7 DEF Is
  <1> QED BY <1>2, <1>8, <1>9 DEF Is

\* The workers of the map can be counted.
LEMMA RegisteredFinite ==
  ASSUME TypeOK
  PROVE  Registered \in SUBSET Ids /\ IsFiniteSet(Registered) /\ Cardinality(Registered) \in Nat
  <1>1. Registered \in SUBSET Ids
    BY DEF TypeOK, WorkerTypeOK, Registered
  <1>2. IsFiniteSet(Ids)
    BY MaxIdAssumption, FS_Interval DEF Ids
  <1>3. IsFiniteSet(Registered)
    BY <1>1, <1>2, FS_Subset
  <1> QED BY <1>1, <1>3, FS_CardinalityType

\* The accounting in terms of these counts.
GaugeSum ==
  gauge + Count(pc, {"online"}) >= Cardinality(Registered) + Count(pc, Removing)

\* The property in terms of these counts.
LEMMA GaugeIsSum == GaugeNeverShort <=> GaugeSum
  <1>1. {p \in Procs : pc[p] = "online"} = {q \in Procs : pc[q] \in {"online"}}
    OBVIOUS
  <1> QED BY <1>1 DEF GaugeNeverShort, GaugeSum, Count, Removing

\* A step of p: what the gauge loses, and p's leaving the label "online", are made up
\* for by what the registry loses and the end of p's removal.
LEMMA GaugeMove ==
  ASSUME TypeOK, GaugeSum, NEW p \in Procs, \A q \in Procs \ {p} : pc'[q] = pc[q],
         NEW k \in Int, Cardinality(Registered') = Cardinality(Registered) + k,
         gauge' + Is(pc'[p], {"online"}) + Is(pc[p], Removing) >=
           gauge + Is(pc[p], {"online"}) + k + Is(pc'[p], Removing),
         gauge' \in Int
  PROVE  GaugeSum'
  <1>0. \A L : /\ Count(pc, L) \in Int
               /\ Count(pc', L) = Count(pc, L) + Is(pc'[p], L) - Is(pc[p], L)
    BY CountMove, Zenon
  <1>1. /\ Count(pc, {"online"}) \in Int
        /\ Count(pc', {"online"}) = Count(pc, {"online"}) + Is(pc'[p], {"online"})
                                     - Is(pc[p], {"online"})
    BY <1>0, Zenon
  <1>2. /\ Count(pc, Removing) \in Int
        /\ Count(pc', Removing) = Count(pc, Removing) + Is(pc'[p], Removing)
                                   - Is(pc[p], Removing)
    BY <1>0, Zenon
  <1>3. Cardinality(Registered) \in Nat /\ gauge \in Int
    BY RegisteredFinite DEF TypeOK, WorkerTypeOK
  <1>5. /\ Is(pc'[p], {"online"}) \in Int /\ Is(pc[p], {"online"}) \in Int
        /\ Is(pc'[p], Removing) \in Int /\ Is(pc[p], Removing) \in Int
    BY DEF Is
  <1>6. GaugeSum' <=> gauge' + Count(pc', {"online"})
                        >= Cardinality(Registered') + Count(pc', Removing)
    BY DEF GaugeSum, Count, Removing
  <1> DEFINE a == gauge                a2 == gauge'
             o == Count(pc, {"online"}) o2 == Count(pc', {"online"})
             r == Count(pc, Removing)   r2 == Count(pc', Removing)
             x == Is(pc[p], {"online"}) x2 == Is(pc'[p], {"online"})
             y == Is(pc[p], Removing)   y2 == Is(pc'[p], Removing)
             c == Cardinality(Registered)  c2 == Cardinality(Registered')
  <1>7. /\ a \in Int /\ a2 \in Int /\ o \in Int /\ r \in Int /\ c \in Int
        /\ x \in Int /\ x2 \in Int /\ y \in Int /\ y2 \in Int /\ k \in Int
    BY <1>1, <1>2, <1>3, <1>5
  <1>8. /\ a + o >= c + r
        /\ o2 = o + x2 - x
        /\ r2 = r + y2 - y
        /\ c2 = c + k
        /\ a2 + x2 + y >= a + x + k + y2
    BY <1>1, <1>2, Zenon DEF GaugeSum
  <1> HIDE DEF a, a2, o, o2, r, r2, x, x2, y, y2, c, c2
  <1>9. a2 + o2 >= c2 + r2
    BY <1>7, <1>8, SMT
  <1> QED BY <1>6, <1>9, Zenon DEF a2, o2, c2, r2

\* A step of p outside the accounted labels that leaves the map and the gauge alone.
LEMMA GaugeSkip ==
  ASSUME TypeOK, GaugeSum, NEW p \in Procs, NEW x, pc' = [pc EXCEPT ![p] = x],
         pc[p] = "online" <=> x = "online", pc[p] \in Removing <=> x \in Removing,
         UNCHANGED <<workers, gauge>>
  PROVE  GaugeSum'
  <1>1. pc'[p] = x /\ \A q \in Procs \ {p} : pc'[q] = pc[q]
    BY DEF TypeOK, ProcTypeOK
  <1>2. Registered' = Registered /\ Cardinality(Registered) \in Nat
        /\ gauge \in Int
    BY RegisteredFinite DEF TypeOK, WorkerTypeOK, Registered
  <1>3. /\ Is(pc'[p], {"online"}) = Is(pc[p], {"online"})
        /\ Is(pc'[p], Removing) = Is(pc[p], Removing)
        /\ Is(pc[p], {"online"}) \in Int /\ Is(pc[p], Removing) \in Int
    BY <1>1 DEF Is
  <1>4. Cardinality(Registered') = Cardinality(Registered) + 0
    BY <1>2
  <1>5. gauge' + Is(pc'[p], {"online"}) + Is(pc[p], Removing) >=
          gauge + Is(pc[p], {"online"}) + 0 + Is(pc'[p], Removing)
    BY <1>2, <1>3
  <1> QED BY <1>1, <1>2, <1>4, <1>5, GaugeMove

\* A step of p that changes the gauge by d and the workers of the map by k.
Balanced(p, x, d, k) ==
  /\ pc' = [pc EXCEPT ![p] = x]
  /\ gauge' = gauge + d
  /\ Cardinality(Registered') = Cardinality(Registered) + k
  /\ d + Is(x, {"online"}) + Is(pc[p], Removing) >=
       Is(pc[p], {"online"}) + k + Is(x, Removing)

\* Such a step does not make the gauge fall short.
LEMMA GaugeChange ==
  ASSUME TypeOK, GaugeSum, NEW p \in Procs, NEW x, NEW d \in Int, NEW k \in Int,
         Balanced(p, x, d, k)
  PROVE  GaugeSum'
  <1>0. /\ pc' = [pc EXCEPT ![p] = x]
        /\ gauge' = gauge + d
        /\ Cardinality(Registered') = Cardinality(Registered) + k
        /\ d + Is(x, {"online"}) + Is(pc[p], Removing) >=
             Is(pc[p], {"online"}) + k + Is(x, Removing)
    BY DEF Balanced
  <1>1. pc'[p] = x /\ \A q \in Procs \ {p} : pc'[q] = pc[q]
    BY <1>0 DEF TypeOK, ProcTypeOK
  <1>2. gauge \in Int /\ gauge' \in Int
    BY <1>0 DEF TypeOK, WorkerTypeOK
  <1>3. /\ Is(x, {"online"}) \in Int /\ Is(x, Removing) \in Int
        /\ Is(pc[p], {"online"}) \in Int /\ Is(pc[p], Removing) \in Int
    BY DEF Is
  <1>5. gauge' + Is(x, {"online"}) + Is(pc[p], Removing) >=
          gauge + Is(pc[p], {"online"}) + k + Is(x, Removing)
    BY <1>0, <1>2, <1>3
  <1> QED BY <1>0, <1>1, <1>2, <1>5, GaugeMove

\* A removal takes one worker out of the map and enters the accounted labels.
LEMMA GaugeRemove ==
  ASSUME TypeOK, OwnInv, GaugeSum, NEW p \in Procs \ {Restorer}, NEW g \in Gateways,
         workers[g] # NoId, pc[p] = "idle", RemoveWorker(p, g)
  PROVE  GaugeSum'
  <1>1. \A id \in Ids : id \in Registered' <=> id \in Registered /\ id # workers[g]
    BY OwnRemove
  <1>2. workers[g] \in Ids /\ workers[g] \in Registered
    BY RegisteredDef DEF TypeOK, WorkerTypeOK
  <1>3. Registered \in SUBSET Ids /\ IsFiniteSet(Registered) /\ Cardinality(Registered) \in Nat
    BY RegisteredFinite
  <1>4. workers' = [workers EXCEPT ![g] = NoId] /\ pc' = [pc EXCEPT ![p] = "dswap"]
        /\ UNCHANGED gauge
    BY DEF RemoveWorker, Enter
  <1>5. Registered' \in SUBSET Ids
    BY <1>4 DEF Registered, TypeOK, WorkerTypeOK
  <1>6. Registered' = Registered \ {workers[g]}
    BY <1>1, <1>3, <1>5
  <1>7. Cardinality(Registered') = Cardinality(Registered) - 1
    BY <1>2, <1>3, <1>6, FS_RemoveElement
  <1>8. Cardinality(Registered') = Cardinality(Registered) + (-1)
    BY <1>3, <1>7
  <1>9. 0 + Is("dswap", {"online"}) + Is(pc[p], Removing) >=
          Is(pc[p], {"online"}) + (-1) + Is("dswap", Removing)
    BY DEF Is, Removing
  <1>10. gauge' = gauge + 0
    BY <1>4 DEF TypeOK, WorkerTypeOK
  <1>11. Balanced(p, "dswap", 0, -1)
    BY <1>4, <1>8, <1>9, <1>10 DEF Balanced
  <1> QED BY <1>11, GaugeChange

\* No step makes the gauge fall short.
LEMMA GaugeStep == IInv /\ GaugeSum /\ [Next]_vars => GaugeSum'
  <1> SUFFICES ASSUME IInv, GaugeSum, [Next]_vars PROVE GaugeSum'
    OBVIOUS
  <1> USE ProcsAssumption
  <1>P. Listener \in Procs /\ Restorer \in Procs /\ Requests \subseteq Procs
    BY DEF Procs
  <1>I. TypeOK /\ OwnInv /\ PhaseInv
    BY DEF IInv
  <1>T. gauge \in Int /\ Cardinality(Registered) \in Nat
    BY <1>I, RegisteredFinite DEF TypeOK, WorkerTypeOK
  <1>S. ASSUME UNCHANGED workers
        PROVE  Cardinality(Registered') = Cardinality(Registered) + 0
    BY <1>S, <1>T DEF Registered
  <1>1. ASSUME NEW p \in Procs, Continue(p) PROVE GaugeSum'
    <2>C. Caller(p) \in {"next", "ack", "idle"}
      BY DEF Caller
    <2>1. CASE CreateGateway(p) \/ Compensate(p) \/ StartUpdateStatus(p) \/ StopUpdateStatus(p)
      <3>1. \E x \in {"connect", "next", "ack", "idle"} : pc' = [pc EXCEPT ![p] = x]
        BY <2>1, <2>C DEF CreateGateway, Compensate, StartUpdateStatus, StopUpdateStatus, Enter, Return
      <3>2. pc[p] # "online" /\ pc[p] \notin Removing /\ UNCHANGED <<workers, gauge>>
        BY <2>1 DEF CreateGateway, Compensate, StartUpdateStatus, StopUpdateStatus, histVars, Removing
      <3> QED BY <1>I, <3>1, <3>2, GaugeSkip DEF Removing
    <2>2. CASE Connect(p) \/ SagaListSensors(p) \/ StartWorker(p) \/ StartCheck(p) \/ WorkerStart(p)
      <3>1. \E x \in {"sensors", "undo", "launch", "register", "start", "setOnline", "next", "ack", "idle"} :
              pc' = [pc EXCEPT ![p] = x]
        BY <2>2, <2>C DEF Connect, SagaListSensors, StartWorker, StartCheck, WorkerStart, Goto, Return
      <3>2. pc[p] # "online" /\ pc[p] \notin Removing /\ UNCHANGED <<workers, gauge>>
        BY <2>2 DEF Connect, SagaListSensors, StartWorker, StartCheck, WorkerStart, histVars, Removing
      <3> QED BY <1>I, <3>1, <3>2, GaugeSkip DEF Removing
    <2>3. CASE StopSwap(p) \/ StopClose(p) \/ DeleteSwap(p) \/ DeleteClose(p)
      <3>1. UNCHANGED <<workers, gauge>>
        BY <2>3 DEF StopSwap, StopClose, DeleteSwap, DeleteClose, WorkerStop, WorkerClose, histVars
      <3>2. CASE StopSwap(p) \/ StopClose(p)
        <4>1. pc[p] \in {"swap", "close"} /\ \E x \in {"close", "setOffline"} : pc' = [pc EXCEPT ![p] = x]
          BY <3>2 DEF StopSwap, StopClose, WorkerStop, WorkerClose, Goto
        <4> QED BY <1>I, <3>1, <4>1, GaugeSkip DEF Removing
      <3>3. CASE DeleteSwap(p) \/ DeleteClose(p)
        <4>1. pc[p] \in {"dswap", "dclose"} /\ \E x \in {"dclose", "dremove"} : pc' = [pc EXCEPT ![p] = x]
          BY <3>3 DEF DeleteSwap, DeleteClose, WorkerStop, WorkerClose, Goto
        <4> QED BY <1>I, <3>1, <4>1, GaugeSkip DEF Removing
      <3> QED BY <2>3, <3>2, <3>3
    <2>4. CASE Register(p)
      <3>1. /\ pc[p] = "register" /\ pc' = [pc EXCEPT ![p] = "online"]
            /\ UNCHANGED gauge
        BY <2>4 DEF Register, Goto
      <3>2. \A id \in Ids : id \in Registered' <=> id \in Registered \/ id = rid[p]
        BY <1>I, <2>4, OwnRegister DEF Register, storeVars, envVars, histVars
      <3>3. rid[p] \in Ids /\ rid[p] \notin Registered
        BY <1>I, <3>1 DEF TypeOK, ProcTypeOK, Resting, Responsible, OwnInv, Exclusive
      <3>4. Registered \in SUBSET Ids /\ IsFiniteSet(Registered)
        BY <1>I, RegisteredFinite
      <3>5. workers' = [workers EXCEPT ![gw[p]] = rid[p]]
        BY <2>4 DEF Register
      <3>6. Registered' \in SUBSET Ids
        BY <1>I, <3>3, <3>5 DEF Registered, TypeOK, WorkerTypeOK
      <3>7. Registered' = Registered \cup {rid[p]}
        BY <3>2, <3>3, <3>4, <3>6
      <3>8. Cardinality(Registered') = Cardinality(Registered) + 1
        BY <3>3, <3>4, <3>7, FS_AddElement
      <3>9. 0 + Is("online", {"online"}) + Is(pc[p], Removing) >=
              Is(pc[p], {"online"}) + 1 + Is("online", Removing)
        BY <3>1 DEF Is, Removing
      <3>10. gauge' = gauge + 0
        BY <1>T, <3>1
      <3>11. Balanced(p, "online", 0, 1)
        BY <3>1, <3>8, <3>9, <3>10 DEF Balanced
      <3> QED BY <1>I, <3>11, GaugeChange
    <2>5. CASE CountOnline(p)
      <3>1. /\ pc[p] = "online" /\ pc' = [pc EXCEPT ![p] = Caller(p)]
            /\ gauge' = gauge + 1 /\ UNCHANGED workers
        BY <2>5 DEF CountOnline, Return
      <3>2. 1 + Is(Caller(p), {"online"}) + Is(pc[p], Removing) >=
              Is(pc[p], {"online"}) + 0 + Is(Caller(p), Removing)
        BY <2>C, <3>1 DEF Is, Removing
      <3>3. Balanced(p, Caller(p), 1, 0)
        BY <1>S, <3>1, <3>2 DEF Balanced
      <3> QED BY <1>I, <3>3, GaugeChange
    <2>6. CASE DeleteRemove(p)
      <3>1. /\ pc[p] = "dremove" /\ pc' = [pc EXCEPT ![p] = Caller(p)] /\ UNCHANGED workers
            /\ \E d \in {-1, 0} : gauge' = gauge + d
        BY <1>T, <2>6 DEF DeleteRemove, Return
      <3>2. PICK d \in {-1, 0} : gauge' = gauge + d
        BY <3>1
      <3>3. d + Is(Caller(p), {"online"}) + Is(pc[p], Removing) >=
              Is(pc[p], {"online"}) + 0 + Is(Caller(p), Removing)
        BY <2>C, <3>1 DEF Is, Removing
      <3>4. Balanced(p, Caller(p), d, 0)
        BY <1>S, <3>1, <3>2, <3>3 DEF Balanced
      <3> QED BY <1>I, <3>4, GaugeChange
    <2> QED BY <1>1, <2>1, <2>2, <2>3, <2>4, <2>5, <2>6 DEF Continue
  <1>2. ASSUME NEW p \in Requests, NEW g \in Gateways,
               Onboard(p, g) \/ StartLookup(p, g) \/ StopLookup(p, g) \/ DeleteLookup(p, g)
        PROVE  GaugeSum'
    <2>1. p \in Procs \ {Restorer} /\ pc[p] = "idle"
      BY <1>2, <1>P DEF Onboard, StartLookup, StopLookup, DeleteLookup
    <2>2. CASE DeleteLookup(p, g)
      BY <1>I, <2>1, <2>2, GaugeRemove DEF DeleteLookup
    <2>3. CASE ~DeleteLookup(p, g)
      <3>1. \E x \in {"insert", "check", "swap"} : pc' = [pc EXCEPT ![p] = x]
        BY <1>2, <2>3 DEF Onboard, StartLookup, StopLookup, Enter
      <3>2. UNCHANGED <<workers, gauge>>
        BY <1>2, <2>3 DEF Onboard, StartLookup, StopLookup, histVars
      <3> QED BY <1>I, <2>1, <3>1, <3>2, GaugeSkip DEF Removing
    <2> QED BY <2>2, <2>3
  <1>3. CASE ListenerReceive
    <2>1. CASE RemoveWorker(Listener, Head(events).gw) /\ workers[Head(events).gw] # NoId
      <3>1. Head(events) \in [gw : Gateways, sameTenant : BOOLEAN]
        BY <1>I, <1>3, HeadTailType DEF ListenerReceive, TypeOK, EnvTypeOK
      <3>2. Head(events).gw \in Gateways /\ pc[Listener] = "idle"
        BY <1>3, <3>1 DEF ListenerReceive
      <3> QED BY <1>I, <1>P, <2>1, <3>2, GaugeRemove
    <2>2. CASE Goto(Listener, "ack") /\ UNCHANGED <<workers, gauge, histVars>>
      <3>1. pc' = [pc EXCEPT ![Listener] = "ack"] /\ pc[Listener] = "idle"
            /\ UNCHANGED <<workers, gauge>>
        BY <1>3, <2>2 DEF ListenerReceive, Goto, histVars
      <3> QED BY <1>I, <1>P, <3>1, GaugeSkip DEF Removing
    <2> QED BY <1>3, <2>1, <2>2 DEF ListenerReceive
  <1>4. CASE ListenerRemove
    <2>1. /\ pc[Listener] = "dremove" /\ pc' = [pc EXCEPT ![Listener] = "ack"]
          /\ gauge' = gauge - 1 /\ UNCHANGED workers
      BY <1>4 DEF ListenerRemove, Return, Caller
    <2>2. gauge' = gauge + (-1)
      BY <1>T, <2>1
    <2>3. (-1) + Is("ack", {"online"}) + Is(pc[Listener], Removing) >=
            Is(pc[Listener], {"online"}) + 0 + Is("ack", Removing)
      BY <2>1 DEF Is, Removing
    <2>4. Balanced(Listener, "ack", -1, 0)
      BY <1>S, <2>1, <2>2, <2>3 DEF Balanced
    <2> QED BY <1>I, <1>P, <2>4, GaugeChange
  <1>5. CASE ListenerAck \/ RestoreList \/ RestoreDone
    <2>1. PICK p \in {Listener, Restorer}, l \in {"idle", "next"} :
            pc' = [pc EXCEPT ![p] = l] /\ pc[p] \in {"ack", "list", "next"}
      BY <1>5 DEF ListenerAck, RestoreList, RestoreDone, Goto
    <2>2. UNCHANGED <<workers, gauge>>
      BY <1>5 DEF ListenerAck, RestoreList, RestoreDone, histVars
    <2> QED BY <1>I, <1>P, <2>1, <2>2, GaugeSkip DEF Removing
  <1>6. CASE RestoreListSensors \/ RestoreConnect \/ \E id \in Ids : RestoreNext(id)
    <2>1. \E x \in {"rsensors", "rconnect", "launch", "next"} : pc' = [pc EXCEPT ![Restorer] = x]
      BY <1>6 DEF RestoreNext, RestoreListSensors, RestoreConnect, Goto, Enter, Return, Caller
    <2>2. pc[Restorer] \in {"next", "rsensors", "rconnect"} /\ UNCHANGED <<workers, gauge>>
      BY <1>6 DEF RestoreNext, RestoreListSensors, RestoreConnect, histVars
    <2> QED BY <1>I, <1>P, <2>1, <2>2, GaugeSkip DEF Removing
  <1>7. CASE \/ \E p \in Requests : ClientLeaves(p)
             \/ \E g \in Gateways, t \in BOOLEAN : Decommission(g, t)
             \/ Subscribe \/ Drain \/ StopAll \/ UNCHANGED vars
    <2>1. UNCHANGED <<pc, workers, gauge>>
      BY <1>7 DEF ClientLeaves, Decommission, Subscribe, Drain, StopAll, vars, procVars
    <2> QED BY <2>1 DEF GaugeSum, Registered, Count
  <1>8. CASE Exit
    <2>1. /\ \A p \in Procs : pc'[p] = "idle"
          /\ \A g \in Gateways : workers'[g] = NoId
          /\ gauge' = 0
      BY <1>8 DEF Exit
    <2>2. Registered' = {}
      BY <2>1 DEF Registered
    <2>3. {q \in Procs : pc'[q] \in {"online"}} = {} /\ {q \in Procs : pc'[q] \in Removing} = {}
      BY <2>1 DEF Removing
    <2>4. Cardinality({}) = 0
      BY FS_EmptySet
    <2>5. Count(pc', {"online"}) = 0 /\ Count(pc', Removing) = 0 /\ Cardinality(Registered') = 0
      BY <2>2, <2>3, <2>4 DEF Count
    <2> QED BY <2>1, <2>5 DEF GaugeSum, Count, Removing
  <1>9. CASE Boot
    <2>1. /\ pc' = [pc EXCEPT ![Restorer] = IF RecoveryMode THEN "list" ELSE "idle"]
          /\ pc[Restorer] = "idle" /\ UNCHANGED <<workers, gauge>>
      BY <1>9, <1>I, <1>P DEF Boot, PhaseInv
    <2> QED BY <1>I, <1>P, <2>1, GaugeSkip DEF Removing
  <1> QED BY <1>1, <1>2, <1>3, <1>4, <1>5, <1>6, <1>7, <1>8, <1>9
          DEF Next, Request, Listen, Restore, Environment

\* The metric: up to the goroutines between two of its updates, the gauge never
\* falls short of the workers of the map, in whatever order gateways are created,
\* deleted, decommissioned and restored, and whichever of these steps fail.
THEOREM GaugeCounts == Spec => []GaugeNeverShort
  <1>1. Init => GaugeSum
    <2> SUFFICES ASSUME Init PROVE GaugeSum
      OBVIOUS
    <2>1. {q \in Procs : pc[q] \in {"online"}} = {} /\ {q \in Procs : pc[q] \in Removing} = {}
      BY DEF Init, Removing
    <2>2. Registered = {} /\ gauge = 0 /\ Cardinality({}) = 0
      BY FS_EmptySet DEF Init, Registered
    <2> QED BY <2>1, <2>2 DEF GaugeSum, Count
  <1> QED BY <1>1, RegistryInvariant, GaugeStep, GaugeIsSum, PTL DEF Spec

-----------------------------------------------------------------------------
(* The catalog.  What a step does to the stage of a row depends on the row,   *)
(* the map, the rows given up and the goroutines that work on it, so each     *)
(* action is first reduced to its effect on these.                            *)

Retires(p, id) == rid[p] = id /\ pc[p] \in Removing
Works(p, id)   == rid[p] = id /\ pc[p] \in ResponsibleLabels \ Removing

\* Rows given up are rows that were inserted, and nobody works on them any more
\* but to remove them; none is given up before RestoreAll has listed them.
CatInv ==
  /\ \A id \in abandoned : id < nextId /\ id \notin todo
  /\ \A p \in Procs, id \in Ids : Works(p, id) => id \notin abandoned
  /\ pc[Restorer] = "list" \/ phase = "down" => abandoned = {}

\* The effects: of a step that no client could notice,
Quiet ==
  /\ UNCHANGED <<rows, nextId, workers, abandoned>>
  /\ \A p \in Procs, id \in Ids : /\ Retires(p, id)' <=> Retires(p, id)
                                  /\ Works(p, id)' => Works(p, id) \/ id \in todo
  /\ todo' \subseteq todo \/ abandoned = {}
  /\ \/ phase' # "down" /\ pc'[Restorer] # "list"
     \/ phase = "down" \/ pc[Restorer] = "list"

\* of the steps that end p's work on a row, by giving it up or by deleting it,
Ends(p) ==
  /\ Return(p)
  /\ pc[p] \in ResponsibleLabels
  /\ UNCHANGED <<nextId, workers, todo, phase>>

Abandons(p) == Ends(p) /\ abandoned' = abandoned \cup {rid[p]} /\ UNCHANGED rows

Deletes(p) == Ends(p) /\ rows' = [rows EXCEPT ![rid[p]] = None] /\ UNCHANGED abandoned

\* of a step that inserts a row, puts its worker into the map or takes it out,
Inserts(p) ==
  /\ nextId \in Ids /\ gw[p] \in Gateways
  /\ \A id \in Ids : rows[id] # gw[p]
  /\ rows' = [rows EXCEPT ![nextId] = gw[p]]
  /\ nextId' = nextId + 1
  /\ pc[p] \notin Removing
  /\ pc' = [pc EXCEPT ![p] = "connect"] /\ rid' = [rid EXCEPT ![p] = nextId]
  /\ UNCHANGED <<workers, todo, phase, abandoned>>

Registers(p) ==
  /\ pc[p] = "register" /\ pc' = [pc EXCEPT ![p] = "online"]
  /\ workers' = [workers EXCEPT ![gw[p]] = rid[p]]
  /\ UNCHANGED <<rid, rows, nextId, todo, phase, abandoned>>

TakesOut(p, g) ==
  /\ workers[g] # NoId /\ workers' = [workers EXCEPT ![g] = NoId]
  /\ pc[p] \notin Removing
  /\ pc' = [pc EXCEPT ![p] = "dswap"] /\ rid' = [rid EXCEPT ![p] = workers[g]]
  /\ UNCHANGED <<rows, nextId, todo, phase, abandoned>>

\* and of a step of main that gives every row up.
AbandonsAll ==
  /\ \A g \in Gateways : workers[g] = NoId
  /\ \A p \in Procs : pc[p] \notin ResponsibleLabels /\ pc'[p] \notin ResponsibleLabels
  /\ abandoned = {} /\ abandoned' = Rows
  /\ todo = {} /\ todo' = {}
  /\ phase' # "down" /\ pc'[Restorer] # "list"
  /\ UNCHANGED <<rows, nextId, workers>>

Effect ==
  \/ Quiet \/ AbandonsAll \/ Exit
  \/ \E p \in Procs : Abandons(p) \/ Deletes(p) \/ Inserts(p) \/ Registers(p)
  \/ \E p \in Procs, g \in Gateways : TakesOut(p, g)

\* A goroutine that goes on with its row, or with none that it answers for.
LEMMA QuietMove ==
  ASSUME TypeOK, NEW p \in Procs, NEW x, pc' = [pc EXCEPT ![p] = x], x # "list",
         \/ /\ rid' = rid
            /\ pc[p] \in Removing <=> x \in Removing
            /\ x \in ResponsibleLabels => pc[p] \in ResponsibleLabels
         \/ /\ \E id : rid' = [rid EXCEPT ![p] = id]
            /\ pc[p] \notin Removing /\ x \notin ResponsibleLabels,
         UNCHANGED <<rows, nextId, workers, abandoned, phase>>,
         todo' \subseteq todo \/ abandoned = {}
  PROVE  Quiet
  <1>1. pc \in [Procs -> Labels] /\ rid \in [Procs -> Ids \cup {NoId}]
    BY DEF TypeOK, ProcTypeOK
  <1>2. Removing \subseteq ResponsibleLabels
    BY DEF Removing, ResponsibleLabels
  <1>3. \A q \in Procs, id \in Ids : /\ Retires(q, id)' <=> Retires(q, id)
                                     /\ Works(q, id)' => Works(q, id)
    BY <1>1, <1>2 DEF Retires, Works
  <1>4. pc'[Restorer] = "list" => pc[Restorer] = "list"
    BY <1>1 DEF Procs
  <1> QED BY <1>3, <1>4 DEF Quiet

\* Every step has one of the effects.
LEMMA Effects == IInv /\ CatInv /\ [Next]_vars => Effect
  <1> SUFFICES ASSUME IInv, CatInv, [Next]_vars PROVE Effect
    OBVIOUS
  <1> USE DEF procVars, storeVars, workerVars, envVars, histVars
  <1>P. Listener \in Procs /\ Restorer \in Procs /\ Requests \subseteq Procs
    BY DEF Procs
  <1>I. TypeOK /\ OwnInv /\ PhaseInv
    BY DEF IInv
  <1>R. \A p \in Procs : Caller(p) \notin ResponsibleLabels \cup {"list"}
    BY DEF Caller, ResponsibleLabels
  <1>L. Removing \subseteq ResponsibleLabels
    BY DEF Removing, ResponsibleLabels
  <1>1. ASSUME NEW p \in Procs, Continue(p) PROVE Effect
    <2>1. CASE CreateGateway(p)
      <3>1. CASE nextId <= MaxId /\ nextId' = nextId + 1
        <4>1. Inserts(p)
          <5>1. nextId \in Ids /\ gw[p] \in Gateways /\ pc[p] = "insert"
            BY <2>1, <3>1, <1>I, MaxIdAssumption DEF CreateGateway, TypeOK, StoreTypeOK,
               ProcTypeOK, Resting, Ids
          <5>2. /\ \A id \in Ids : rows[id] # gw[p]
                /\ rows' = [rows EXCEPT ![nextId] = gw[p]]
                /\ Enter(p, gw[p], nextId, "connect")
            BY <2>1, <3>1, <5>1, MaxIdAssumption DEF CreateGateway, Return, Ids
          <5> QED BY <2>1, <3>1, <5>1, <5>2 DEF CreateGateway, Enter, Inserts, Removing
        <4> QED BY <4>1 DEF Effect
      <3>2. CASE Return(p) /\ UNCHANGED <<rows, nextId>>
        <4>1. /\ pc' = [pc EXCEPT ![p] = Caller(p)] /\ rid' = [rid EXCEPT ![p] = NoId]
              /\ pc[p] = "insert" /\ UNCHANGED <<workers, abandoned, phase, todo>>
          BY <2>1, <3>2 DEF CreateGateway, Return
        <4>2. Quiet
          BY <4>1, <3>2, <1>I, <1>R, QuietMove DEF Removing
        <4> QED BY <4>2 DEF Effect
      <3> QED BY <2>1, <3>1, <3>2 DEF CreateGateway
    <2>2. CASE Compensate(p) \/ DeleteRemove(p)
      <3>1. Ends(p)
        BY <2>2 DEF Compensate, DeleteRemove, Ends, ResponsibleLabels, DeleteRow
      <3>2. Deletes(p) \/ Abandons(p)
        BY <2>2, <3>1 DEF Compensate, DeleteRemove, DeleteRow, Deletes, Abandons
      <3> QED BY <3>2 DEF Effect
    <2>3. CASE Register(p)
      <3>1. Registers(p)
        BY <2>3 DEF Register, Registers, Goto
      <3> QED BY <3>1 DEF Effect
    <2>4. CASE CountOnline(p) \/ StartUpdateStatus(p) \/ StopUpdateStatus(p)
      <3>1. /\ pc' = [pc EXCEPT ![p] = Caller(p)] /\ rid' = [rid EXCEPT ![p] = NoId]
            /\ pc[p] \in {"online", "setOnline", "setOffline"}
            /\ UNCHANGED <<rows, nextId, workers, abandoned, phase, todo>>
        BY <2>4 DEF CountOnline, StartUpdateStatus, StopUpdateStatus, Return
      <3>2. Quiet
        BY <3>1, <1>I, <1>R, QuietMove DEF Removing
      <3> QED BY <3>2 DEF Effect
    <2>5. CASE StartCheck(p)
      <3>1. /\ \/ pc' = [pc EXCEPT ![p] = Caller(p)] /\ rid' = [rid EXCEPT ![p] = NoId]
               \/ pc' = [pc EXCEPT ![p] = "start"] /\ rid' = rid
            /\ pc[p] = "check"
            /\ UNCHANGED <<rows, nextId, workers, abandoned, phase, todo>>
        BY <2>5 DEF StartCheck, Return, Goto
      <3>2. Quiet
        BY <3>1, <1>I, <1>R, QuietMove DEF Removing, ResponsibleLabels
      <3> QED BY <3>2 DEF Effect
    <2>6. CASE Connect(p) \/ SagaListSensors(p) \/ StartWorker(p)
      <3>1. /\ \E x \in {"sensors", "undo", "launch", "register"} : pc' = [pc EXCEPT ![p] = x]
            /\ rid' = rid /\ pc[p] \in {"connect", "sensors", "launch"}
            /\ UNCHANGED <<rows, nextId, workers, abandoned, phase, todo>>
        BY <2>6 DEF Connect, SagaListSensors, StartWorker, Goto
      <3>2. Quiet
        BY <3>1, <1>I, QuietMove DEF Removing, ResponsibleLabels
      <3> QED BY <3>2 DEF Effect
    <2>7. CASE WorkerStart(p) \/ StopSwap(p) \/ StopClose(p)
      <3>1. /\ \E x \in {"setOnline", "close", "setOffline"} : pc' = [pc EXCEPT ![p] = x]
            /\ rid' = rid /\ pc[p] \in {"start", "swap", "close"}
            /\ UNCHANGED <<rows, nextId, workers, abandoned, phase, todo>>
        BY <2>7 DEF WorkerStart, StopSwap, StopClose, WorkerStop, WorkerClose, Goto
      <3>2. Quiet
        BY <3>1, <1>I, QuietMove DEF Removing, ResponsibleLabels
      <3> QED BY <3>2 DEF Effect
    <2>8. CASE DeleteSwap(p) \/ DeleteClose(p)
      <3>1. /\ \E x \in {"dclose", "dremove"} : pc' = [pc EXCEPT ![p] = x]
            /\ rid' = rid /\ pc[p] \in {"dswap", "dclose"}
            /\ UNCHANGED <<rows, nextId, workers, abandoned, phase, todo>>
        BY <2>8 DEF DeleteSwap, DeleteClose, WorkerStop, WorkerClose, Goto
      <3>2. Quiet
        BY <3>1, <1>I, QuietMove DEF Removing, ResponsibleLabels
      <3> QED BY <3>2 DEF Effect
    <2> QED BY <1>1, <2>1, <2>2, <2>3, <2>4, <2>5, <2>6, <2>7, <2>8 DEF Continue
  <1>2. ASSUME NEW p \in Requests, NEW g \in Gateways,
               Onboard(p, g) \/ StartLookup(p, g) \/ StopLookup(p, g)
        PROVE  Effect
    <2>1. /\ \E x \in {"insert", "check", "swap"} : pc' = [pc EXCEPT ![p] = x]
          /\ \E id : rid' = [rid EXCEPT ![p] = id]
          /\ pc[p] = "idle"
          /\ UNCHANGED <<rows, nextId, workers, abandoned, phase, todo>>
      BY <1>2 DEF Onboard, StartLookup, StopLookup, Enter
    <2>2. Quiet
      BY <2>1, <1>I, <1>P, QuietMove DEF Removing, ResponsibleLabels
    <2> QED BY <2>2 DEF Effect
  <1>3. ASSUME NEW p \in Requests, NEW g \in Gateways, DeleteLookup(p, g) PROVE Effect
    <2>1. TakesOut(p, g)
      BY <1>3 DEF DeleteLookup, RemoveWorker, Enter, TakesOut, Removing
    <2> QED BY <2>1, <1>P DEF Effect
  <1>4. CASE ListenerReceive
    <2>1. CASE RemoveWorker(Listener, Head(events).gw) /\ workers[Head(events).gw] # NoId
      <3>1. Head(events) \in [gw : Gateways, sameTenant : BOOLEAN]
        BY <1>I, <1>4, HeadTailType DEF ListenerReceive, TypeOK, EnvTypeOK
      <3>2. TakesOut(Listener, Head(events).gw)
        BY <1>4, <2>1 DEF ListenerReceive, RemoveWorker, Enter, TakesOut, Removing
      <3> QED BY <3>1, <3>2, <1>P DEF Effect
    <2>2. CASE Goto(Listener, "ack") /\ UNCHANGED <<storeVars, workers, envVars, histVars>>
      <3>1. /\ pc' = [pc EXCEPT ![Listener] = "ack"] /\ rid' = rid /\ pc[Listener] = "idle"
            /\ UNCHANGED <<rows, nextId, workers, abandoned, phase, todo>>
        BY <1>4, <2>2 DEF ListenerReceive, Goto
      <3>2. Quiet
        BY <3>1, <1>I, <1>P, QuietMove DEF Removing, ResponsibleLabels
      <3> QED BY <3>2 DEF Effect
    <2> QED BY <1>4, <2>1, <2>2 DEF ListenerReceive
  <1>5. CASE ListenerRemove
    <2>1. Ends(Listener)
      BY <1>5 DEF ListenerRemove, Ends, ResponsibleLabels, DeleteRow
    <2>2. Deletes(Listener) \/ Abandons(Listener)
      BY <1>5, <2>1 DEF ListenerRemove, DeleteRow, Deletes, Abandons
    <2> QED BY <2>2, <1>P DEF Effect
  <1>6. CASE ListenerAck
    <2>1. /\ pc' = [pc EXCEPT ![Listener] = "idle"] /\ rid' = rid /\ pc[Listener] = "ack"
          /\ UNCHANGED <<rows, nextId, workers, abandoned, phase, todo>>
      BY <1>6 DEF ListenerAck, Goto
    <2>2. Quiet
      BY <2>1, <1>I, <1>P, QuietMove DEF Removing, ResponsibleLabels
    <2> QED BY <2>2 DEF Effect
  <1>7. CASE RestoreList
    <2>1. /\ pc[Restorer] = "list" /\ pc' = [pc EXCEPT ![Restorer] = "next"] /\ rid' = rid
          /\ UNCHANGED <<rows, nextId, workers, phase>>
      BY <1>7 DEF RestoreList, Goto
    <2>2. abandoned = {}
      BY <2>1 DEF CatInv
    <2>3. CASE UNCHANGED abandoned
      <3>1. Quiet
        BY <2>1, <2>2, <2>3, <1>I, <1>P, QuietMove DEF Removing, ResponsibleLabels
      <3> QED BY <3>1 DEF Effect
    <2>4. CASE abandoned' = Rows /\ UNCHANGED todo
      <3>1. /\ \A g \in Gateways : workers[g] = NoId
            /\ \A p \in Procs : pc[p] \in {"idle", "ack", "list"}
        BY <1>I, <2>1 DEF OwnInv, AtList
      <3>2. pc'[Restorer] = "next" /\ \A p \in Procs : pc'[p] \in {"idle", "ack", "next", "list"}
        BY <1>I, <1>P, <2>1, <3>1 DEF TypeOK, ProcTypeOK
      <3>3. todo = {} /\ phase # "down"
        BY <1>I, <1>P, <2>1 DEF PhaseInv
      <3>4. AbandonsAll
        BY <2>1, <2>2, <2>4, <3>1, <3>2, <3>3 DEF AbandonsAll, ResponsibleLabels
      <3> QED BY <3>4 DEF Effect
    <2> QED BY <1>7, <2>3, <2>4 DEF RestoreList
  <1>8. ASSUME NEW id \in Ids, RestoreNext(id) PROVE Effect
    <2>1. /\ pc' = [pc EXCEPT ![Restorer] = "rsensors"] /\ rid' = [rid EXCEPT ![Restorer] = id]
          /\ pc[Restorer] = "next" /\ id \in todo /\ todo' \subseteq todo
          /\ UNCHANGED <<rows, nextId, workers, abandoned, phase>>
      BY <1>8 DEF RestoreNext, Enter
    <2>2. \A q \in Procs, t \in Ids : /\ Retires(q, t)' <=> Retires(q, t)
                                      /\ Works(q, t)' => Works(q, t) \/ t \in todo
      BY <2>1, <1>I, <1>P DEF Retires, Works, Removing, TypeOK, ProcTypeOK
    <2>3. pc'[Restorer] # "list"
      BY <2>1, <1>I, <1>P DEF TypeOK, ProcTypeOK
    <2>4. Quiet
      BY <2>1, <2>2, <2>3 DEF Quiet
    <2> QED BY <2>4 DEF Effect
  <1>9. CASE RestoreListSensors \/ RestoreConnect
    <2>1. CASE \E x \in {"rconnect", "launch"} : Goto(Restorer, x) /\ UNCHANGED abandoned
      <3>1. /\ \E x \in {"rconnect", "launch"} : pc' = [pc EXCEPT ![Restorer] = x]
            /\ rid' = rid /\ pc[Restorer] \in {"rsensors", "rconnect"}
            /\ UNCHANGED <<rows, nextId, workers, abandoned, phase, todo>>
        BY <1>9, <2>1 DEF RestoreListSensors, RestoreConnect, Goto
      <3>2. Quiet
        BY <3>1, <1>I, <1>P, QuietMove DEF Removing, ResponsibleLabels
      <3> QED BY <3>2 DEF Effect
    <2>2. CASE Return(Restorer) /\ abandoned' = abandoned \cup {rid[Restorer]}
      <3>1. Abandons(Restorer)
        BY <1>9, <2>2 DEF RestoreListSensors, RestoreConnect, Abandons, Ends, ResponsibleLabels
      <3> QED BY <3>1, <1>P DEF Effect
    <2> QED BY <1>9, <2>1, <2>2 DEF RestoreListSensors, RestoreConnect
  <1>10. CASE RestoreDone
    <2>1. /\ pc' = [pc EXCEPT ![Restorer] = "idle"] /\ rid' = rid /\ pc[Restorer] = "next"
          /\ phase' = "up" /\ UNCHANGED <<rows, nextId, workers, abandoned, todo>>
      BY <1>10 DEF RestoreDone, Goto
    <2>2. \A q \in Procs, t \in Ids : /\ Retires(q, t)' <=> Retires(q, t)
                                      /\ Works(q, t)' => Works(q, t)
      BY <2>1, <1>I, <1>P DEF Retires, Works, Removing, ResponsibleLabels, TypeOK, ProcTypeOK
    <2>3. pc'[Restorer] # "list"
      BY <2>1, <1>I, <1>P DEF TypeOK, ProcTypeOK
    <2>4. Quiet
      BY <2>1, <2>2, <2>3 DEF Quiet
    <2> QED BY <2>4 DEF Effect
  <1>11. CASE \/ \E p \in Requests : ClientLeaves(p)
              \/ \E g \in Gateways, t \in BOOLEAN : Decommission(g, t)
              \/ Subscribe \/ Drain \/ UNCHANGED vars
    <2>1. UNCHANGED <<pc, rid, rows, nextId, workers, abandoned, phase, todo>>
      BY <1>11 DEF ClientLeaves, Decommission, Subscribe, Drain, vars
    <2>2. Quiet
      BY <2>1 DEF Quiet, Retires, Works
    <2> QED BY <2>2 DEF Effect
  <1>12. CASE StopAll
    <2>1. phase' = "stopping" /\ phase = "up"
          /\ UNCHANGED <<pc, rid, rows, nextId, workers, abandoned, todo>>
      BY <1>12 DEF StopAll
    <2>2. Quiet
      BY <2>1 DEF Quiet, Retires, Works
    <2> QED BY <2>2 DEF Effect
  <1>13. CASE Boot
    <2>1. /\ phase = "down" /\ phase' # "down"
          /\ pc' = [pc EXCEPT ![Restorer] = IF RecoveryMode THEN "list" ELSE "idle"]
          /\ abandoned' = IF RecoveryMode THEN {} ELSE Rows
          /\ UNCHANGED <<rid, rows, nextId, workers, todo>>
      BY <1>13 DEF Boot
    <2>2. /\ \A p \in Procs : pc[p] = "idle"
          /\ \A g \in Gateways : workers[g] = NoId
          /\ todo = {} /\ abandoned = {}
      BY <1>I, <1>P, <2>1 DEF PhaseInv, CatInv
    <2>3. \A p \in Procs : pc'[p] \in {"idle", IF RecoveryMode THEN "list" ELSE "idle"}
      BY <1>I, <2>1, <2>2 DEF TypeOK, ProcTypeOK
    <2>4. CASE RecoveryMode
      <3>1. Quiet
        BY <2>1, <2>2, <2>3, <2>4 DEF Quiet, Retires, Works, Removing, ResponsibleLabels
      <3> QED BY <3>1 DEF Effect
    <2>5. CASE ~RecoveryMode
      <3>1. AbandonsAll
        BY <1>P, <2>1, <2>2, <2>3, <2>5 DEF AbandonsAll, ResponsibleLabels
      <3> QED BY <3>1 DEF Effect
    <2> QED BY <2>4, <2>5
  <1>14. CASE Exit
    BY <1>14 DEF Effect
  <1> QED BY <1>1, <1>2, <1>3, <1>4, <1>5, <1>6, <1>7, <1>8, <1>9, <1>10, <1>11, <1>12, <1>13, <1>14
          DEF Next, Request, Listen, Restore, Environment

\* Ends and the moves of one goroutine, in terms of who works on which row.
LEMMA EndsWork ==
  ASSUME TypeOK, OwnInv, NEW p \in Procs, Ends(p)
  PROVE  /\ rid[p] \in Ids /\ rows[rid[p]] = gw[p] /\ gw[p] \in Gateways
         /\ rid[p] \notin Registered /\ rid[p] \notin todo /\ rid[p] < nextId
         /\ Retires(p, rid[p]) \/ Works(p, rid[p])
         /\ \A q \in Procs : q # p => ~Retires(q, rid[p]) /\ ~Works(q, rid[p])
         /\ \A id \in Ids : ~Retires(p, id)' /\ ~Works(p, id)'
         /\ \A q \in Procs, id \in Ids : q # p => /\ Retires(q, id)' <=> Retires(q, id)
                                                  /\ Works(q, id)' <=> Works(q, id)
         /\ pc[p] # "list" /\ pc'[p] # "list" /\ pc[p] # "idle"
         /\ pc'[Restorer] = "list" => pc[Restorer] = "list"
  <1>1. pc \in [Procs -> Labels] /\ rid \in [Procs -> Ids \cup {NoId}] /\ rid[p] \in Ids
        /\ gw[p] \in Gateways
    BY DEF Ends, TypeOK, ProcTypeOK, ResponsibleLabels, Resting
  <1>2. Removing \subseteq ResponsibleLabels /\ Caller(p) \notin ResponsibleLabels \cup {"list"}
        /\ "list" \notin ResponsibleLabels /\ "idle" \notin ResponsibleLabels
    BY DEF Removing, ResponsibleLabels, Caller
  <1>3. \A q \in Procs, id \in Ids : Responsible(q, id) <=> Retires(q, id) \/ Works(q, id)
    BY <1>2 DEF Responsible, Retires, Works, ResponsibleLabels
  <1>4. pc[p] \in ResponsibleLabels /\ pc' = [pc EXCEPT ![p] = Caller(p)]
        /\ rid' = [rid EXCEPT ![p] = NoId]
    BY DEF Ends, Return
  <1>5. Responsible(p, rid[p])
    BY <1>4 DEF Responsible, ResponsibleLabels
  <1>6. /\ rows[rid[p]] = gw[p] /\ rid[p] \notin Registered /\ rid[p] \notin todo
        /\ rid[p] < nextId
        /\ \A q \in Procs : q # p => ~Responsible(q, rid[p])
    BY <1>1, <1>5 DEF OwnInv, Exclusive, Fresh
  <1>7. \A id \in Ids : ~Retires(p, id)' /\ ~Works(p, id)'
    BY <1>1, <1>2, <1>4 DEF Retires, Works
  <1>8. \A q \in Procs, id \in Ids : q # p => /\ Retires(q, id)' <=> Retires(q, id)
                                              /\ Works(q, id)' <=> Works(q, id)
    BY <1>1, <1>4 DEF Retires, Works
  <1>9. pc'[p] # "list" /\ (pc'[Restorer] = "list" => pc[Restorer] = "list")
    BY <1>1, <1>2, <1>4 DEF Procs
  <1> QED BY <1>1, <1>2, <1>3, <1>4, <1>5, <1>6, <1>7, <1>8, <1>9

\* The steps of the saga, of startWorker and of a removal move one goroutine.
LEMMA OneMoves ==
  ASSUME TypeOK, NEW p \in Procs, NEW x, pc' = [pc EXCEPT ![p] = x], x # "list",
         rid' = rid \/ \E id : rid' = [rid EXCEPT ![p] = id]
  PROVE  /\ \A q \in Procs, id \in Ids : q # p => /\ Retires(q, id)' <=> Retires(q, id)
                                                  /\ Works(q, id)' <=> Works(q, id)
         /\ pc'[p] = x
         /\ pc'[Restorer] = "list" => pc[Restorer] = "list"
  BY DEF TypeOK, ProcTypeOK, Retires, Works, Procs

\* The rows given up stay as CatInv says.
LEMMA CatStep == IInv /\ CatInv /\ [Next]_vars => CatInv'
  <1> SUFFICES ASSUME IInv, CatInv, Effect PROVE CatInv'
    BY Effects
  <1>I. TypeOK /\ OwnInv /\ PhaseInv /\ abandoned \subseteq Ids
    BY DEF IInv, TypeOK, HistTypeOK
  <1>P. Listener \in Procs /\ Restorer \in Procs /\ Requests \subseteq Procs
    BY DEF Procs
  <1>N. nextId \in Int
    BY <1>I DEF TypeOK, StoreTypeOK
  <1>1. CASE Quiet
    <2>1. \A id \in abandoned : id \notin todo'
      BY <1>1 DEF Quiet, CatInv
    <2>2. \A p \in Procs, id \in Ids : Works(p, id)' => id \notin abandoned
      BY <1>1 DEF Quiet, CatInv
    <2>3. pc'[Restorer] = "list" \/ phase' = "down" => abandoned = {}
      BY <1>1 DEF Quiet, CatInv
    <2> QED BY <1>1, <2>1, <2>2, <2>3 DEF Quiet, CatInv
  <1>2. CASE AbandonsAll
    <2>1. \A id \in abandoned' : id < nextId'
      BY <1>2, <1>I DEF AbandonsAll, Rows, OwnInv, Fresh
    <2>2. \A p \in Procs, id \in Ids : ~Works(p, id)'
      BY <1>2 DEF AbandonsAll, Works
    <2> QED BY <1>2, <2>1, <2>2 DEF AbandonsAll, CatInv
  <1>3. CASE Exit
    <2>1. abandoned' = {}
      BY <1>3 DEF Exit
    <2> QED BY <2>1 DEF CatInv
  <1>4. ASSUME NEW p \in Procs, Abandons(p) PROVE CatInv'
    <2>1. Ends(p) /\ abandoned' = abandoned \cup {rid[p]} /\ UNCHANGED <<nextId, todo, phase>>
      BY <1>4 DEF Abandons, Ends
    <2>2. phase # "down" /\ pc[Restorer] # "list"
      BY <2>1, <1>I, EndsWork DEF PhaseInv, OwnInv, AtList, Ends, ResponsibleLabels
    <2>3. pc'[Restorer] # "list"
      BY <2>1, <2>2, <1>I, EndsWork
    <2>4. \A id \in abandoned' : id < nextId' /\ id \notin todo'
      BY <2>1, <1>I, EndsWork DEF CatInv
    <2>5. \A q \in Procs, id \in Ids : Works(q, id)' => id \notin abandoned'
      BY <2>1, <1>I, EndsWork DEF CatInv
    <2> QED BY <2>1, <2>2, <2>3, <2>4, <2>5 DEF CatInv
  <1>5. ASSUME NEW p \in Procs, Deletes(p) PROVE CatInv'
    <2>1. Ends(p) /\ UNCHANGED <<nextId, todo, phase, abandoned>>
      BY <1>5 DEF Deletes, Ends
    <2>2. \A q \in Procs, id \in Ids : Works(q, id)' => id \notin abandoned
      BY <2>1, <1>I, EndsWork DEF CatInv
    <2>3. pc'[Restorer] = "list" => pc[Restorer] = "list"
      BY <2>1, <1>I, EndsWork
    <2> QED BY <2>1, <2>2, <2>3 DEF CatInv
  <1>6. ASSUME NEW p \in Procs, Inserts(p) PROVE CatInv'
    <2>1. /\ pc' = [pc EXCEPT ![p] = "connect"] /\ rid' = [rid EXCEPT ![p] = nextId]
          /\ nextId' = nextId + 1 /\ UNCHANGED <<todo, phase, abandoned>>
      BY <1>6 DEF Inserts
    <2>2. \A id \in abandoned : id < nextId' /\ id # nextId
      BY <2>1, <1>I, <1>N DEF CatInv, Ids
    <2>3. \A id \in Ids : Works(p, id)' => id = nextId
      BY <2>1, <1>I DEF Works, TypeOK, ProcTypeOK
    <2>4. \A q \in Procs, id \in Ids : Works(q, id)' => id \notin abandoned
      BY <2>1, <2>2, <2>3, <1>I, OneMoves DEF CatInv
    <2>5. pc'[Restorer] = "list" => pc[Restorer] = "list"
      BY <2>1, <1>I, OneMoves
    <2> QED BY <2>1, <2>2, <2>4, <2>5 DEF CatInv
  <1>7. ASSUME NEW p \in Procs, NEW g \in Gateways, Registers(p) \/ TakesOut(p, g)
        PROVE  CatInv'
    <2>1. /\ \E x \in {"online", "dswap"} : pc' = [pc EXCEPT ![p] = x]
          /\ rid' = rid \/ \E id : rid' = [rid EXCEPT ![p] = id]
          /\ UNCHANGED <<nextId, todo, phase, abandoned>>
      BY <1>7 DEF Registers, TakesOut
    <2>2. \A id \in Ids : ~Works(p, id)'
      BY <2>1, <1>I DEF Works, ResponsibleLabels, Removing, TypeOK, ProcTypeOK
    <2>3. \A q \in Procs, id \in Ids : Works(q, id)' => id \notin abandoned
      BY <2>1, <2>2, <1>I, OneMoves DEF CatInv
    <2>4. pc'[Restorer] = "list" => pc[Restorer] = "list"
      BY <2>1, <1>I, OneMoves
    <2> QED BY <2>1, <2>3, <2>4 DEF CatInv
  <1>8. ASSUME NEW p \in Procs, Registers(p) PROVE CatInv'
    <2>1. gw[p] \in Gateways
      BY <1>8, <1>I DEF Registers, TypeOK, ProcTypeOK, Resting
    <2> QED BY <1>7, <1>8, <2>1
  <1> QED BY <1>1, <1>2, <1>3, <1>4, <1>5, <1>6, <1>7, <1>8 DEF Effect

-----------------------------------------------------------------------------
(* Each effect as an action of the catalog *)

Stages == [id \in Ids |-> Stage(id)]

\* The actions of the catalog, over the variables that implement it.
LEMMA CatalogActions ==
  /\ \A id \in Ids, g \in Gateways :
       /\ Stages[id] = "new" /\ \A other \in Ids : rows[other] # g
       /\ Stages' = [Stages EXCEPT ![id] = "stored"] /\ rows' = [rows EXCEPT ![id] = g]
       => Catalog!Store(id, g)
  /\ \A id \in Ids :
       /\ Stages[id] = "stored" /\ Stages' = [Stages EXCEPT ![id] = "served"]
       /\ UNCHANGED rows
       => Catalog!Serve(id)
  /\ \A id \in Ids :
       /\ Stages[id] = "served" /\ Stages' = [Stages EXCEPT ![id] = "retired"]
       /\ UNCHANGED rows
       => Catalog!Retire(id)
  /\ \A S \in SUBSET Ids :
       /\ \A id \in S : Stages[id] = "stored"
       /\ Stages' = [id \in Ids |-> IF id \in S THEN "retired" ELSE Stages[id]]
       /\ UNCHANGED rows
       => Catalog!GiveUp(S)
  /\ \A id \in Ids :
       /\ Stages[id] \in {"stored", "retired"}
       /\ Stages' = [Stages EXCEPT ![id] = "removed"] /\ rows' = [rows EXCEPT ![id] = None]
       => Catalog!Remove(id)
  /\ /\ Stages' = [id \in Ids |-> IF Stages[id] \in {"served", "retired"} THEN "stored"
                                  ELSE Stages[id]]
     /\ UNCHANGED rows
     => Catalog!Restart
  /\ UNCHANGED <<Stages, rows>> => UNCHANGED Catalog!vars
  BY DEF Stages, Catalog!Store, Catalog!Serve, Catalog!Retire, Catalog!GiveUp, Catalog!Remove,
     Catalog!Restart, Catalog!vars

\* The stage of a row that a step does not touch.
LEMMA StageDef ==
  ASSUME NEW id \in Ids
  PROVE  Stages[id] = IF id >= nextId THEN "new"
                      ELSE IF rows[id] = None THEN "removed"
                      ELSE IF \E g \in Gateways : workers[g] = id THEN "served"
                      ELSE IF id \in abandoned \/ \E p \in Procs : Retires(p, id) THEN "retired"
                      ELSE "stored"
  BY RegisteredDef DEF Stages, Stage, Retiring, Retires, Removing

\* The same of the state after a step.
LEMMA StageDefPrime ==
  ASSUME NEW id \in Ids
  PROVE  Stages'[id] = IF id >= nextId' THEN "new"
                       ELSE IF rows'[id] = None THEN "removed"
                       ELSE IF \E g \in Gateways : workers'[g] = id THEN "served"
                       ELSE IF id \in abandoned' \/ \E p \in Procs : Retires(p, id)' THEN "retired"
                       ELSE "stored"
  BY RegisteredDefPrime DEF Stages, Stage, Retiring, Retires, Removing

\* Every step of the registry is a step of the catalog or goes unnoticed there.
LEMMA CatalogStep ==
  ASSUME IInv, CatInv, [Next]_vars
  PROVE  [Catalog!Next]_(Catalog!vars)
  <1>E. Effect
    BY Effects
  <1>I. TypeOK /\ OwnInv /\ PhaseInv
    BY DEF IInv
  <1>N. nextId \in Int /\ Ids \subseteq Int /\ DOMAIN rows = Ids
        /\ workers \in [Gateways -> Ids \cup {NoId}] /\ NoId \notin Ids
    BY <1>I, MaxIdAssumption DEF TypeOK, StoreTypeOK, WorkerTypeOK, Ids, NoId
  <1>O. \A id \in Ids : id < nextId <=> ~(id >= nextId)
    BY <1>N
  <1>F. Stages = [id \in Ids |-> Stages[id]] /\ Stages' = [id \in Ids |-> Stages'[id]]
    BY DEF Stages
  <1>G. \A g \in Gateways : g # None
    BY NoneAssumption
  <1>1. CASE Quiet
    <2>1. \A id \in Ids : Stages'[id] = Stages[id]
      BY <1>1, StageDef, StageDefPrime DEF Quiet
    <2>2. UNCHANGED Catalog!vars
      BY <1>1, <1>F, <2>1, CatalogActions DEF Quiet
    <2> QED BY <2>2
  <1>2. CASE AbandonsAll
    <2>1. \A p \in Procs, id \in Ids : ~Retires(p, id) /\ ~Retires(p, id)'
      BY <1>2 DEF AbandonsAll, Retires, Removing, ResponsibleLabels
    <2>2. \A id \in Rows : rows[id] # None /\ id < nextId
      BY <1>I DEF OwnInv, Fresh, Rows
    <2>3. \A id \in Rows : Stages[id] = "stored" /\ Stages'[id] = "retired"
      BY <1>2, <1>N, <2>1, <2>2, StageDef, StageDefPrime DEF AbandonsAll, Rows
    <2>4. \A id \in Ids \ Rows : Stages'[id] = Stages[id]
      BY <1>2, <2>1, StageDef, StageDefPrime DEF AbandonsAll, Rows
    <2>5. Stages' = [id \in Ids |-> IF id \in Rows THEN "retired" ELSE Stages[id]]
      BY <1>F, <2>3, <2>4
    <2>6. Rows \in SUBSET Ids /\ UNCHANGED rows
      BY <1>2 DEF Rows, AbandonsAll
    <2>7. Catalog!GiveUp(Rows)
      BY <2>3, <2>5, <2>6, CatalogActions
    <2> QED BY <2>6, <2>7 DEF Catalog!Next
  <1>3. CASE Exit
    <2>1. /\ \A g \in Gateways : workers'[g] = NoId
          /\ abandoned' = {} /\ UNCHANGED <<rows, nextId>>
          /\ \A p \in Procs : pc'[p] = "idle"
      BY <1>3 DEF Exit, storeVars
    <2>2. \A p \in Procs, id \in Ids : ~Retires(p, id)'
      BY <2>1 DEF Retires, Removing
    <2>3. \A id \in Ids : Stages'[id] = IF Stages[id] \in {"served", "retired"} THEN "stored"
                                        ELSE Stages[id]
      BY <1>N, <2>1, <2>2, StageDef, StageDefPrime
    <2>4. Catalog!Restart
      BY <1>F, <2>1, <2>3, CatalogActions
    <2> QED BY <2>4 DEF Catalog!Next
  <1>4. ASSUME NEW p \in Procs, Abandons(p) PROVE [Catalog!Next]_(Catalog!vars)
    <2> DEFINE t == rid[p]
    <2>1. Ends(p) /\ abandoned' = abandoned \cup {t} /\ UNCHANGED <<rows, nextId, workers>>
      BY <1>4 DEF Abandons, Ends
    <2>2. /\ t \in Ids /\ rows[t] # None /\ t < nextId /\ \A g \in Gateways : workers[g] # t
          /\ Retires(p, t) \/ Works(p, t)
          /\ \A q \in Procs : q # p => ~Retires(q, t)
      BY <1>I, <1>G, <2>1, EndsWork, RegisteredDef
    <2>3. \A q \in Procs, id \in Ids : id # t => (Retires(q, id)' <=> Retires(q, id))
      BY <1>I, <2>1, EndsWork DEF Retires
    <2>4. \A id \in Ids : id # t => Stages'[id] = Stages[id]
      BY <2>1, <2>3, StageDef, StageDefPrime
    <2>5. Stages'[t] = "retired"
      BY <1>O, <2>1, <2>2, StageDefPrime
    <2>6. CASE Retires(p, t)
      <3>1. Stages[t] = "retired"
        BY <1>O, <2>2, <2>6, StageDef
      <3>2. Stages' = Stages
        BY <1>F, <2>4, <2>5, <3>1
      <3> QED BY <2>1, <3>2, CatalogActions
    <2>7. CASE ~Retires(p, t)
      <3>1. t \notin abandoned /\ \A q \in Procs : ~Retires(q, t)
        BY <2>2, <2>7 DEF CatInv
      <3>2. Stages[t] = "stored"
        BY <1>O, <2>2, <3>1, StageDef
      <3>3. Stages' = [id \in Ids |-> IF id \in {t} THEN "retired" ELSE Stages[id]]
        BY <1>F, <2>4, <2>5
      <3>4. {t} \in SUBSET Ids /\ \A id \in {t} : Stages[id] = "stored"
        BY <2>2, <3>2
      <3>5. Catalog!GiveUp({t})
        BY <2>1, <3>3, <3>4, CatalogActions
      <3> QED BY <3>4, <3>5 DEF Catalog!Next
    <2> QED BY <2>6, <2>7
  <1>5. ASSUME NEW p \in Procs, Deletes(p) PROVE [Catalog!Next]_(Catalog!vars)
    <2> DEFINE t == rid[p]
    <2>1. /\ Ends(p) /\ rows' = [rows EXCEPT ![t] = None]
          /\ UNCHANGED <<nextId, workers, abandoned>>
      BY <1>5 DEF Deletes, Ends
    <2>2. /\ t \in Ids /\ rows[t] # None /\ t < nextId /\ \A g \in Gateways : workers[g] # t
      BY <1>I, <1>G, <2>1, EndsWork, RegisteredDef
    <2>3. \A q \in Procs, id \in Ids : id # t => (Retires(q, id)' <=> Retires(q, id))
      BY <1>I, <2>1, EndsWork DEF Retires
    <2>4. \A id \in Ids : id # t => Stages'[id] = Stages[id]
      BY <1>N, <2>1, <2>3, StageDef, StageDefPrime
    <2>5. Stages'[t] = "removed" /\ Stages[t] \in {"stored", "retired"}
      <3>1. rows'[t] = None
        BY <1>N, <2>1, <2>2
      <3>2. Stages'[t] = "removed"
        BY <1>O, <2>1, <2>2, <3>1, StageDefPrime
      <3>3. Stages[t] \in {"stored", "retired"}
        BY <1>O, <2>2, StageDef
      <3> QED BY <3>2, <3>3
    <2>6. Stages' = [Stages EXCEPT ![t] = "removed"]
      BY <1>F, <2>4, <2>5
    <2>7. Catalog!Remove(t)
      BY <2>1, <2>2, <2>5, <2>6, CatalogActions
    <2> QED BY <2>2, <2>7 DEF Catalog!Next
  <1>6. ASSUME NEW p \in Procs, Inserts(p) PROVE [Catalog!Next]_(Catalog!vars)
    <2> DEFINE t == nextId
    <2>1. /\ t \in Ids /\ gw[p] \in Gateways /\ \A id \in Ids : rows[id] # gw[p]
          /\ rows' = [rows EXCEPT ![t] = gw[p]] /\ nextId' = t + 1
          /\ UNCHANGED <<workers, abandoned>>
      BY <1>6 DEF Inserts
    <2>2. /\ pc' = [pc EXCEPT ![p] = "connect"] /\ rid' = [rid EXCEPT ![p] = t]
          /\ pc[p] \notin Removing
      BY <1>6 DEF Inserts
    <2>3. \A q \in Procs, id \in Ids : Retires(q, id)' <=> Retires(q, id)
      BY <1>I, <2>2, OneMoves DEF Retires, Removing, TypeOK, ProcTypeOK
    <2>4. \A id \in Ids : id # t => Stages'[id] = Stages[id]
      <3>1. \A id \in Ids : id # t => (id >= nextId' <=> id >= nextId)
        BY <1>N, <2>1
      <3> QED BY <1>N, <2>1, <2>3, <3>1, StageDef, StageDefPrime
    <2>5. /\ t \notin abandoned /\ \A g \in Gateways : workers[g] # t
          /\ \A q \in Procs : ~Retires(q, t)
      BY <1>I, <1>N, <1>G, <2>1 DEF CatInv, OwnInv, Fresh, RegisteredHasRow, Retires
    <2>6. Stages[t] = "new" /\ Stages'[t] = "stored"
      <3>1. t >= nextId /\ ~(t >= nextId') /\ rows'[t] # None
        BY <1>N, <1>G, <2>1
      <3> QED BY <2>1, <2>3, <2>5, <3>1, StageDef, StageDefPrime
    <2>7. Stages' = [Stages EXCEPT ![t] = "stored"]
      BY <1>F, <2>4, <2>6
    <2>8. Catalog!Store(t, gw[p])
      BY <2>1, <2>6, <2>7, CatalogActions
    <2> QED BY <2>1, <2>8 DEF Catalog!Next
  <1>7. ASSUME NEW p \in Procs, Registers(p) PROVE [Catalog!Next]_(Catalog!vars)
    <2> DEFINE t == rid[p]
    <2>1. /\ pc[p] = "register" /\ pc' = [pc EXCEPT ![p] = "online"] /\ rid' = rid
          /\ workers' = [workers EXCEPT ![gw[p]] = t]
          /\ UNCHANGED <<rows, nextId, abandoned>>
      BY <1>7 DEF Registers
    <2>2. t \in Ids /\ gw[p] \in Gateways /\ Responsible(p, t) /\ Works(p, t)
      BY <1>I, <2>1 DEF TypeOK, ProcTypeOK, Resting, Responsible, Works, ResponsibleLabels, Removing
    <2>3. /\ rows[t] = gw[p] /\ t < nextId /\ \A g \in Gateways : workers[g] # t
          /\ \A q \in Procs : q # p => ~Responsible(q, t)
      BY <1>I, <2>2, RegisteredDef DEF OwnInv, Exclusive, Fresh
    <2>4. t \notin abandoned /\ \A q \in Procs : ~Retires(q, t)
      BY <2>1, <2>2, <2>3 DEF CatInv, Retires, Responsible, Removing
    <2>5. \A q \in Procs, id \in Ids : Retires(q, id)' <=> Retires(q, id)
      BY <1>I, <2>1 DEF Retires, Removing, TypeOK, ProcTypeOK
    <2>6. ASSUME NEW id \in Ids, id # t, rows[id] # None
          PROVE  (\E g \in Gateways : workers'[g] = id) <=> (\E g \in Gateways : workers[g] = id)
      <3>1. workers[gw[p]] # id
        <4>1. workers[gw[p]] = id => rows[id] = rows[t]
          BY <1>I, <1>N, <2>2, <2>3 DEF OwnInv, RegisteredHasRow
        <4>2. rows[id] = rows[t] => id = t
          BY <1>I, <2>2, <2>6 DEF OwnInv, UniqueRows
        <4> QED BY <2>6, <4>1, <4>2
      <3>2. workers'[gw[p]] = t /\ \A g \in Gateways : g # gw[p] => workers'[g] = workers[g]
        BY <1>N, <2>1, <2>2
      <3> QED BY <2>2, <2>6, <3>1, <3>2
    <2>7. \A id \in Ids : id # t => Stages'[id] = Stages[id]
      BY <2>1, <2>5, <2>6, StageDef, StageDefPrime
    <2>8. Stages[t] = "stored" /\ Stages'[t] = "served"
      <3>1. workers'[gw[p]] = t /\ rows[t] # None
        BY <1>N, <1>G, <2>1, <2>2, <2>3
      <3>2. Stages[t] = "stored"
        BY <1>O, <2>2, <2>3, <2>4, <3>1, StageDef
      <3>3. Stages'[t] = "served"
        BY <1>O, <2>1, <2>2, <2>3, <3>1, StageDefPrime
      <3> QED BY <3>2, <3>3
    <2>9. Stages' = [Stages EXCEPT ![t] = "served"]
      BY <1>F, <2>7, <2>8
    <2>10. Catalog!Serve(t)
      BY <2>1, <2>2, <2>8, <2>9, CatalogActions
    <2> QED BY <2>2, <2>10 DEF Catalog!Next
  <1>8. ASSUME NEW p \in Procs, NEW g \in Gateways, TakesOut(p, g)
        PROVE  [Catalog!Next]_(Catalog!vars)
    <2>0. PICK t \in Ids : t = workers[g]
      BY <1>8, <1>N DEF TakesOut
    <2>1. /\ t # NoId /\ workers' = [workers EXCEPT ![g] = NoId] /\ pc[p] \notin Removing
          /\ pc' = [pc EXCEPT ![p] = "dswap"] /\ rid' = [rid EXCEPT ![p] = t]
          /\ UNCHANGED <<rows, nextId, abandoned>>
      BY <1>8, <2>0 DEF TakesOut
    <2>2. t \in Ids /\ rows[t] = g /\ t < nextId
      BY <1>I, <1>N, <1>G, <2>0, <2>1 DEF OwnInv, RegisteredHasRow, Fresh
    <2>3. \A h \in Gateways : h # g => workers[h] # t
      BY <1>I, <1>N, <2>0, <2>1, <2>2 DEF OwnInv, RegisteredHasRow
    <2>4. /\ \A q \in Procs, id \in Ids : id # t => (Retires(q, id)' <=> Retires(q, id))
          /\ Retires(p, t)'
      <3>1. /\ pc'[p] = "dswap" /\ rid'[p] = t
            /\ \A q \in Procs : q # p => pc'[q] = pc[q] /\ rid'[q] = rid[q]
        BY <1>I, <2>1 DEF TypeOK, ProcTypeOK
      <3>2. "dswap" \in Removing
        BY DEF Removing
      <3> QED BY <2>1, <3>1, <3>2 DEF Retires
    <2>5. /\ workers'[g] = NoId
          /\ \A h \in Gateways : h # g => workers'[h] = workers[h]
      BY <1>N, <2>1
    <2>6. \A id \in Ids : id # t => Stages'[id] = Stages[id]
      BY <1>N, <2>0, <2>1, <2>4, <2>5, StageDef, StageDefPrime
    <2>7. Stages[t] = "served" /\ Stages'[t] = "retired"
      <3>1. rows[t] # None /\ \A h \in Gateways : workers'[h] # t
        BY <1>N, <1>G, <2>2, <2>3, <2>5
      <3>2. Stages[t] = "served"
        BY <1>O, <2>0, <2>2, <3>1, StageDef
      <3>3. Stages'[t] = "retired"
        BY <1>O, <2>1, <2>2, <2>4, <3>1, StageDefPrime
      <3> QED BY <3>2, <3>3
    <2>8. Stages' = [Stages EXCEPT ![t] = "retired"]
      BY <1>F, <2>6, <2>7
    <2>9. Catalog!Retire(t)
      BY <2>1, <2>2, <2>7, <2>8, CatalogActions
    <2> QED BY <2>2, <2>9 DEF Catalog!Next
  <1> QED BY <1>E, <1>1, <1>2, <1>3, <1>4, <1>5, <1>6, <1>7, <1>8 DEF Effect

\* The registry implements the catalog, for any number of gateways, requests,
\* faults, restarts and crashes: a gateway is served only after its row was
\* stored, and what was deleted or given up is not served again before a restart.
THEOREM CatalogKept == Spec => CatalogSpec
  <1>1. Init => CatInv
    BY DEF Init, CatInv, Works, ResponsibleLabels
  <1>2. Init => Catalog!Init
    <2> SUFFICES ASSUME Init PROVE Catalog!Init
      OBVIOUS
    <2>1. nextId = 1 /\ rows = [id \in Ids |-> None]
      BY DEF Init
    <2>2. \A id \in Ids : Stage(id) = "new"
      BY <2>1, MaxIdAssumption DEF Stage, Ids
    <2> QED BY <2>1, <2>2 DEF Catalog!Init
  <1>3. IInv /\ CatInv /\ [Next]_vars => [Catalog!Next]_(Catalog!vars)
    BY CatalogStep
  <1> QED BY <1>1, <1>2, <1>3, RegistryInvariant, CatStep, PTL DEF Spec, CatalogSpec, Catalog!Spec
=============================================================================
