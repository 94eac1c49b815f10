--------------------------- MODULE GatewayWorker ---------------------------
(***************************************************************************)
(* One life of a gateway worker (internal/app/worker.go), from Start to    *)
(* Stop.  A single goroutine, sensorLoop, selects between the cancelled    *)
(* context, a command and a tick; the command pump, the HTTP handlers,     *)
(* Stop and the clock run beside it and reach it through channels.         *)
(*                                                                         *)
(* Commands are numbered as the pump enqueues them.  Sensor values, the    *)
(* outlier channel (it only reaches the generators) and envelopes are      *)
(* abstracted; MessageBuffer takes over where a tick calls Send.  Of the   *)
(* gateway's row only the frequency is kept, which is always positive, so  *)
(* that sensorLoop has its ticker; WorkerLifecycle has the status column.  *)
(***************************************************************************)
EXTENDS Integers, Sequences

CONSTANTS
  None,         \* an absent field, or no anomaly
  ChanCap,      \* capacity of commandCh, anomalyCh and configCh
  Frequencies,  \* positive sendFrequencyMs values
  Commands,     \* what commands carry: [type, update]
  Anomalies,    \* what the HTTP handlers inject: [type, duration]
  MaxCommands,  \* bound: commands the pump enqueues
  MaxAnomalies, \* bound: anomalies injected
  MaxAge        \* bound: units of time a command's age is counted for

Fields   == {"freq", "status"}
\* online stands for the statuses that emit, paused for those that do not
Statuses == {"online", "paused"}
Updates  == [freq : Frequencies \cup {None}, status : Statuses \cup {None}]
\* what a command carries; 0 stands for a frequency that is not positive
Payloads == [freq : Frequencies \cup {0, None}, status : Statuses \cup {None}]
Configs  == [freq : Frequencies, status : Statuses]
CommandTypes == {"config", "firmware", "invalid"}
AnomalyTypes == {"disconnect", "degradation"}

ASSUME ChanCapAssumption == ChanCap \in Nat \ {0}
ASSUME FrequenciesAssumption == Frequencies \subseteq Nat \ {0}
ASSUME NoneAssumption ==
  /\ None \notin Frequencies \cup {0} /\ None \notin Statuses
  /\ None \notin [type : AnomalyTypes, left : Nat]
ASSUME CommandsAssumption == Commands \subseteq [type : CommandTypes, update : Payloads]
\* InjectDisconnect refuses a duration that is not positive;
\* InjectNetworkDegradation does not, and then the anomaly expires at once.
ASSUME AnomaliesAssumption ==
  /\ Anomalies \subseteq [type : AnomalyTypes, duration : Nat]
  /\ \A a \in Anomalies : a.type = "disconnect" => a.duration > 0
ASSUME BoundsAssumption ==
  MaxCommands \in Nat /\ MaxAnomalies \in Nat /\ MaxAge \in Nat

VARIABLES
  loop,       \* where sensorLoop is
  cancelled,  \* Stop has called w.cancel()
  commandCh,  \* w.commandCh
  anomalyCh,  \* w.anomalyCh
  configCh,   \* w.configCh
  gw,         \* w.gateway's SendFrequencyMs and Status
  anomaly,    \* w.activeAnomaly, with the time left until expiresAt
  cmdBuf,     \* w.anomalyCommandBuffer
  flushed,    \* commands of cmdBuf flushBufferedCommands has answered
  emitted,    \* the last tick handed telemetry to the buffer
  waiting,    \* the loop is inside the publish of an answer that is not acknowledged
  rowFreq,    \* send_frequency_ms of the gateway's row
  answers,    \* external: commands whose ACK or NACK the stream stored
  accepted,   \* observer: commands the pump enqueued
  handled,    \* observer: commands processIncomingCommand has dealt with
  injected,   \* observer: anomalies injected
  promised,   \* observer: the configuration the ACKs sent so far announce
  oldest      \* observer: the greatest age at which a command was executed

chanVars  == <<commandCh, anomalyCh, configCh>>
storeVars == <<rowFreq, promised>>
obsVars   == <<accepted, injected>>
ansVars   == <<answers, handled, oldest, waiting>>
vars == <<loop, cancelled, chanVars, gw, anomaly, cmdBuf, flushed, emitted,
          storeVars, ansVars, obsVars>>

\* a command in the channel or in the anomaly buffer; age is the time it has
\* spent in the latter, which is what can be long
Queued == [id : Nat, type : CommandTypes, update : Payloads, age : Nat]

\* NewGatewayWorker and Start; a restored row may be paused.
Init ==
  /\ loop = "select" /\ cancelled = FALSE
  /\ commandCh = <<>> /\ anomalyCh = <<>> /\ configCh = <<>>
  /\ gw \in Configs /\ rowFreq = gw.freq /\ promised = gw
  /\ anomaly = None /\ cmdBuf = <<>> /\ flushed = 0 /\ emitted = FALSE
  /\ answers = <<>> /\ handled = 0 /\ oldest = 0 /\ waiting = FALSE
  /\ accepted = 0 /\ injected = 0

-----------------------------------------------------------------------------
(* Command handlers, run by sensorLoop *)

\* cfg with the fields the update carries
Merge(cfg, u) ==
  [freq   |-> IF u.freq = None THEN cfg.freq ELSE u.freq,
   status |-> IF u.status = None THEN cfg.status ELSE u.status]
Carried(u)    == {f \in Fields : u[f] # None}

\* UpdateFrequency and UpdateStatus.  Each may fail, and fails once the worker's
\* context is cancelled; the status is the last to be written.
ConfigStoreFails(u) ==
  /\ \/ u.freq # None /\ UNCHANGED rowFreq
     \/ /\ u.status # None
        /\ u.freq # None => ~cancelled
        /\ rowFreq' = IF u.freq = None THEN rowFreq ELSE u.freq
  /\ UNCHANGED <<promised, configCh>>

\* The update is stored; it is announced only when configCh has room for it.
ConfigStored(u) ==
  /\ Carried(u) # {} => ~cancelled
  /\ rowFreq' = IF u.freq = None THEN rowFreq ELSE u.freq
  /\ \/ /\ Len(configCh) = ChanCap
        /\ UNCHANGED <<promised, configCh>>
     \/ /\ Len(configCh) < ChanCap
        /\ promised' = Merge(promised, u)
        /\ configCh' = Append(configCh, u)

\* Faulty variant: the frequency is not checked.
HandleConfigUnchecked(u) == ConfigStoreFails(u) \/ ConfigStored(u)

\* handleConfigUpdateCommand; a frequency that is not positive is refused before
\* anything is written, so that configCh never carries one.
HandleConfig(u) ==
  \/ u.freq = 0 /\ UNCHANGED <<storeVars, configCh>>
  \/ u.freq # 0 /\ (ConfigStoreFails(u) \/ ConfigStored(u))

\* processIncomingCommand followed by sendACK.  A firmware version is stored or
\* not, and read by nothing here; an unknown type and a malformed payload are
\* answered NACK.  A publish that fails is only logged, and the answer may be
\* stored all the same.  It may also get no acknowledgement: then it returns only
\* with the worker's context, which has no deadline.
Process(c) ==
  /\ IF c.type = "config" THEN HandleConfig(c.update)
                          ELSE UNCHANGED <<storeVars, configCh>>
  /\ handled' = handled + 1
  /\ oldest' = IF c.age > oldest THEN c.age ELSE oldest
  /\ answers' \in {answers, Append(answers, c.id)}
  /\ waiting' \in {FALSE, ~cancelled}

\* sensorLoop receives a command: handleIncomingCommand.
TakeCommand ==
  /\ loop = "select" /\ ~waiting
  /\ commandCh # <<>>
  /\ commandCh' = Tail(commandCh)
  /\ \/ /\ anomaly # None
        /\ cmdBuf' = Append(cmdBuf, Head(commandCh))
        /\ UNCHANGED <<storeVars, configCh, ansVars>>
     \/ /\ anomaly = None
        /\ Process(Head(commandCh))
        /\ UNCHANGED cmdBuf
  /\ UNCHANGED <<loop, cancelled, anomalyCh, gw, anomaly, flushed, emitted,
                 obsVars>>

\* Publish gives an answer up that was not acknowledged.
AnswerAbandoned ==
  /\ waiting /\ cancelled
  /\ waiting' = FALSE
  /\ UNCHANGED <<loop, cancelled, chanVars, gw, anomaly, cmdBuf, flushed, emitted,
                 storeVars, answers, handled, oldest, obsVars>>

-----------------------------------------------------------------------------
(* processTick, one step per part that other goroutines can see *)

Activate(a) == [type |-> a.type, left |-> a.duration]

\* Faulty variant: a status is only applied along with a frequency.
TickDrainFrequencyFirst ==
  /\ loop = "select" /\ ~waiting
  /\ loop' = "expire"
  /\ IF configCh = <<>> THEN UNCHANGED <<configCh, gw>>
     ELSE /\ configCh' = Tail(configCh)
          /\ gw' = IF Head(configCh).freq = None THEN gw
                   ELSE Merge(gw, Head(configCh))
  /\ IF anomalyCh = <<>> THEN UNCHANGED <<anomalyCh, anomaly>>
     ELSE /\ anomalyCh' = Tail(anomalyCh)
          /\ anomaly' = Activate(Head(anomalyCh))
  /\ emitted' = FALSE
  /\ UNCHANGED <<cancelled, commandCh, cmdBuf, flushed, storeVars,
                 ansVars, obsVars>>

\* drainControlChannels: at most one update and one anomaly, which replaces the
\* active one.
TickDrain ==
  /\ loop = "select" /\ ~waiting
  /\ loop' = "expire"
  /\ IF configCh = <<>> THEN UNCHANGED <<configCh, gw>>
     ELSE /\ configCh' = Tail(configCh)
          /\ gw' = Merge(gw, Head(configCh))
  /\ IF anomalyCh = <<>> THEN UNCHANGED <<anomalyCh, anomaly>>
     ELSE /\ anomalyCh' = Tail(anomalyCh)
          /\ anomaly' = Activate(Head(anomalyCh))
  /\ emitted' = FALSE
  /\ UNCHANGED <<cancelled, commandCh, cmdBuf, flushed, storeVars,
                 ansVars, obsVars>>

Expired == anomaly # None /\ anomaly.left = 0

\* Faulty variant: the buffered commands wait for a later anomaly to end.
TickExpireNoFlush ==
  /\ loop = "expire"
  /\ loop' = "publish"
  /\ anomaly' = IF Expired THEN None ELSE anomaly
  /\ UNCHANGED <<cancelled, chanVars, gw, cmdBuf, flushed, emitted, storeVars,
                 ansVars, obsVars>>

\* Faulty variant: an anomaly never expires.
TickExpireNever ==
  /\ loop = "expire"
  /\ loop' = "publish"
  /\ UNCHANGED <<cancelled, chanVars, gw, anomaly, cmdBuf, flushed, emitted,
                 storeVars, ansVars, obsVars>>

\* checkAnomalyExpiry up to the call of flushBufferedCommands
TickExpire ==
  /\ loop = "expire"
  /\ \/ Expired  /\ anomaly' = None /\ loop' = "flush"
     \/ ~Expired /\ UNCHANGED anomaly /\ loop' = "publish"
  /\ UNCHANGED <<cancelled, chanVars, gw, cmdBuf, flushed, emitted, storeVars,
                 ansVars, obsVars>>

\* Faulty variant: the buffered commands are answered from the newest on.
FlushOneNewestFirst ==
  /\ loop = "flush" /\ ~waiting
  /\ flushed < Len(cmdBuf)
  /\ Process(cmdBuf[Len(cmdBuf) - flushed])
  /\ flushed' = flushed + 1
  /\ UNCHANGED <<loop, cancelled, commandCh, anomalyCh, gw, anomaly, cmdBuf,
                 emitted, obsVars>>

\* one round of flushBufferedCommands
FlushOne ==
  /\ loop = "flush" /\ ~waiting
  /\ flushed < Len(cmdBuf)
  /\ Process(cmdBuf[flushed + 1])
  /\ flushed' = flushed + 1
  /\ UNCHANGED <<loop, cancelled, commandCh, anomalyCh, gw, anomaly, cmdBuf,
                 emitted, obsVars>>

\* Faulty variant: the flushed commands stay in the anomaly buffer.
FlushEndKeepsBuffer ==
  /\ loop = "flush" /\ ~waiting
  /\ flushed = Len(cmdBuf)
  /\ flushed' = 0
  /\ loop' = "publish"
  /\ UNCHANGED <<cancelled, chanVars, gw, anomaly, cmdBuf, emitted, storeVars,
                 ansVars, obsVars>>

FlushEnd ==
  /\ loop = "flush" /\ ~waiting
  /\ flushed = Len(cmdBuf)
  /\ cmdBuf' = <<>> /\ flushed' = 0
  /\ loop' = "publish"
  /\ UNCHANGED <<cancelled, chanVars, gw, anomaly, emitted, storeVars,
                 ansVars, obsVars>>

\* isCommunicationBlocked
Blocked == \/ anomaly # None /\ anomaly.type = "disconnect"
           \/ gw.status = "paused"

\* publishSensorData; a degraded network may lose every envelope of the tick.
TickPublish ==
  /\ loop = "publish"
  /\ loop' = "select"
  /\ \/ ~Blocked /\ emitted' = TRUE
     \/ (Blocked \/ anomaly # None) /\ UNCHANGED emitted
  /\ UNCHANGED <<cancelled, chanVars, gw, anomaly, cmdBuf, flushed, storeVars,
                 ansVars, obsVars>>

\* The select sees the cancelled context; it may serve other cases before.
LoopExit ==
  /\ loop = "select" /\ ~waiting
  /\ cancelled
  /\ loop' = "done"
  /\ UNCHANGED <<cancelled, chanVars, gw, anomaly, cmdBuf, flushed, emitted,
                 storeVars, ansVars, obsVars>>

-----------------------------------------------------------------------------
(* The goroutines around the loop *)

\* The command pump hands a command over, or drops it when commandCh is full,
\* which changes nothing here (see CommandDelivery).  It runs from before the
\* worker is registered until after Stop.
PumpEnqueue(c) ==
  /\ accepted < MaxCommands
  /\ Len(commandCh) < ChanCap
  /\ commandCh' = Append(commandCh, [id |-> accepted + 1, type |-> c.type,
                                     update |-> c.update, age |-> 0])
  /\ accepted' = accepted + 1
  /\ UNCHANGED <<loop, cancelled, anomalyCh, configCh, gw, anomaly, cmdBuf,
                 flushed, emitted, storeVars, ansVars, injected>>

\* InjectGatewayAnomaly; with a full channel it answers an error.
InjectGatewayAnomaly(a) ==
  /\ injected < MaxAnomalies
  /\ Len(anomalyCh) < ChanCap
  /\ anomalyCh' = Append(anomalyCh, a)
  /\ injected' = injected + 1
  /\ UNCHANGED <<loop, cancelled, commandCh, configCh, gw, anomaly, cmdBuf,
                 flushed, emitted, storeVars, ansVars, accepted>>

\* GatewayWorker.Stop
Stop ==
  /\ ~cancelled
  /\ cancelled' = TRUE
  /\ UNCHANGED <<loop, chanVars, gw, anomaly, cmdBuf, flushed, emitted,
                 storeVars, ansVars, obsVars>>

\* one unit of time passes
Aged(c)  == [c EXCEPT !.age = IF @ < MaxAge THEN @ + 1 ELSE @]
Older(q) == [i \in 1..Len(q) |-> Aged(q[i])]
Clock ==
  /\ anomaly' = IF anomaly = None \/ Expired THEN anomaly
                ELSE [anomaly EXCEPT !.left = @ - 1]
  /\ cmdBuf' = Older(cmdBuf)
  /\ UNCHANGED <<loop, cancelled, chanVars, gw, flushed, emitted,
                 storeVars, ansVars, obsVars>>

-----------------------------------------------------------------------------
Tick == TickDrain \/ TickExpire \/ FlushOne \/ FlushEnd \/ TickPublish

Environment ==
  \/ \E c \in Commands : PumpEnqueue(c)
  \/ \E a \in Anomalies : InjectGatewayAnomaly(a)
  \/ Stop \/ Clock

Next == TakeCommand \/ Tick \/ LoopExit \/ AnswerAbandoned \/ Environment

Spec == Init /\ [][Next]_vars

\* The Go scheduler runs sensorLoop; its select picks at random among the ready
\* cases, so that a case ready again and again is not passed over for ever, and
\* the ticker is always ready again.  Store calls return, and a publish whose
\* context is cancelled; one that is not acknowledged need not.  Time passes.
FairSpec ==
  /\ Spec
  /\ SF_vars(TakeCommand) /\ SF_vars(LoopExit) /\ WF_vars(Tick) /\ WF_vars(Clock)
  /\ WF_vars(AnswerAbandoned)

-----------------------------------------------------------------------------
(* Properties *)

ChannelsOK ==
  /\ commandCh \in Seq(Queued) /\ Len(commandCh) <= ChanCap
  /\ anomalyCh \in Seq(Anomalies) /\ Len(anomalyCh) <= ChanCap
  /\ configCh \in Seq(Updates) /\ Len(configCh) <= ChanCap

LoopOK ==
  /\ loop \in {"select", "expire", "flush", "publish", "done"}
  /\ gw \in Configs
  /\ anomaly \in [type : AnomalyTypes, left : Nat] \cup {None}
  /\ cmdBuf \in Seq(Queued)
  /\ flushed \in 0..Len(cmdBuf)
  /\ cancelled \in BOOLEAN /\ emitted \in BOOLEAN

ObserversOK ==
  /\ rowFreq \in Frequencies /\ promised \in Configs
  /\ waiting \in BOOLEAN
  /\ answers \in Seq(Nat)
  /\ accepted \in Nat /\ handled \in Nat /\ injected \in Nat /\ oldest \in Nat

TypeOK == ChannelsOK /\ LoopOK /\ ObserversOK

\* Every command the pump enqueued is processed once, in order, or still waits:
\* the anomaly buffer never overtakes the channel nor keeps what it has flushed.
CommandsInOrder ==
  /\ \A i \in 1..Len(cmdBuf) : cmdBuf[i].id = handled - flushed + i
  /\ \A i \in 1..Len(commandCh) :
       commandCh[i].id = handled - flushed + Len(cmdBuf) + i
  /\ accepted = handled - flushed + Len(cmdBuf) + Len(commandCh)

\* Commands wait in the buffer only for an active anomaly or during its flush,
\* so that a command taken later is never executed before them.
BufferNeedsAnomaly ==
  cmdBuf # <<>> => anomaly # None \/ loop = "flush"

\* The value v is what field f has, or will have once configCh is drained.
Pending(f) == {i \in 1..Len(configCh) : configCh[i][f] # None}
Upcoming(f, v) ==
  \/ Pending(f) = {} /\ gw[f] = v
  \/ \E i \in Pending(f) : /\ configCh[i][f] = v
                           /\ \A j \in Pending(f) : j <= i

\* The loop is heading for exactly the configuration its ACKs announced: a NACK
\* never changes it, and updates reach it complete and in order.
AckedConfigApplied == \A f \in Fields : Upcoming(f, promised[f])

\* The answers on command.ack are those of the commands in arrival order, each
\* given once; some may be missing (worker.go implements LossyStream).
Answers == INSTANCE LossyStream WITH produced <- accepted, stream <- answers
AnswersSpec == Answers!Spec

\* No command is executed while an anomaly is active.
QuietDuringAnomaly == [][handled' # handled => anomaly = None]_vars

\* A command the pump enqueued is executed, unless the worker stops first or an
\* answer is never acknowledged, which holds the loop until Stop.
CommandsHandled ==
  \A n \in 1..MaxCommands :
    accepted >= n ~> (handled >= n \/ loop = "done" \/ (waiting /\ ~cancelled))

\* Anomalies are transient: a worker that runs on, with online as its configured
\* status and no answer left unacknowledged, keeps coming back to emitting
\* telemetry.
TelemetryResumes ==
  <>[](~cancelled /\ ~waiting /\ Upcoming("status", "online")) => []<>emitted

\* nats-contracts.yaml: a gateway must discard a command older than its time to
\* live, which handleMsg checks on arrival.  Not even time in the anomaly buffer
\* makes an executed command older than that, MaxAge - 1 units here.
ExpiredNotExecuted == oldest < MaxAge
=============================================================================
