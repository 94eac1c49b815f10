------------------------ MODULE GatewayWorkerProofs ------------------------
(***************************************************************************)
(* Theorems about GatewayWorker for every channel capacity, every set of   *)
(* commands and anomalies and every bound.  The invariant is proved in     *)
(* four parts, each for one concern: the types, the order of the commands, *)
(* the configuration the answers announce, and the answers themselves.     *)
(***************************************************************************)
EXTENDS GatewayWorker, SequenceFacts, TLAPS

\* flushBufferedCommands runs without an anomaly, and its position is reset.
FlushOK ==
  /\ loop = "flush" => anomaly = None
  /\ loop # "flush" => flushed = 0

OrderInv == FlushOK /\ BufferNeedsAnomaly /\ CommandsInOrder

\* The newest answer on the stream, as LossyStream defines it, is that of a
\* command already handled.
NewestAnswer == IF answers = <<>> THEN 0 ELSE answers[Len(answers)]
AnswersBehind == NewestAnswer <= handled

IInv == TypeOK /\ OrderInv /\ AckedConfigApplied /\ AnswersBehind

Assumptions ==
  /\ ChanCap \in Nat \ {0}
  /\ Frequencies \subseteq Nat \ {0}
  /\ None \notin Frequencies \cup {0} /\ None \notin Statuses
  /\ None \notin [type : AnomalyTypes, left : Nat]
  /\ Commands \subseteq [type : CommandTypes, update : Payloads]
  /\ Anomalies \subseteq [type : AnomalyTypes, duration : Nat]

\* What the proofs use of the assumptions on the constants.
LEMMA Assumed == Assumptions
  BY ChanCapAssumption, FrequenciesAssumption, NoneAssumption, CommandsAssumption,
     AnomaliesAssumption
     DEF Assumptions

-----------------------------------------------------------------------------
(* Types *)

\* Applying an update to a configuration gives a configuration.
LEMMA MergeType ==
  ASSUME NEW cfg \in Configs, NEW u \in Updates
  PROVE  Merge(cfg, u) \in Configs
  BY Assumed DEF Assumptions, Merge, Configs, Updates

\* A payload whose frequency is not refused is an update.
LEMMA PayloadType ==
  ASSUME NEW u \in Payloads, u.freq # 0
  PROVE  u \in Updates
  BY DEF Payloads, Updates

\* What a command handler does to the types of what it writes.
LEMMA ConfigTypes ==
  ASSUME TypeOK, NEW u \in Payloads, HandleConfig(u)
  PROVE  /\ rowFreq' \in Frequencies /\ promised' \in Configs
         /\ configCh' \in Seq(Updates) /\ Len(configCh') <= ChanCap
  <1>1. /\ rowFreq \in Frequencies /\ promised \in Configs
        /\ configCh \in Seq(Updates) /\ Len(configCh) <= ChanCap
    BY DEF TypeOK, ChannelsOK, ObserversOK
  <1>2. CASE u.freq = 0 /\ UNCHANGED <<storeVars, configCh>>
    BY <1>1, <1>2 DEF storeVars
  <1>3. CASE u.freq # 0 /\ (ConfigStoreFails(u) \/ ConfigStored(u))
    <2>1. u \in Updates
      BY <1>3, PayloadType
    <2>2. u.freq # None => u.freq \in Frequencies
      BY <2>1 DEF Updates
    <2>3. rowFreq' \in Frequencies
      BY <1>1, <1>3, <2>2 DEF ConfigStoreFails, ConfigStored
    <2>4. \/ UNCHANGED <<promised, configCh>>
          \/ /\ Len(configCh) < ChanCap
             /\ promised' = Merge(promised, u)
             /\ configCh' = Append(configCh, u)
      BY <1>3 DEF ConfigStoreFails, ConfigStored
    <2>5. Merge(promised, u) \in Configs
      BY <1>1, <2>1, MergeType
    <2>6. Append(configCh, u) \in Seq(Updates) /\ Len(Append(configCh, u)) = Len(configCh) + 1
      BY <1>1, <2>1, AppendFacts
    <2> QED BY <1>1, <2>3, <2>4, <2>5, <2>6, Assumed DEF Assumptions
  <1> QED BY <1>2, <1>3 DEF HandleConfig

\* What the execution of a command does to the types of what it writes.
LEMMA ProcessTypes ==
  ASSUME TypeOK, NEW c \in Queued, Process(c)
  PROVE  /\ rowFreq' \in Frequencies /\ promised' \in Configs
         /\ configCh' \in Seq(Updates) /\ Len(configCh') <= ChanCap
         /\ handled' = handled + 1 /\ handled' \in Nat /\ oldest' \in Nat
         /\ answers' \in Seq(Nat) /\ waiting' \in BOOLEAN
  <1>1. /\ c.update \in Payloads /\ c.id \in Nat /\ c.age \in Nat
    BY DEF Queued
  <1>2. /\ rowFreq' \in Frequencies /\ promised' \in Configs
        /\ configCh' \in Seq(Updates) /\ Len(configCh') <= ChanCap
    <2>1. CASE c.type = "config"
      BY <1>1, <2>1, ConfigTypes DEF Process
    <2>2. CASE c.type # "config"
      BY <2>2 DEF Process, storeVars, TypeOK, ChannelsOK, ObserversOK
    <2> QED BY <2>1, <2>2
  <1>3. handled' = handled + 1 /\ handled' \in Nat /\ oldest' \in Nat
    BY <1>1 DEF Process, TypeOK, ObserversOK
  <1>4. answers' \in Seq(Nat)
    BY <1>1, AppendFacts DEF Process, TypeOK, ObserversOK
  <1>5. waiting' \in BOOLEAN
    <2>1. waiting' = FALSE \/ waiting' = ~cancelled
      BY Zenon DEF Process
    <2>2. cancelled \in BOOLEAN
      BY DEF TypeOK, LoopOK
    <2> QED BY <2>1, <2>2, Zenon
  <1> QED BY <1>2, <1>3, <1>4, <1>5

\* Growing older does not change which command it is,
LEMMA AgedFacts ==
  ASSUME NEW c \in Queued
  PROVE  Aged(c) \in Queued /\ Aged(c).id = c.id
  BY BoundsAssumption DEF Aged, Queued

\* nor the order of the buffered ones.
LEMMA OlderFacts ==
  ASSUME NEW q \in Seq(Queued)
  PROVE  /\ Older(q) \in Seq(Queued) /\ Len(Older(q)) = Len(q)
         /\ \A i \in 1..Len(q) : Older(q)[i].id = q[i].id
         /\ Older(q) = <<>> <=> q = <<>>
  <1>1. Len(q) \in Nat
    OBVIOUS
  <1>2. ASSUME NEW i \in 1..Len(q)
        PROVE  /\ Older(q)[i] \in Queued
               /\ Older(q)[i].id = q[i].id
    <2>1. q[i] \in Queued
      OBVIOUS
    <2> QED BY <2>1, AgedFacts DEF Older
  <1>3. DOMAIN Older(q) = 1..Len(q) /\ Older(q) = [i \in DOMAIN Older(q) |-> Older(q)[i]]
    BY DEF Older
  <1>4. Older(q) \in Seq(Queued) /\ Len(Older(q)) = Len(q)
    BY <1>1, <1>2, <1>3
  <1> QED BY <1>2, <1>4, <1>1

\* No action breaks a type or overfills a channel.
LEMMA TypeStep == TypeOK /\ [Next]_vars => TypeOK'
  <1> SUFFICES ASSUME TypeOK, [Next]_vars PROVE TypeOK'
    OBVIOUS
  <1> USE DEF chanVars, storeVars, obsVars, ansVars
  <1>T. /\ commandCh \in Seq(Queued) /\ cmdBuf \in Seq(Queued)
        /\ anomalyCh \in Seq(Anomalies) /\ configCh \in Seq(Updates)
        /\ gw \in Configs
        /\ Len(cmdBuf) \in Nat /\ flushed \in 0..Len(cmdBuf)
    BY DEF TypeOK, ChannelsOK, LoopOK
  <1>1. CASE TakeCommand
    <2>1. /\ commandCh' \in Seq(Queued) /\ Len(commandCh') <= ChanCap
          /\ Head(commandCh) \in Queued
      BY <1>1, <1>T, TailFacts, Assumed DEF TakeCommand, TypeOK, ChannelsOK, Assumptions
    <2>2. CASE /\ anomaly # None /\ cmdBuf' = Append(cmdBuf, Head(commandCh))
               /\ UNCHANGED <<storeVars, configCh, ansVars>>
      <3>1. cmdBuf' \in Seq(Queued) /\ Len(cmdBuf') = Len(cmdBuf) + 1
        BY <2>1, <2>2, <1>T, AppendFacts
      <3>2. flushed' \in 0..Len(cmdBuf')
        BY <1>1, <3>1, <1>T DEF TakeCommand
      <3> QED BY <1>1, <2>1, <2>2, <3>1, <3>2
              DEF TakeCommand, TypeOK, ChannelsOK, LoopOK, ObserversOK
    <2>3. CASE anomaly = None /\ Process(Head(commandCh)) /\ UNCHANGED cmdBuf
      <3>1. /\ rowFreq' \in Frequencies /\ promised' \in Configs
            /\ configCh' \in Seq(Updates) /\ Len(configCh') <= ChanCap
            /\ handled' \in Nat /\ oldest' \in Nat /\ answers' \in Seq(Nat)
            /\ waiting' \in BOOLEAN
        BY <2>1, <2>3, ProcessTypes
      <3> QED BY <1>1, <2>1, <2>3, <3>1
              DEF TakeCommand, TypeOK, ChannelsOK, LoopOK, ObserversOK
    <2> QED BY <1>1, <2>2, <2>3 DEF TakeCommand
  <1>2. CASE TickDrain
    <2>1. /\ configCh' \in Seq(Updates) /\ Len(configCh') <= ChanCap
          /\ gw' \in Configs
      <3>1. CASE configCh = <<>>
        BY <1>2, <3>1 DEF TickDrain, TypeOK, ChannelsOK, LoopOK
      <3>2. CASE configCh # <<>>
        <4>1. /\ Head(configCh) \in Updates /\ Tail(configCh) \in Seq(Updates)
              /\ Len(Tail(configCh)) = Len(configCh) - 1
          BY <3>2, <1>T, TailFacts
        <4>2. configCh' = Tail(configCh) /\ gw' = Merge(gw, Head(configCh))
          BY <1>2, <3>2 DEF TickDrain
        <4>3. gw' \in Configs
          BY <4>1, <4>2, <1>T, MergeType
        <4>4. Len(configCh) \in Nat /\ Len(configCh) <= ChanCap
          BY <1>T DEF TypeOK, ChannelsOK
        <4> QED BY <4>1, <4>2, <4>3, <4>4, Assumed DEF Assumptions
      <3> QED BY <3>1, <3>2
    <2>2. /\ anomalyCh' \in Seq(Anomalies) /\ Len(anomalyCh') <= ChanCap
          /\ anomaly' \in [type : AnomalyTypes, left : Nat] \cup {None}
      <3>1. CASE anomalyCh = <<>>
        BY <1>2, <3>1 DEF TickDrain, TypeOK, ChannelsOK, LoopOK
      <3>2. CASE anomalyCh # <<>>
        <4>1. /\ Head(anomalyCh) \in Anomalies /\ Tail(anomalyCh) \in Seq(Anomalies)
              /\ Len(Tail(anomalyCh)) = Len(anomalyCh) - 1
          BY <3>2, <1>T, TailFacts
        <4>2. Activate(Head(anomalyCh)) \in [type : AnomalyTypes, left : Nat]
          BY <4>1, Assumed DEF Activate, Assumptions
        <4>3. anomalyCh' = Tail(anomalyCh) /\ anomaly' = Activate(Head(anomalyCh))
          BY <1>2, <3>2 DEF TickDrain
        <4>4. Len(anomalyCh) \in Nat /\ Len(anomalyCh) <= ChanCap
          BY <1>T DEF TypeOK, ChannelsOK
        <4> QED BY <4>1, <4>2, <4>3, <4>4, Assumed DEF Assumptions
      <3> QED BY <3>1, <3>2
    <2> QED BY <1>2, <2>1, <2>2 DEF TickDrain, TypeOK, ChannelsOK, LoopOK, ObserversOK
  <1>3. CASE TickExpire
    BY <1>3 DEF TickExpire, TypeOK, ChannelsOK, LoopOK, ObserversOK
  <1>4. CASE FlushOne
    <2>1. cmdBuf[flushed + 1] \in Queued /\ flushed' \in 0..Len(cmdBuf)
      BY <1>4, <1>T DEF FlushOne
    <2>2. /\ rowFreq' \in Frequencies /\ promised' \in Configs
          /\ configCh' \in Seq(Updates) /\ Len(configCh') <= ChanCap
          /\ handled' \in Nat /\ oldest' \in Nat /\ answers' \in Seq(Nat)
          /\ waiting' \in BOOLEAN
      BY <1>4, <2>1, ProcessTypes DEF FlushOne
    <2> QED BY <1>4, <2>1, <2>2
            DEF FlushOne, TypeOK, ChannelsOK, LoopOK, ObserversOK
  <1>5. CASE FlushEnd
    <2>1. cmdBuf' \in Seq(Queued) /\ flushed' \in 0..Len(cmdBuf')
      BY <1>5 DEF FlushEnd
    <2> QED BY <1>5, <2>1 DEF FlushEnd, TypeOK, ChannelsOK, LoopOK, ObserversOK
  <1>6. CASE TickPublish
    BY <1>6 DEF TickPublish, TypeOK, ChannelsOK, LoopOK, ObserversOK
  <1>7. CASE LoopExit \/ Stop
    BY <1>7 DEF LoopExit, Stop, TypeOK, ChannelsOK, LoopOK, ObserversOK
  <1>8. ASSUME NEW c \in Commands, PumpEnqueue(c) PROVE TypeOK'
    <2>1. [id |-> accepted + 1, type |-> c.type, update |-> c.update, age |-> 0] \in Queued
      BY Assumed DEF Assumptions, Queued, TypeOK, ObserversOK
    <2>2. commandCh' \in Seq(Queued) /\ Len(commandCh') <= ChanCap
      BY <1>8, <2>1, <1>T, AppendFacts, Assumed DEF PumpEnqueue, Assumptions
    <2>3. accepted' \in Nat
      BY <1>8 DEF PumpEnqueue, TypeOK, ObserversOK
    <2> QED BY <1>8, <2>2, <2>3 DEF PumpEnqueue, TypeOK, ChannelsOK, LoopOK, ObserversOK
  <1>9. ASSUME NEW a \in Anomalies, InjectGatewayAnomaly(a) PROVE TypeOK'
    <2>1. anomalyCh' \in Seq(Anomalies) /\ Len(anomalyCh') <= ChanCap
      BY <1>9, <1>T, AppendFacts, Assumed DEF InjectGatewayAnomaly, Assumptions
    <2> QED BY <1>9, <2>1
            DEF InjectGatewayAnomaly, TypeOK, ChannelsOK, LoopOK, ObserversOK
  <1>10. CASE AnswerAbandoned
    BY <1>10 DEF AnswerAbandoned, TypeOK, ChannelsOK, LoopOK, ObserversOK
  <1>11. CASE Clock
    <2>1. cmdBuf' \in Seq(Queued) /\ flushed' \in 0..Len(cmdBuf')
      BY <1>11, <1>T, OlderFacts DEF Clock
    <2>2. anomaly' \in [type : AnomalyTypes, left : Nat] \cup {None}
      <3>1. CASE anomaly = None \/ Expired
        BY <1>11, <3>1 DEF Clock, TypeOK, LoopOK
      <3>2. CASE ~(anomaly = None \/ Expired)
        <4>1. anomaly \in [type : AnomalyTypes, left : Nat] /\ anomaly.left # 0
          BY <3>2 DEF Expired, TypeOK, LoopOK
        <4>2. anomaly' = [anomaly EXCEPT !.left = anomaly.left - 1]
          BY <1>11, <3>2 DEF Clock
        <4> QED BY <4>1, <4>2
      <3> QED BY <3>1, <3>2
    <2> QED BY <1>11, <2>1, <2>2 DEF Clock, TypeOK, ChannelsOK, LoopOK, ObserversOK
  <1>12. CASE UNCHANGED vars
    BY <1>12 DEF vars, TypeOK, ChannelsOK, LoopOK, ObserversOK
  <1> QED
    BY <1>1, <1>2, <1>3, <1>4, <1>5, <1>6, <1>7, <1>8, <1>9, <1>10, <1>11,
       <1>12 DEF Next, Tick, Environment

-----------------------------------------------------------------------------
(* Order of the commands *)

\* No action reorders, repeats or loses a command that was enqueued.
LEMMA OrderStep == TypeOK /\ OrderInv /\ [Next]_vars => OrderInv'
  <1> SUFFICES ASSUME TypeOK, OrderInv, [Next]_vars PROVE OrderInv'
    OBVIOUS
  <1> USE DEF chanVars, storeVars, obsVars, ansVars
  <1>T. /\ commandCh \in Seq(Queued) /\ cmdBuf \in Seq(Queued)
        /\ Len(cmdBuf) \in Nat /\ Len(commandCh) \in Nat
        /\ flushed \in 0..Len(cmdBuf) /\ handled \in Nat /\ accepted \in Nat
    BY DEF TypeOK, ChannelsOK, LoopOK, ObserversOK
  <1>O. /\ loop = "flush" => anomaly = None
        /\ loop # "flush" => flushed = 0
        /\ cmdBuf # <<>> => anomaly # None \/ loop = "flush"
        /\ \A i \in 1..Len(cmdBuf) : cmdBuf[i].id = handled - flushed + i
        /\ \A i \in 1..Len(commandCh) :
             commandCh[i].id = handled - flushed + Len(cmdBuf) + i
        /\ accepted = handled - flushed + Len(cmdBuf) + Len(commandCh)
    BY DEF OrderInv, FlushOK, BufferNeedsAnomaly, CommandsInOrder
  <1>1. CASE TakeCommand
    <2>1. /\ Len(commandCh') = Len(commandCh) - 1
          /\ \A i \in 1..Len(commandCh') : commandCh'[i] = commandCh[i + 1]
          /\ Head(commandCh) = commandCh[1] /\ Head(commandCh) \in Queued
          /\ Len(commandCh) >= 1 /\ flushed = 0
      BY <1>1, <1>T, <1>O, TailFacts DEF TakeCommand
    <2>0. /\ \A i \in 1..Len(cmdBuf) : cmdBuf[i].id = handled + i
          /\ \A i \in 1..Len(commandCh) : commandCh[i].id = handled + Len(cmdBuf) + i
          /\ accepted = handled + Len(cmdBuf) + Len(commandCh)
      <3>1. handled - flushed = handled
        BY <2>1, <1>T
      <3> QED BY <3>1, <1>O
    <2>2. CASE anomaly # None /\ cmdBuf' = Append(cmdBuf, Head(commandCh)) /\ handled' = handled
      <3>1. /\ Len(cmdBuf') = Len(cmdBuf) + 1
            /\ \A i \in 1..Len(cmdBuf) : cmdBuf'[i] = cmdBuf[i]
            /\ cmdBuf'[Len(cmdBuf) + 1] = commandCh[1]
        BY <2>1, <2>2, <1>T, AppendFacts
      <3>2. ASSUME NEW i \in 1..Len(cmdBuf') PROVE cmdBuf'[i].id = handled + i
        <4>1. CASE i \in 1..Len(cmdBuf)
          BY <4>1, <3>1, <2>0
        <4>2. CASE i = Len(cmdBuf) + 1
          <5>1. commandCh[1].id = handled + Len(cmdBuf) + 1
            BY <2>0, <2>1
          <5> QED BY <4>2, <5>1, <3>1, <1>T
        <4> QED BY <4>1, <4>2, <3>1, <1>T
      <3>3. ASSUME NEW i \in 1..Len(commandCh')
            PROVE  commandCh'[i].id = handled + Len(cmdBuf') + i
        <4>1. i + 1 \in 1..Len(commandCh) /\ commandCh'[i] = commandCh[i + 1]
          BY <2>1, <1>T
        <4>2. commandCh[i + 1].id = handled + Len(cmdBuf) + (i + 1)
          BY <4>1, <2>0
        <4> QED BY <4>1, <4>2, <3>1, <1>T
      <3>4. /\ flushed' = flushed /\ accepted' = accepted /\ loop' = "select"
            /\ anomaly' # None
        BY <1>1, <2>2 DEF TakeCommand
      <3>5. handled' - flushed' = handled /\ accepted' = handled + Len(cmdBuf') + Len(commandCh')
        <4>1. handled' = handled /\ flushed' = 0
          BY <3>4, <2>1, <2>2
        <4>2. Len(cmdBuf') + Len(commandCh') = Len(cmdBuf) + Len(commandCh)
          BY <3>1, <2>1, <1>T
        <4>3. Len(cmdBuf') \in Nat /\ Len(commandCh') \in Nat
          BY <3>1, <2>1, <1>T
        <4>4. accepted' = handled + Len(cmdBuf) + Len(commandCh)
          BY <3>4, <2>0
        <4>5. accepted' = handled + Len(cmdBuf') + Len(commandCh')
          BY <4>2, <4>3, <4>4, <1>T
        <4>6. handled' - flushed' = handled
          BY <4>1, <1>T
        <4> QED BY <4>5, <4>6
      <3>6. CommandsInOrder'
        <4>1. handled' - flushed' + Len(cmdBuf') = handled + Len(cmdBuf')
          BY <3>5
        <4> QED BY <3>2, <3>3, <3>5, <4>1 DEF CommandsInOrder
      <3> QED BY <2>1, <3>4, <3>6 DEF OrderInv, FlushOK, BufferNeedsAnomaly
    <2>3. CASE anomaly = None /\ Process(Head(commandCh)) /\ UNCHANGED cmdBuf
      <3>1. cmdBuf = <<>> /\ Len(cmdBuf) = 0 /\ handled' = handled + 1
        BY <1>1, <2>3, <1>O DEF TakeCommand, Process
      <3>2. \A i \in 1..Len(commandCh') : commandCh'[i].id = handled' + i
        <4> SUFFICES ASSUME NEW i \in 1..Len(commandCh')
                     PROVE  commandCh'[i].id = handled' + i
          OBVIOUS
        <4>1. i + 1 \in 1..Len(commandCh) /\ commandCh'[i] = commandCh[i + 1]
          BY <2>1, <1>T
        <4>2. commandCh[i + 1].id = handled + Len(cmdBuf) + (i + 1)
          BY <4>1, <2>0
        <4> QED BY <4>2, <4>1, <3>1, <1>T
      <3> QED BY <1>1, <2>0, <2>1, <2>3, <3>1, <3>2, <1>T
              DEF TakeCommand, OrderInv, FlushOK, BufferNeedsAnomaly, CommandsInOrder
    <2> QED BY <1>1, <2>2, <2>3 DEF TakeCommand
  <1>2. CASE TickDrain
    <2>1. anomaly # None => anomaly' # None
      <3>1. CASE anomalyCh # <<>>
        <4>1. Head(anomalyCh) \in Anomalies
          BY <3>1, TailFacts DEF TypeOK, ChannelsOK
        <4>2. Activate(Head(anomalyCh)) \in [type : AnomalyTypes, left : Nat]
          BY <4>1, Assumed DEF Activate, Assumptions
        <4> QED BY <1>2, <3>1, <4>2, Assumed DEF TickDrain, Assumptions
      <3> QED BY <1>2, <3>1 DEF TickDrain
    <2> QED BY <1>2, <2>1, <1>O
            DEF TickDrain, OrderInv, FlushOK, BufferNeedsAnomaly, CommandsInOrder
  <1>3. CASE TickExpire
    BY <1>3, <1>O DEF TickExpire, OrderInv, FlushOK, BufferNeedsAnomaly, CommandsInOrder
  <1>4. CASE FlushOne
    <2>1. handled' = handled + 1 /\ flushed' = flushed + 1
      BY <1>4 DEF FlushOne, Process
    <2>2. handled' - flushed' = handled - flushed
      BY <2>1, <1>T
    <2> QED BY <1>4, <2>2, <1>O
            DEF FlushOne, OrderInv, FlushOK, BufferNeedsAnomaly, CommandsInOrder
  <1>5. CASE FlushEnd
    <2>1. Len(cmdBuf') = 0 /\ flushed' = 0 /\ handled' = handled /\ commandCh' = commandCh
      BY <1>5 DEF FlushEnd
    <2> QED BY <1>5, <2>1, <1>T, <1>O
            DEF FlushEnd, OrderInv, FlushOK, BufferNeedsAnomaly, CommandsInOrder
  <1>6. CASE TickPublish \/ LoopExit
    BY <1>6, <1>O DEF TickPublish, LoopExit, OrderInv, FlushOK, BufferNeedsAnomaly,
       CommandsInOrder
  <1>7. ASSUME NEW c \in Commands, PumpEnqueue(c) PROVE OrderInv'
    <2> DEFINE e == [id |-> accepted + 1, type |-> c.type, update |-> c.update, age |-> 0]
    <2>1. e \in Queued /\ e.id = accepted + 1
      BY Assumed, <1>T DEF Assumptions, Queued
    <2>2. commandCh' = Append(commandCh, e)
      BY <1>7 DEF PumpEnqueue
    <2> HIDE DEF e
    <2>3. /\ Len(commandCh') = Len(commandCh) + 1
          /\ \A i \in 1..Len(commandCh) : commandCh'[i] = commandCh[i]
          /\ commandCh'[Len(commandCh) + 1] = e
      BY <2>1, <2>2, <1>T, AppendFacts
    <2>4. \A i \in 1..Len(commandCh') :
            commandCh'[i].id = handled - flushed + Len(cmdBuf) + i
      <3> SUFFICES ASSUME NEW i \in 1..Len(commandCh')
                   PROVE  commandCh'[i].id = handled - flushed + Len(cmdBuf) + i
        OBVIOUS
      <3>1. CASE i \in 1..Len(commandCh)
        BY <3>1, <2>3, <1>O
      <3>2. CASE i = Len(commandCh) + 1
        BY <3>2, <2>1, <2>3, <1>T, <1>O
      <3> QED BY <3>1, <3>2, <2>3, <1>T
    <2> QED BY <1>7, <2>3, <2>4, <1>T, <1>O
            DEF PumpEnqueue, OrderInv, FlushOK, BufferNeedsAnomaly, CommandsInOrder
  <1>8. CASE AnswerAbandoned \/ Stop
    BY <1>8, <1>O DEF AnswerAbandoned, Stop, OrderInv, FlushOK,
       BufferNeedsAnomaly, CommandsInOrder
  <1>9. ASSUME NEW a \in Anomalies, InjectGatewayAnomaly(a) PROVE OrderInv'
    BY <1>9, <1>O DEF InjectGatewayAnomaly, OrderInv, FlushOK, BufferNeedsAnomaly,
       CommandsInOrder
  <1>10. CASE Clock
    <2>1. /\ Len(cmdBuf') = Len(cmdBuf) /\ (cmdBuf' = <<>> <=> cmdBuf = <<>>)
          /\ \A i \in 1..Len(cmdBuf) : cmdBuf'[i].id = cmdBuf[i].id
      BY <1>10, <1>T, OlderFacts DEF Clock
    <2>2. anomaly' = None <=> anomaly = None
      <3>1. CASE anomaly = None \/ Expired
        BY <1>10, <3>1 DEF Clock
      <3>2. CASE ~(anomaly = None \/ Expired)
        <4>1. anomaly \in [type : AnomalyTypes, left : Nat] /\ anomaly.left # 0
          BY <3>2 DEF Expired, TypeOK, LoopOK
        <4>2. anomaly' = [anomaly EXCEPT !.left = anomaly.left - 1]
          BY <1>10, <3>2 DEF Clock
        <4>3. anomaly' \in [type : AnomalyTypes, left : Nat]
          BY <4>1, <4>2
        <4> QED BY <4>1, <4>3, Assumed DEF Assumptions
      <3> QED BY <3>1, <3>2
    <2> QED BY <1>10, <2>1, <2>2, <1>T, <1>O
            DEF Clock, OrderInv, FlushOK, BufferNeedsAnomaly, CommandsInOrder
  <1>11. CASE UNCHANGED vars
    BY <1>11, <1>O DEF vars, OrderInv, FlushOK, BufferNeedsAnomaly, CommandsInOrder
  <1> QED
    BY <1>1, <1>2, <1>3, <1>4, <1>5, <1>6, <1>7, <1>8, <1>9, <1>10, <1>11
       DEF Next, Tick, Environment

-----------------------------------------------------------------------------
(* The configuration the answers announce *)

\* An update replaces the fields it carries and keeps the others.
LEMMA MergeField ==
  ASSUME NEW cfg \in Configs, NEW u \in Updates, NEW f \in Fields
  PROVE  Merge(cfg, u)[f] = IF u[f] = None THEN cfg[f] ELSE u[f]
  BY DEF Merge, Fields

\* An update that is sent on configCh becomes what the loop is heading for.
LEMMA UpcomingAppend ==
  ASSUME configCh \in Seq(Updates), NEW u \in Updates, NEW f \in Fields, NEW v,
         configCh' = Append(configCh, u), gw' = gw, Upcoming(f, v)
  PROVE  \/ u[f] = None /\ Upcoming(f, v)'
         \/ u[f] # None /\ Upcoming(f, u[f])'
  <1>1. /\ Len(configCh) \in Nat /\ Len(configCh') = Len(configCh) + 1
        /\ \A i \in 1..Len(configCh) : configCh'[i] = configCh[i]
        /\ configCh'[Len(configCh) + 1] = u
    BY AppendFacts
  <1>2. Pending(f)' = Pending(f) \cup (IF u[f] = None THEN {} ELSE {Len(configCh) + 1})
    <2>1. Pending(f)' = {i \in 1..(Len(configCh) + 1) : configCh'[i][f] # None}
      BY <1>1 DEF Pending
    <2>2. 1..(Len(configCh) + 1) = 1..Len(configCh) \cup {Len(configCh) + 1}
      BY <1>1
    <2>3. Len(configCh) + 1 \notin 1..Len(configCh)
      BY <1>1
    <2> QED BY <1>1, <2>1, <2>2, <2>3 DEF Pending
  <1>3. CASE u[f] = None
    <2>1. Pending(f)' = Pending(f) /\ Pending(f) \subseteq 1..Len(configCh)
      BY <1>2, <1>3 DEF Pending
    <2> QED BY <1>1, <1>3, <2>1 DEF Upcoming
  <1>4. CASE u[f] # None
    <2>1. Len(configCh) + 1 \in Pending(f)' /\ \A j \in Pending(f)' : j <= Len(configCh) + 1
      BY <1>1, <1>2, <1>4 DEF Pending
    <2> QED BY <1>1, <1>4, <2>1 DEF Upcoming
  <1> QED BY <1>3, <1>4

\* drainControlChannels applies the oldest update and leaves the destination.
LEMMA UpcomingTail ==
  ASSUME configCh \in Seq(Updates), gw \in Configs, NEW f \in Fields, NEW v,
         configCh # <<>>, configCh' = Tail(configCh),
         gw' = Merge(gw, Head(configCh)), Upcoming(f, v)
  PROVE  Upcoming(f, v)'
  <1>1. /\ Len(configCh) \in Nat \ {0} /\ Len(configCh') = Len(configCh) - 1
        /\ \A i \in 1..Len(configCh') : configCh'[i] = configCh[i + 1]
        /\ Head(configCh) = configCh[1] /\ Head(configCh) \in Updates
    BY TailFacts
  <1>2. gw'[f] = IF configCh[1][f] = None THEN gw[f] ELSE configCh[1][f]
    BY <1>1, MergeField
  <1>3. \A i \in 1..Len(configCh') : i \in Pending(f)' <=> i + 1 \in Pending(f)
    BY <1>1 DEF Pending
  <1>4. CASE Pending(f) = {} /\ gw[f] = v
    <2>1. Pending(f)' = {} /\ configCh[1][f] = None
      BY <1>1, <1>3, <1>4 DEF Pending
    <2> QED BY <1>2, <1>4, <2>1 DEF Upcoming
  <1>5. ASSUME NEW i \in Pending(f), configCh[i][f] = v, \A j \in Pending(f) : j <= i
        PROVE  Upcoming(f, v)'
    <2>1. i \in 1..Len(configCh) /\ configCh[i][f] # None
      BY DEF Pending
    <2>2. \A j \in Pending(f)' : j \in 1..Len(configCh') /\ j + 1 \in Pending(f)
      BY <1>3 DEF Pending
    <2>3. CASE i = 1
      <3>1. Pending(f)' = {}
        BY <2>2, <2>3, <1>5, <1>1
      <3> QED BY <3>1, <1>2, <1>5, <2>1, <2>3 DEF Upcoming
    <2>4. CASE i # 1
      <3>1. i - 1 \in 1..Len(configCh') /\ (i - 1) + 1 = i
        BY <2>1, <2>4, <1>1
      <3>2. i - 1 \in Pending(f)' /\ configCh'[i - 1][f] = v
        BY <3>1, <1>1, <1>3, <1>5
      <3>3. \A j \in Pending(f)' : j <= i - 1
        BY <2>1, <2>2, <1>1, <1>5
      <3> QED BY <3>2, <3>3 DEF Upcoming
    <2> QED BY <2>3, <2>4
  <1> QED BY <1>4, <1>5 DEF Upcoming

\* A step that leaves the loop's copy and the announcements alone.
LEMMA AppliedKeeps ==
  ASSUME AckedConfigApplied, UNCHANGED <<gw, configCh, promised>>
  PROVE  AckedConfigApplied'
  BY DEF AckedConfigApplied, Upcoming, Pending

\* handleConfigUpdateCommand keeps the destination in step with its answer,
\* whichever of its calls fails.
LEMMA HandleConfigStep ==
  ASSUME TypeOK, AckedConfigApplied, NEW u \in Payloads, HandleConfig(u), gw' = gw
  PROVE  AckedConfigApplied'
  <1>1. promised \in Configs /\ configCh \in Seq(Updates)
    BY DEF TypeOK, ChannelsOK, ObserversOK
  <1>2. CASE UNCHANGED <<promised, configCh>>
    BY <1>2, AppliedKeeps
  <1>3. CASE /\ u.freq # 0
             /\ promised' = Merge(promised, u)
             /\ configCh' = Append(configCh, u)
    <2>1. u \in Updates
      BY <1>3, PayloadType
    <2> SUFFICES ASSUME NEW f \in Fields PROVE Upcoming(f, promised[f])'
      BY DEF AckedConfigApplied
    <2>2. Upcoming(f, promised[f])
      BY DEF AckedConfigApplied
    <2>3. \/ u[f] = None /\ promised'[f] = promised[f]
          \/ u[f] # None /\ promised'[f] = u[f]
      BY <1>1, <1>3, <2>1, MergeField
    <2>4. PICK v : v = promised[f]
      OBVIOUS
    <2>5. \/ u[f] = None /\ Upcoming(f, v)'
          \/ u[f] # None /\ Upcoming(f, u[f])'
      BY <1>1, <1>3, <2>1, <2>2, <2>4, UpcomingAppend
    <2> QED BY <2>3, <2>4, <2>5 DEF Upcoming
  <1> QED BY <1>2, <1>3 DEF HandleConfig, ConfigStoreFails, ConfigStored, storeVars

\* The configuration part of a command's execution.
LEMMA ProcessConfigStep ==
  ASSUME TypeOK, AckedConfigApplied, NEW c \in Queued, Process(c), gw' = gw
  PROVE  AckedConfigApplied'
  <1>1. CASE c.type = "config"
    BY <1>1, HandleConfigStep DEF Process, Queued
  <1>2. CASE c.type # "config"
    BY <1>2, AppliedKeeps DEF Process, storeVars
  <1> QED BY <1>1, <1>2

\* No action moves the worker away from what its ACKs announced.
LEMMA ConfigStep == TypeOK /\ AckedConfigApplied /\ [Next]_vars => AckedConfigApplied'
  <1> SUFFICES ASSUME TypeOK, AckedConfigApplied, [Next]_vars PROVE AckedConfigApplied'
    OBVIOUS
  <1>1. CASE TakeCommand
    <2>1. PICK c \in Queued : c = Head(commandCh)
      BY <1>1, TailFacts DEF TakeCommand, TypeOK, ChannelsOK
    <2>2. CASE Process(Head(commandCh))
      BY <1>1, <2>1, <2>2, ProcessConfigStep DEF TakeCommand
    <2>3. CASE UNCHANGED <<storeVars, configCh>>
      BY <1>1, <2>3, AppliedKeeps DEF TakeCommand, storeVars
    <2> QED BY <1>1, <2>2, <2>3 DEF TakeCommand
  <1>2. CASE TickDrain
    <2>1. promised' = promised
      BY <1>2 DEF TickDrain, storeVars
    <2>2. CASE configCh = <<>>
      BY <1>2, <2>1, <2>2, AppliedKeeps DEF TickDrain
    <2>3. CASE configCh # <<>>
      <3>1. ASSUME NEW f \in Fields PROVE Upcoming(f, promised[f])'
        <4>1. PICK v : v = promised[f]
          OBVIOUS
        <4>2. Upcoming(f, v)
          BY <4>1 DEF AckedConfigApplied
        <4>3. configCh' = Tail(configCh) /\ gw' = Merge(gw, Head(configCh))
          BY <1>2, <2>3 DEF TickDrain
        <4>4. Upcoming(f, v)'
          BY <2>3, <4>2, <4>3, UpcomingTail DEF TypeOK, ChannelsOK, LoopOK
        <4> QED BY <2>1, <4>1, <4>4 DEF Upcoming
      <3> QED BY <3>1 DEF AckedConfigApplied
    <2> QED BY <2>2, <2>3
  <1>3. CASE FlushOne
    <2>1. PICK c \in Queued : c = cmdBuf[flushed + 1]
      BY <1>3 DEF FlushOne, TypeOK, LoopOK
    <2> QED BY <1>3, <2>1, ProcessConfigStep DEF FlushOne
  <1>4. CASE AnswerAbandoned \/ TickExpire \/ FlushEnd \/ TickPublish \/ LoopExit \/ Stop \/ Clock
    BY <1>4, AppliedKeeps DEF AnswerAbandoned, TickExpire, FlushEnd, TickPublish, LoopExit,
       Stop, Clock, chanVars, storeVars
  <1>5. ASSUME NEW c \in Commands, PumpEnqueue(c) PROVE AckedConfigApplied'
    BY <1>5, AppliedKeeps DEF PumpEnqueue, storeVars
  <1>6. ASSUME NEW a \in Anomalies, InjectGatewayAnomaly(a) PROVE AckedConfigApplied'
    BY <1>6, AppliedKeeps DEF InjectGatewayAnomaly, storeVars
  <1>7. CASE UNCHANGED vars
    BY <1>7, AppliedKeeps DEF vars, chanVars, storeVars
  <1> QED
    BY <1>1, <1>2, <1>3, <1>4, <1>5, <1>6, <1>7 DEF Next, Tick, Environment

-----------------------------------------------------------------------------
(* The answers *)

\* The command about to be executed is the first that has not been.
LEMMA NextCommand ==
  ASSUME TypeOK, OrderInv
  PROVE  /\ loop = "select" /\ anomaly = None /\ commandCh # <<>> =>
              /\ Head(commandCh).id = handled + 1
              /\ handled + 1 <= accepted
         /\ loop = "flush" /\ flushed < Len(cmdBuf) =>
              /\ cmdBuf[flushed + 1].id = handled + 1
              /\ handled + 1 <= accepted
  <1>T. /\ commandCh \in Seq(Queued) /\ Len(cmdBuf) \in Nat /\ Len(commandCh) \in Nat
        /\ flushed \in 0..Len(cmdBuf) /\ handled \in Nat /\ accepted \in Nat
    BY DEF TypeOK, ChannelsOK, LoopOK, ObserversOK
  <1>1. ASSUME loop = "select", anomaly = None, commandCh # <<>>
        PROVE  Head(commandCh).id = handled + 1 /\ handled + 1 <= accepted
    <2>1. Len(cmdBuf) = 0 /\ flushed = 0
      BY <1>1 DEF OrderInv, FlushOK, BufferNeedsAnomaly
    <2>2. Len(commandCh) >= 1 /\ Head(commandCh) = commandCh[1]
      BY <1>1, <1>T, TailFacts
    <2> QED BY <2>1, <2>2, <1>T DEF OrderInv, CommandsInOrder
  <1>2. ASSUME loop = "flush", flushed < Len(cmdBuf)
        PROVE  cmdBuf[flushed + 1].id = handled + 1 /\ handled + 1 <= accepted
    <2>1. flushed + 1 \in 1..Len(cmdBuf)
      BY <1>2, <1>T
    <2>2. cmdBuf[flushed + 1].id = handled - flushed + (flushed + 1)
      BY <2>1 DEF OrderInv, CommandsInOrder
    <2>3. accepted = handled - flushed + Len(cmdBuf) + Len(commandCh)
      BY DEF OrderInv, CommandsInOrder
    <2> QED BY <1>2, <2>2, <2>3, <1>T
  <1> QED BY <1>1, <1>2

\* Executing the first waiting command keeps the answers behind, and is a step
\* of LossyStream or invisible to it.
LEMMA ProcessAnswers ==
  ASSUME TypeOK, AnswersBehind, NEW c \in Queued, Process(c),
         c.id = handled + 1, handled + 1 <= accepted, accepted' = accepted
  PROVE  AnswersBehind' /\ [Answers!Next]_<<accepted, answers>>
  <1>1. answers \in Seq(Nat) /\ handled \in Nat /\ accepted \in Nat /\ c.id \in Nat
    BY DEF TypeOK, ObserversOK, Queued
  <1>2. handled' = handled + 1 /\ (answers' = answers \/ answers' = Append(answers, c.id))
    BY DEF Process
  <1>3. NewestAnswer \in Nat /\ NewestAnswer <= handled
    BY <1>1 DEF NewestAnswer, AnswersBehind
  <1>4. CASE answers' = answers
    BY <1>1, <1>2, <1>3, <1>4 DEF AnswersBehind, NewestAnswer
  <1>5. CASE answers' = Append(answers, c.id)
    <2>1. /\ answers' # <<>> /\ Len(answers) \in Nat /\ Len(answers') = Len(answers) + 1
          /\ answers'[Len(answers) + 1] = c.id
      BY <1>1, <1>5, AppendFacts
    <2>2. AnswersBehind'
      BY <1>1, <1>2, <2>1 DEF AnswersBehind, NewestAnswer
    <2>3. Answers!Newest = NewestAnswer
      BY DEF Answers!Newest, NewestAnswer
    <2>4. c.id \in 1..accepted /\ Answers!Store(c.id)
      BY <1>1, <1>3, <1>5, <2>3 DEF Answers!Store
    <2> QED BY <2>2, <2>4 DEF Answers!Next
  <1> QED BY <1>2, <1>4, <1>5

\* Every step of the worker is a step of LossyStream or leaves it unchanged.
LEMMA AnswerStep ==
  TypeOK /\ OrderInv /\ AnswersBehind /\ [Next]_vars
    => AnswersBehind' /\ [Answers!Next]_<<accepted, answers>>
  <1> SUFFICES ASSUME TypeOK, OrderInv, AnswersBehind, [Next]_vars
               PROVE  AnswersBehind' /\ [Answers!Next]_<<accepted, answers>>
    OBVIOUS
  <1> DEFINE Goal == AnswersBehind' /\ [Answers!Next]_<<accepted, answers>>
  <1>U. ASSUME UNCHANGED <<accepted, answers, handled>> PROVE Goal
    BY <1>U DEF AnswersBehind, NewestAnswer
  <1>1. CASE TakeCommand
    <2>1. PICK c \in Queued : c = Head(commandCh)
      BY <1>1, TailFacts DEF TakeCommand, TypeOK, ChannelsOK
    <2>2. CASE anomaly = None /\ Process(Head(commandCh))
      <3>1. c.id = handled + 1 /\ handled + 1 <= accepted /\ accepted' = accepted
        BY <1>1, <2>1, <2>2, NextCommand DEF TakeCommand, obsVars
      <3> QED BY <2>1, <2>2, <3>1, ProcessAnswers
    <2>3. CASE UNCHANGED ansVars
      BY <1>1, <2>3, <1>U DEF TakeCommand, ansVars, obsVars
    <2> QED BY <1>1, <2>2, <2>3 DEF TakeCommand
  <1>2. CASE FlushOne
    <2>1. PICK c \in Queued : c = cmdBuf[flushed + 1]
      BY <1>2 DEF FlushOne, TypeOK, LoopOK
    <2>2. c.id = handled + 1 /\ handled + 1 <= accepted /\ accepted' = accepted
      BY <1>2, <2>1, NextCommand DEF FlushOne, obsVars
    <2> QED BY <1>2, <2>1, <2>2, ProcessAnswers DEF FlushOne
  <1>3. ASSUME NEW c \in Commands, PumpEnqueue(c) PROVE Goal
    <2>1. accepted' = accepted + 1 /\ UNCHANGED <<answers, handled>>
      BY <1>3 DEF PumpEnqueue, ansVars
    <2> QED BY <2>1 DEF AnswersBehind, NewestAnswer, Answers!Next, Answers!Produce
  <1>4. ASSUME NEW a \in Anomalies, InjectGatewayAnomaly(a) PROVE Goal
    BY <1>4, <1>U DEF InjectGatewayAnomaly, ansVars
  <1>5. CASE TickDrain \/ TickExpire \/ FlushEnd \/ TickPublish \/ LoopExit
    BY <1>5, <1>U DEF TickDrain, TickExpire, FlushEnd, TickPublish, LoopExit, ansVars,
       obsVars
  <1>6. CASE AnswerAbandoned \/ Stop \/ Clock \/ UNCHANGED vars
    BY <1>6, <1>U DEF AnswerAbandoned, Stop, Clock, vars, ansVars, obsVars
  <1> QED
    BY <1>1, <1>2, <1>3, <1>4, <1>5, <1>6 DEF Next, Tick, Environment

-----------------------------------------------------------------------------
\* A worker that has just started satisfies the invariant.
LEMMA InitIInv == Init => IInv
  <1> SUFFICES ASSUME Init PROVE IInv
    OBVIOUS
  <1>1. /\ commandCh = <<>> /\ configCh = <<>> /\ cmdBuf = <<>> /\ anomalyCh = <<>>
        /\ answers = <<>> /\ flushed = 0 /\ handled = 0 /\ accepted = 0
        /\ gw \in Configs /\ rowFreq = gw.freq /\ promised = gw
    BY DEF Init
  <1>2. TypeOK
    <2>1. ChannelsOK
      BY <1>1, Assumed DEF ChannelsOK, Assumptions
    <2>2. LoopOK
      <3>1. cancelled \in BOOLEAN /\ emitted \in BOOLEAN
        BY Zenon DEF Init
      <3>2. cmdBuf \in Seq(Queued) /\ flushed \in 0..Len(cmdBuf)
        BY <1>1
      <3>3. /\ loop \in {"select", "expire", "flush", "publish", "done"}
            /\ anomaly \in [type : AnomalyTypes, left : Nat] \cup {None}
        BY Zenon DEF Init
      <3> QED BY <1>1, <3>1, <3>2, <3>3 DEF LoopOK
    <2>3. ObserversOK
      <3>1. waiting \in BOOLEAN /\ rowFreq \in Frequencies
        <4>1. waiting \in BOOLEAN
          BY Zenon DEF Init
        <4>2. rowFreq \in Frequencies
          BY <1>1 DEF Configs
        <4> QED BY <4>1, <4>2
      <3>2. injected \in Nat /\ oldest \in Nat /\ answers \in Seq(Nat)
        BY <1>1 DEF Init
      <3> QED BY <1>1, <3>1, <3>2 DEF ObserversOK
    <2> QED BY <2>1, <2>2, <2>3 DEF TypeOK
  <1>3. OrderInv
    BY <1>1 DEF Init, OrderInv, FlushOK, BufferNeedsAnomaly, CommandsInOrder
  <1>4. AckedConfigApplied
    BY <1>1 DEF AckedConfigApplied, Upcoming, Pending
  <1>5. AnswersBehind
    BY <1>1 DEF AnswersBehind, NewestAnswer
  <1> QED BY <1>2, <1>3, <1>4, <1>5 DEF IInv

\* The inductive invariant holds in every reachable state of the worker.
THEOREM WorkerInvariant == Spec => []IInv
  <1>1. IInv /\ [Next]_vars => IInv'
    BY TypeStep, OrderStep, ConfigStep, AnswerStep DEF IInv
  <1> QED BY InitIInv, <1>1, PTL DEF Spec

\* No channel of the worker is overfilled and every variable keeps its type.
THEOREM TypeCorrect == Spec => []TypeOK
  <1>1. IInv => TypeOK
    BY DEF IInv
  <1> QED BY WorkerInvariant, <1>1, PTL

\* The worker executes what the pump enqueued once and in order, whatever
\* anomalies come and go.
THEOREM CommandsKeepOrder == Spec => [](CommandsInOrder /\ BufferNeedsAnomaly)
  <1>1. IInv => CommandsInOrder /\ BufferNeedsAnomaly
    BY DEF IInv, OrderInv
  <1> QED BY WorkerInvariant, <1>1, PTL

\* The worker heads for exactly the configuration its ACKs announced.
THEOREM AcksAreApplied == Spec => []AckedConfigApplied
  <1>1. IInv => AckedConfigApplied
    BY DEF IInv
  <1> QED BY WorkerInvariant, <1>1, PTL

\* sensorLoop executes no command, neither a new nor a buffered one, while an
\* anomaly is active.
THEOREM NothingDuringAnomaly == Spec => QuietDuringAnomaly
  <1>1. IInv /\ [Next]_vars => [handled' # handled => anomaly = None]_vars
    <2> SUFFICES ASSUME IInv, [Next]_vars, handled' # handled PROVE anomaly = None
      OBVIOUS
    <2> USE DEF ansVars
    <2>1. CASE TakeCommand
      BY <2>1 DEF TakeCommand
    <2>2. CASE FlushOne
      BY <2>2 DEF FlushOne, IInv, OrderInv, FlushOK
    <2>3. CASE TickDrain \/ TickExpire \/ FlushEnd \/ TickPublish \/ LoopExit
      BY <2>3 DEF TickDrain, TickExpire, FlushEnd, TickPublish, LoopExit
    <2>4. CASE AnswerAbandoned \/ Stop \/ Clock \/ UNCHANGED vars
      BY <2>4 DEF AnswerAbandoned, Stop, Clock, vars
    <2>5. ASSUME NEW c \in Commands, PumpEnqueue(c) PROVE anomaly = None
      BY <2>5 DEF PumpEnqueue
    <2>6. ASSUME NEW a \in Anomalies, InjectGatewayAnomaly(a) PROVE anomaly = None
      BY <2>6 DEF InjectGatewayAnomaly
    <2> QED
      BY <2>1, <2>2, <2>3, <2>4, <2>5, <2>6 DEF Next, Tick, Environment
  <1> QED BY <1>1, WorkerInvariant, PTL DEF Spec, QuietDuringAnomaly

\* worker.go implements LossyStream: however commands wait, and whichever answers
\* are lost, those on command.ack follow the order of arrival, each given once.
THEOREM AnswersImplementLossyStream == Spec => AnswersSpec
  <1>1. Init => Answers!Init
    BY DEF Init, Answers!Init
  <1>2. IInv /\ [Next]_vars => [Answers!Next]_<<accepted, answers>>
    BY AnswerStep DEF IInv
  <1> QED
    BY <1>1, <1>2, WorkerInvariant, PTL DEF Spec, AnswersSpec, Answers!Spec
=============================================================================
