----------------------- MODULE CommandDeliveryProofs -----------------------
(***************************************************************************)
(* Theorems about CommandDelivery for every capacity of the two channels,  *)
(* every number of deliveries and of commands.                             *)
(*                                                                         *)
(* The invariant follows a delivery: from the inbox of the client through  *)
(* the callback, s.ch, the pump and commandCh to the worker.  Wherever it  *)
(* is, it is accounted for once (DeliveriesCover), and a command is only   *)
(* acknowledged when it has left the callback for one of the later places  *)
(* or for the log (AckJustified).                                          *)
(***************************************************************************)
EXTENDS CommandDelivery, SequenceFacts, FiniteSetTheorems, TLAPS

\* A command that JetStream may still deliver has a delivery left.
DeliveryLeft ==
  \A c \in Commands : stored[c] \in {"absent", "waiting"} => tries[c] < MaxDeliver

\* How often c is in a channel, and whether the command d in somebody's hand is c.
Count(c, q) == Cardinality(Copies(c, q))
Is(d, c)    == IF d = c THEN 1 ELSE 0

\* What the callback is about to pass on.
Offered == IF at = "offer" THEN cmd ELSE NoCommand

\* Every place where a delivery of c can be.
Deliveries(c) ==
  Count(c, inbox) + Is(Offered, c) + Count(c, ch) + Is(held, c)
    + Count(c, commandCh) + executed[c]

DeliveriesCover == \A c \in Commands : Deliveries(c) <= tries[c]

\* What JetStream may forget of c without losing it.
Accounted(c) ==
  c \in malformed \cup discarded \cup dropped \/ executed[c] > 0 \/ OnTheWay(c)

\* handleMsg acknowledges what is accounted for.
AckJustified ==
  /\ at = "expired" => cmd \in discarded
  /\ at = "ack" => Accounted(cmd)

\* The pump is on its way out, or compensate closes the subscription, only in a
\* teardown.
CloseNeedsTeardown ==
  /\ pump \in {"drain", "close", "done"} => stop # "running"
  /\ closed => pump = "done"

\* The inductive invariant comes in four parts, proved one after the other: the
\* types, DeliveriesCover, the acknowledgements and the end of the subscription.
TypeInv == TypeOK /\ DeliveryLeft
AckInv  == AckedNotLost /\ AckJustified
TeardownInv == CloseNeedsTeardown /\ PanicNeedsTeardown

-----------------------------------------------------------------------------
(* Counting the copies of a command in a channel *)

\* The copies are finite in number.
LEMMA CountType ==
  ASSUME NEW c, NEW q \in Seq(Commands)
  PROVE  IsFiniteSet(Copies(c, q)) /\ Count(c, q) \in Nat
  <1>1. Len(q) \in Nat
    OBVIOUS
  <1>2. IsFiniteSet(1..Len(q)) /\ Copies(c, q) \in SUBSET (1..Len(q))
    BY <1>1, FS_Interval DEF Copies
  <1>3. IsFiniteSet(Copies(c, q))
    BY <1>2, FS_Subset
  <1> QED BY <1>3, FS_CardinalityType DEF Count

\* A channel holds a command exactly when it has a copy of it.
LEMMA CountPositive ==
  ASSUME NEW c, NEW q \in Seq(Commands)
  PROVE  Copies(c, q) # {} <=> Count(c, q) > 0
  BY CountType, FS_EmptySet DEF Count

\* An empty channel holds no copy of a command.
LEMMA CountEmpty == \A c : Count(c, <<>>) = 0
  <1>1. \A c : Copies(c, <<>>) = {}
    BY DEF Copies
  <1> QED BY <1>1, FS_EmptySet DEF Count

\* Sending d adds one copy of d and none of another command.
LEMMA CountAppend ==
  ASSUME NEW c, NEW q \in Seq(Commands), NEW d \in Commands
  PROVE  Count(c, Append(q, d)) = Count(c, q) + Is(d, c)
  <1>1. /\ Len(q) \in Nat /\ Len(Append(q, d)) = Len(q) + 1
        /\ \A i \in 1..Len(q) : Append(q, d)[i] = q[i]
        /\ Append(q, d)[Len(q) + 1] = d
    BY AppendFacts
  <1>2. CASE d = c
    <2>1. Copies(c, Append(q, d)) = Copies(c, q) \cup {Len(q) + 1}
      BY <1>1, <1>2 DEF Copies
    <2>2. Len(q) + 1 \notin Copies(c, q)
      BY <1>1 DEF Copies
    <2> QED BY <1>2, <2>1, <2>2, CountType, FS_AddElement DEF Count, Is
  <1>3. CASE d # c
    <2>1. Copies(c, Append(q, d)) = Copies(c, q)
      BY <1>1, <1>3 DEF Copies
    <2> QED BY <1>3, <2>1, CountType DEF Count, Is
  <1> QED BY <1>2, <1>3

\* Receiving the head removes one copy of it and none of another command.
LEMMA CountTail ==
  ASSUME NEW c, NEW q \in Seq(Commands), q # <<>>
  PROVE  Count(c, q) = Count(c, Tail(q)) + Is(Head(q), c)
  <1>1. /\ Tail(q) \in Seq(Commands)
        /\ Len(q) \in Nat \ {0} /\ Len(Tail(q)) = Len(q) - 1
        /\ \A i \in 1..Len(Tail(q)) : Tail(q)[i] = q[i + 1]
        /\ Head(q) = q[1]
    BY TailFacts
  <1> DEFINE S == Copies(c, q) \ {1}
             T == Copies(c, Tail(q))
             shift == [i \in S |-> i - 1]
  <1>2. IsFiniteSet(S) /\ Cardinality(S) = Cardinality(T)
    <2>1. \A i \in S : i \in 2..Len(q) /\ q[i] = c
      BY <1>1 DEF Copies
    <2>2. \A i \in S : i - 1 \in T
      BY <1>1, <2>1 DEF Copies
    <2>3. \A j \in T : j + 1 \in S /\ j \in Nat
      BY <1>1 DEF Copies
    <2>4. shift \in Injection(S, T)
      BY <2>1, <2>2 DEF Injection, IsInjective
    <2>5. shift \in Surjection(S, T)
      BY <2>1, <2>2, <2>3 DEF Surjection
    <2>6. IsFiniteSet(S)
      BY CountType, FS_RemoveElement
    <2> QED BY <2>4, <2>5, <2>6, FS_Bijection DEF ExistsBijection, Bijection
  <1>3. Head(q) = c <=> 1 \in Copies(c, q)
    BY <1>1 DEF Copies
  <1>4. Cardinality(S) = IF Head(q) = c THEN Count(c, q) - 1 ELSE Count(c, q)
    BY <1>3, CountType, FS_RemoveElement DEF Count
  <1> QED BY <1>2, <1>4, <1>1, CountType DEF Count, Is

-----------------------------------------------------------------------------
(* Types, and the deliveries that are left *)

\* What is on its way somewhere is a command, never NoCommand.
LEMMA CommandFacts ==
  /\ NoCommand \notin Commands
  /\ \A q \in Seq(Commands) : q # <<>> =>
       Head(q) \in Commands /\ Head(q) # NoCommand /\ Tail(q) \in Seq(Commands)
         /\ Len(Tail(q)) = Len(q) - 1 /\ Len(q) \in Nat
  <1>1. NoCommand \notin Commands
    BY BoundsAssumption DEF Commands, NoCommand
  <1> QED BY <1>1, TailFacts

\* Settling or refusing a command leaves the state of the stream well formed.
LEMMA StreamTypes ==
  ASSUME TypeInv, NEW c \in Commands,
         Settle(c) \/ (stored[c] = "delivered"
                         /\ stored' = [stored EXCEPT ![c] = Undelivered(c)])
                   \/ UNCHANGED stored,
         UNCHANGED tries
  PROVE  stored' \in [Commands -> StreamStates] /\ DeliveryLeft'
  <1>1. stored \in [Commands -> StreamStates]
    BY DEF TypeInv, TypeOK
  <1>2. CASE Settle(c) \/ UNCHANGED stored
    BY <1>1, <1>2 DEF TypeInv, DeliveryLeft, Settle, StreamStates
  <1>3. CASE stored' = [stored EXCEPT ![c] = Undelivered(c)]
    BY <1>1, <1>3 DEF TypeInv, DeliveryLeft, Undelivered, StreamStates
  <1> QED BY <1>2, <1>3

\* No action breaks a type, overfills a channel or spends a delivery too many.
LEMMA TypeStep == TypeInv /\ [Next]_vars => TypeInv'
  <1> SUFFICES ASSUME TypeInv, [Next]_vars PROVE TypeInv'
    OBVIOUS
  <1> USE DEF streamVars, callbackVars, pumpVars
  <1>T. /\ inbox \in Seq(Commands) /\ ch \in Seq(Commands) /\ commandCh \in Seq(Commands)
        /\ Len(ch) \in Nat /\ Len(commandCh) \in Nat
        /\ SubCap \in Nat /\ CommandCap \in Nat /\ MaxDeliver \in Nat \ {0}
    BY BoundsAssumption DEF TypeInv, TypeOK
  <1>1. ASSUME NEW c \in Commands, NEW m \in BOOLEAN, NEW s \in BOOLEAN, Publish(c, m, s)
        PROVE  TypeInv'
    <2>1. stored' \in [Commands -> StreamStates] /\ DeliveryLeft'
      BY <1>1 DEF Publish, TypeInv, TypeOK, DeliveryLeft, StreamStates
    <2>2. malformed' \subseteq Commands /\ stale' \subseteq Commands
      BY <1>1 DEF Publish, TypeInv, TypeOK
    <2> QED BY <1>1, <2>1, <2>2 DEF Publish, TypeInv, TypeOK
  <1>2. ASSUME NEW c \in Commands, GrowStale(c)
        PROVE  TypeInv'
    BY <1>2 DEF GrowStale, TypeInv, TypeOK, DeliveryLeft
  <1>3. ASSUME NEW c \in Commands, Deliver(c)
        PROVE  TypeInv'
    <2>1. inbox' \in Seq(Commands)
      BY <1>3, <1>T, AppendFacts DEF Deliver
    <2>2. tries' \in [Commands -> 0..MaxDeliver]
      BY <1>3, <1>T DEF Deliver, TypeInv, TypeOK, DeliveryLeft
    <2>3. stored' \in [Commands -> StreamStates] /\ DeliveryLeft'
      BY <1>3 DEF Deliver, TypeInv, TypeOK, DeliveryLeft, StreamStates
    <2> QED BY <1>3, <2>1, <2>2, <2>3 DEF Deliver, TypeInv, TypeOK
  <1>4. ASSUME NEW c \in Commands, AckWaitOver(c)
        PROVE  TypeInv'
    <2>1. stored' \in [Commands -> StreamStates] /\ DeliveryLeft'
      BY <1>4, StreamTypes DEF AckWaitOver
    <2> QED BY <1>4, <2>1 DEF AckWaitOver, TypeInv, TypeOK
  <1>5. CASE HandleMsg
    <2>1. /\ Head(inbox) \in Commands /\ Head(inbox) # NoCommand
          /\ inbox' \in Seq(Commands)
      BY <1>5, <1>T, CommandFacts DEF HandleMsg
    <2>2. stored' \in [Commands -> StreamStates] /\ DeliveryLeft'
      BY <1>5, <2>1, StreamTypes DEF HandleMsg
    <2>3. /\ at' \in CallbackStates /\ (at' = "idle" <=> cmd' = NoCommand)
          /\ cmd' \in Commands \cup {NoCommand} /\ discarded' \subseteq Commands
      BY <1>5, <2>1 DEF HandleMsg, TypeInv, TypeOK, CallbackStates
    <2> QED BY <1>5, <2>1, <2>2, <2>3 DEF HandleMsg, TypeInv, TypeOK
  <1>6. CASE AnswerExpired
    <2>1. /\ at' \in CallbackStates /\ (at' = "idle" <=> cmd' = NoCommand)
          /\ panicked' \in BOOLEAN
      BY <1>6 DEF AnswerExpired, TypeInv, TypeOK, CallbackStates
    <2> QED BY <1>6, <2>1 DEF AnswerExpired, TypeInv, TypeOK, DeliveryLeft
  <1>7. CASE Offer
    <2>1. /\ at' \in CallbackStates /\ (at' = "idle" <=> cmd' = NoCommand)
          /\ cmd \in Commands
      BY <1>7 DEF Offer, TypeInv, TypeOK, CallbackStates
    <2>2. ch' \in Seq(Commands) /\ Len(ch') <= SubCap
      <3>1. Append(ch, cmd) \in Seq(Commands) /\ Len(Append(ch, cmd)) = Len(ch) + 1
        BY <2>1, <1>T, AppendFacts
      <3>2. Len(ch) <= SubCap
        BY DEF TypeInv, TypeOK
      <3>3. CASE Len(ch) < SubCap /\ ch' = Append(ch, cmd)
        BY <3>1, <3>3, <1>T
      <3>4. CASE UNCHANGED ch
        BY <3>2, <3>4, <1>T
      <3> QED BY <1>7, <3>3, <3>4 DEF Offer
    <2>3. panicked' \in BOOLEAN
      BY <1>7 DEF Offer, TypeInv, TypeOK
    <2> QED BY <1>7, <2>1, <2>2, <2>3 DEF Offer, TypeInv, TypeOK, DeliveryLeft
  <1>8. CASE Ack
    <2>1. cmd \in Commands
      BY <1>8 DEF Ack, TypeInv, TypeOK
    <2>2. stored' \in [Commands -> StreamStates] /\ DeliveryLeft'
      BY <1>8, <2>1, StreamTypes DEF Ack
    <2> QED BY <1>8, <2>2 DEF Ack, TypeInv, TypeOK, CallbackStates
  <1>9. CASE Nak
    <2>1. cmd \in Commands
      BY <1>9 DEF Nak, TypeInv, TypeOK
    <2>2. stored' \in [Commands -> StreamStates] /\ DeliveryLeft'
      BY <1>9, <2>1, StreamTypes DEF Nak
    <2> QED BY <1>9, <2>2 DEF Nak, TypeInv, TypeOK, CallbackStates
  <1>10. CASE PumpTake
    <2>1. /\ held' \in Commands /\ held' # NoCommand
          /\ ch' \in Seq(Commands) /\ Len(ch') <= SubCap
      BY <1>10, <1>T, CommandFacts DEF PumpTake, TypeInv, TypeOK
    <2> QED BY <1>10, <2>1 DEF PumpTake, TypeInv, TypeOK, PumpStates, DeliveryLeft
  <1>11. CASE PumpOffer
    <2>1. held \in Commands
      BY <1>11 DEF PumpOffer, TypeInv, TypeOK
    <2>2. /\ commandCh' \in Seq(Commands) /\ Len(commandCh') <= CommandCap
          /\ dropped' \subseteq Commands
      <3>1. /\ Append(commandCh, held) \in Seq(Commands)
            /\ Len(Append(commandCh, held)) = Len(commandCh) + 1
        BY <2>1, <1>T, AppendFacts
      <3>2. Len(commandCh) <= CommandCap /\ dropped \subseteq Commands
        BY DEF TypeInv, TypeOK
      <3>3. CASE /\ Len(commandCh) < CommandCap /\ commandCh' = Append(commandCh, held)
                 /\ UNCHANGED dropped
        BY <3>1, <3>2, <3>3, <1>T
      <3>4. CASE dropped' = dropped \cup {held} /\ UNCHANGED commandCh
        BY <2>1, <3>2, <3>4, <1>T
      <3> QED BY <1>11, <3>3, <3>4 DEF PumpOffer
    <2> QED BY <1>11, <2>2 DEF PumpOffer, TypeInv, TypeOK, PumpStates, DeliveryLeft
  <1>12. CASE PumpReturn
    BY <1>12 DEF PumpReturn, TypeInv, TypeOK, PumpStates, DeliveryLeft
  <1>13. CASE CloseDrain
    BY <1>13 DEF CloseDrain, TypeInv, TypeOK, PumpStates, DeliveryLeft
  <1>14. CASE CloseChannel
    BY <1>14 DEF CloseChannel, TypeInv, TypeOK, PumpStates, DeliveryLeft
  <1>15. CASE TakeCommand
    <2>1. /\ Head(commandCh) \in Commands
          /\ commandCh' \in Seq(Commands) /\ Len(commandCh') <= CommandCap
      BY <1>15, <1>T, CommandFacts DEF TakeCommand, TypeInv, TypeOK
    <2>2. executed' \in [Commands -> Nat]
      BY <1>15, <2>1 DEF TakeCommand, TypeInv, TypeOK
    <2> QED BY <1>15, <2>1, <2>2 DEF TakeCommand, TypeInv, TypeOK, DeliveryLeft
  <1>16. CASE StopCancel \/ StopPublisher
    BY <1>16 DEF StopCancel, StopPublisher, TypeInv, TypeOK, StopStates, DeliveryLeft
  <1>17. CASE StopConnection
    BY <1>17 DEF StopConnection, TypeInv, TypeOK, StopStates, DeliveryLeft
  <1>18. CASE StartWorker \/ Compensate
    BY <1>18 DEF StartWorker, Compensate, TypeInv, TypeOK, PumpStates, StopStates,
                 DeliveryLeft
  <1>19. CASE CompensateConnection
    BY <1>19 DEF CompensateConnection, TypeInv, TypeOK, StopStates, DeliveryLeft
  <1>20. CASE UNCHANGED vars
    BY <1>20 DEF vars, TypeInv, TypeOK, DeliveryLeft
  <1> QED BY <1>1, <1>2, <1>3, <1>4, <1>5, <1>6, <1>7, <1>8, <1>9, <1>10, <1>11,
             <1>12, <1>13, <1>14, <1>15, <1>16, <1>17, <1>18, <1>19, <1>20
          DEF Next, JetStream, Callback, Pump, Stop, Saga

\* The types of a new process.
LEMMA TypeInit == Init => TypeInv
  <1> SUFFICES ASSUME Init PROVE TypeInv
    OBVIOUS
  <1>1. <<>> \in Seq(Commands) /\ Len(<<>>) = 0
    OBVIOUS
  <1>2. /\ stored \in [Commands -> StreamStates] /\ tries \in [Commands -> 0..MaxDeliver]
        /\ executed \in [Commands -> Nat] /\ DeliveryLeft
    BY BoundsAssumption DEF Init, StreamStates, DeliveryLeft
  <1>3. inbox \in Seq(Commands) /\ ch \in Seq(Commands) /\ commandCh \in Seq(Commands)
        /\ Len(ch) <= SubCap /\ Len(commandCh) <= CommandCap
    BY <1>1, BoundsAssumption DEF Init
  <1> QED BY <1>2, <1>3
          DEF Init, TypeInv, TypeOK, CallbackStates, PumpStates, StopStates

\* The state of the command path keeps its types, the two channels never exceed
\* their capacity (the selects of handleMsg and of the pump), and JetStream never
\* delivers a command more than MaxDeliver times.
THEOREM TypeCorrect == Spec => []TypeOK
  <1>1. Spec => []TypeInv
    BY TypeInit, TypeStep, PTL DEF Spec
  <1>2. TypeInv => TypeOK
    BY DEF TypeInv
  <1> QED BY <1>1, <1>2, PTL

-----------------------------------------------------------------------------
(* Every delivery is in one place *)

\* The steps that move a delivery move it from one place to the next.
LEMMA DeliveriesStep == TypeInv /\ DeliveriesCover /\ [Next]_vars => DeliveriesCover'
  <1> SUFFICES ASSUME TypeInv, DeliveriesCover, [Next]_vars, NEW c \in Commands
               PROVE  (Deliveries(c) <= tries[c])'
    BY DEF DeliveriesCover
  <1> USE DEF streamVars, callbackVars, pumpVars
  <1>T. /\ inbox \in Seq(Commands) /\ ch \in Seq(Commands) /\ commandCh \in Seq(Commands)
        /\ tries \in [Commands -> Nat] /\ executed \in [Commands -> Nat]
    BY BoundsAssumption DEF TypeInv, TypeOK
  <1>N. /\ Count(c, inbox) \in Nat /\ Count(c, ch) \in Nat /\ Count(c, commandCh) \in Nat
        /\ tries[c] \in Nat /\ executed[c] \in Nat
        /\ \A d : Is(d, c) \in Nat
    BY <1>T, CountType DEF Is
  <1>C. Deliveries(c) <= tries[c]
    BY DEF DeliveriesCover
  <1>1. CASE UNCHANGED <<tries, inbox, callbackVars, ch, held, commandCh, executed>>
    BY <1>1, <1>C DEF Deliveries, Offered
  <1>2. ASSUME NEW d \in Commands, Deliver(d)
        PROVE  (Deliveries(c) <= tries[c])'
    <2>1. Count(c, inbox') = Count(c, inbox) + Is(d, c)
      BY <1>2, <1>T, CountAppend DEF Deliver
    <2>2. tries'[c] = tries[c] + Is(d, c)
      BY <1>2, <1>T DEF Deliver, Is
    <2>3. Deliveries(c)' = Deliveries(c) + Is(d, c)
      BY <1>2, <2>1, <1>N DEF Deliver, Deliveries, Offered
    <2>4. Deliveries(c) \in Nat
      BY <1>N DEF Deliveries
    <2> QED BY <2>2, <2>3, <2>4, <1>C, <1>N
  <1>3. CASE HandleMsg
    <2>1. Count(c, inbox) = Count(c, inbox') + Is(Head(inbox), c)
      BY <1>3, <1>T, CountTail DEF HandleMsg
    <2>2. Count(c, inbox') \in Nat
      BY <1>3, <1>T, CountType, CommandFacts DEF HandleMsg
    <2>3. Offered # c /\ (Offered' = c => Head(inbox) = c)
      BY <1>3, CommandFacts DEF HandleMsg, Offered
    <2>4. Is(Offered, c) = 0 /\ Is(Offered', c) \in Nat /\ Is(Offered', c) <= Is(Head(inbox), c)
      BY <2>3 DEF Is
    <2>5. UNCHANGED <<tries, ch, held, commandCh, executed>>
      BY <1>3 DEF HandleMsg
    <2> QED BY <2>1, <2>2, <2>4, <2>5, <1>N, <1>C DEF Deliveries
  <1>4. CASE Offer
    <2>1. Offered' # c /\ Offered = cmd /\ cmd \in Commands
      BY <1>4, CommandFacts DEF Offer, TypeInv, TypeOK, Offered
    <2>2. Count(c, ch') \in Nat /\ Count(c, ch') <= Count(c, ch) + Is(cmd, c)
      <3>1. CASE ch' = Append(ch, cmd)
        BY <3>1, <2>1, <1>T, <1>N, CountAppend DEF Is
      <3>2. CASE UNCHANGED ch
        BY <3>2, <1>N DEF Is
      <3> QED BY <1>4, <3>1, <3>2 DEF Offer
    <2>3. Is(Offered', c) = 0 /\ Is(Offered, c) = Is(cmd, c)
      BY <2>1 DEF Is
    <2>4. UNCHANGED <<tries, inbox, held, commandCh, executed>>
      BY <1>4 DEF Offer
    <2> QED BY <2>2, <2>3, <2>4, <1>N, <1>C DEF Deliveries
  <1>5. CASE AnswerExpired \/ Ack \/ Nak
    <2>1. UNCHANGED <<tries, inbox, ch, held, commandCh, executed, Offered>>
      BY <1>5 DEF AnswerExpired, Ack, Nak, Offered
    <2> QED BY <2>1, <1>C DEF Deliveries
  <1>6. CASE PumpTake
    <2>1. Count(c, ch) = Count(c, ch') + Is(held', c) /\ Count(c, ch') \in Nat
      BY <1>6, <1>T, CountTail, CountType, CommandFacts DEF PumpTake
    <2>2. held # c
      BY <1>6, CommandFacts DEF PumpTake, TypeInv, TypeOK
    <2>3. Is(held, c) = 0 /\ UNCHANGED Offered
      BY <1>6, <2>2 DEF PumpTake, Is, Offered
    <2> QED BY <1>6, <2>1, <2>3, <1>N, <1>C DEF PumpTake, Deliveries
  <1>7. CASE PumpOffer
    <2>1. held \in Commands /\ held' # c
      BY <1>7, CommandFacts DEF PumpOffer, TypeInv, TypeOK
    <2>2. /\ Count(c, commandCh') \in Nat
          /\ Count(c, commandCh') <= Count(c, commandCh) + Is(held, c)
      <3>1. CASE commandCh' = Append(commandCh, held)
        BY <3>1, <2>1, <1>T, <1>N, CountAppend DEF Is
      <3>2. CASE UNCHANGED commandCh
        BY <3>2, <1>N DEF Is
      <3> QED BY <1>7, <3>1, <3>2 DEF PumpOffer
    <2>3. Is(held', c) = 0 /\ UNCHANGED Offered
      BY <1>7, <2>1 DEF PumpOffer, Is, Offered
    <2>4. UNCHANGED <<tries, inbox, ch, executed>>
      BY <1>7 DEF PumpOffer
    <2> QED BY <2>2, <2>3, <2>4, <1>N, <1>C DEF Deliveries
  <1>8. CASE TakeCommand
    <2>1. /\ Count(c, commandCh) = Count(c, commandCh') + Is(Head(commandCh), c)
          /\ Count(c, commandCh') \in Nat
      BY <1>8, <1>T, CountTail, CountType, CommandFacts DEF TakeCommand
    <2>2. executed'[c] = executed[c] + Is(Head(commandCh), c)
      BY <1>8, <1>T, CommandFacts DEF TakeCommand, Is
    <2>3. Deliveries(c)' = Deliveries(c)
      BY <1>8, <2>1, <2>2, <1>N DEF TakeCommand, Deliveries, Offered
    <2> QED BY <1>8, <2>3, <1>C DEF TakeCommand
  <1>9. CASE StopConnection \/ CompensateConnection
    <2>1. /\ Count(c, inbox') = 0
          /\ UNCHANGED <<tries, callbackVars, ch, held, commandCh, executed>>
      BY <1>9, CountEmpty DEF StopConnection, CompensateConnection
    <2> QED BY <2>1, <1>N, <1>C DEF Deliveries, Offered
  <1>10. CASE \/ StopCancel \/ StopPublisher \/ StartWorker \/ Compensate
              \/ PumpReturn \/ CloseDrain \/ CloseChannel
    BY <1>1, <1>10 DEF StopCancel, StopPublisher, StartWorker, Compensate,
                       PumpReturn, CloseDrain, CloseChannel
  <1>11. ASSUME NEW d \in Commands, NEW m \in BOOLEAN, NEW s \in BOOLEAN,
                Publish(d, m, s) \/ GrowStale(d) \/ AckWaitOver(d)
         PROVE  (Deliveries(c) <= tries[c])'
    BY <1>1, <1>11 DEF Publish, GrowStale, AckWaitOver
  <1>12. CASE UNCHANGED vars
    BY <1>1, <1>12 DEF vars
  <1> QED BY <1>2, <1>3, <1>4, <1>5, <1>6, <1>7, <1>8, <1>9, <1>10, <1>11, <1>12
          DEF Next, JetStream, Callback, Pump, Stop, Saga

\* Lost acknowledgements make JetStream repeat a delivery (MaxDeliver), and the
\* subscriber has no memory of what it has passed on; yet no command is executed
\* more often than it was delivered: no hand-over between callback, pump and
\* worker doubles it.
THEOREM ExecutedOncePerDelivery == Spec => []ExecutedPerDelivery
  <1>1. Init => DeliveriesCover
    BY CountEmpty, CommandFacts
       DEF Init, DeliveriesCover, Deliveries, Offered, Is
  <1>2. TypeInv /\ DeliveriesCover => ExecutedPerDelivery
    <2> SUFFICES ASSUME TypeInv, DeliveriesCover, NEW c \in Commands
                 PROVE  executed[c] <= tries[c]
      BY DEF ExecutedPerDelivery
    <2>1. /\ Count(c, inbox) \in Nat /\ Count(c, ch) \in Nat /\ Count(c, commandCh) \in Nat
          /\ tries[c] \in Nat /\ executed[c] \in Nat
          /\ \A d : Is(d, c) \in Nat
      BY CountType, BoundsAssumption DEF TypeInv, TypeOK, Is
    <2>2. Deliveries(c) <= tries[c]
      BY DEF DeliveriesCover
    <2> QED BY <2>1, <2>2 DEF Deliveries
  <1> QED BY <1>1, <1>2, TypeInit, TypeStep, DeliveriesStep, PTL DEF Spec

-----------------------------------------------------------------------------
(* What is acknowledged is accounted for *)

\* A copy survives a send; a receive takes the head and nothing else.
LEMMA CopiesKept ==
  ASSUME NEW q \in Seq(Commands), NEW c \in Commands
  PROVE  /\ \A d \in Commands : Copies(c, q) # {} => Copies(c, Append(q, d)) # {}
         /\ Copies(c, Append(q, c)) # {}
         /\ q # <<>> /\ Copies(c, q) # {} => Head(q) = c \/ Copies(c, Tail(q)) # {}
  <1>1. ASSUME NEW d \in Commands
        PROVE  Copies(c, Append(q, d)) # {} <=> Copies(c, q) # {} \/ d = c
    <2>1. /\ Append(q, d) \in Seq(Commands) /\ Count(c, q) \in Nat
          /\ Count(c, Append(q, d)) = Count(c, q) + Is(d, c)
      BY AppendFacts, CountType, CountAppend
    <2>2. /\ Copies(c, q) # {} <=> Count(c, q) > 0
          /\ Copies(c, Append(q, d)) # {} <=> Count(c, Append(q, d)) > 0
      BY <2>1, CountPositive
    <2> QED BY <2>1, <2>2 DEF Is
  <1>2. ASSUME q # <<>>
        PROVE  Copies(c, q) # {} <=> Copies(c, Tail(q)) # {} \/ Head(q) = c
    <2>1. /\ Tail(q) \in Seq(Commands) /\ Count(c, Tail(q)) \in Nat
          /\ Count(c, q) = Count(c, Tail(q)) + Is(Head(q), c)
      BY <1>2, CommandFacts, CountType, CountTail
    <2>2. /\ Copies(c, q) # {} <=> Count(c, q) > 0
          /\ Copies(c, Tail(q)) # {} <=> Count(c, Tail(q)) > 0
      BY <2>1, CountPositive
    <2> QED BY <2>1, <2>2 DEF Is
  <1> QED BY <1>1, <1>2

\* Once a command is accounted for it stays so: the pump hands it on or drops it,
\* the worker executes it, and nothing empties s.ch or commandCh.
LEMMA AccountedStep ==
  ASSUME TypeInv, [Next]_vars, NEW c \in Commands, Accounted(c)
  PROVE  Accounted(c)'
  <1> USE DEF streamVars, callbackVars, pumpVars
  <1>T. /\ ch \in Seq(Commands) /\ commandCh \in Seq(Commands)
        /\ executed \in [Commands -> Nat]
        /\ (held \in Commands \/ held = NoCommand) /\ cmd \in Commands \cup {NoCommand}
    BY DEF TypeInv, TypeOK
  <1>1. ASSUME /\ malformed \subseteq malformed' /\ discarded \subseteq discarded'
               /\ UNCHANGED <<dropped, executed, ch, held, commandCh>>
        PROVE  Accounted(c)'
    BY <1>1 DEF Accounted, OnTheWay
  <1>2. CASE Offer
    <2>1. cmd \in Commands
      BY <1>2 DEF Offer, TypeInv, TypeOK
    <2>2. Copies(c, ch) # {} => Copies(c, ch') # {}
      BY <1>2, <2>1, <1>T, CopiesKept DEF Offer
    <2> QED BY <1>2, <2>2 DEF Offer, Accounted, OnTheWay
  <1>3. CASE PumpTake
    <2>1. Copies(c, ch) # {} => held' = c \/ Copies(c, ch') # {}
      BY <1>3, <1>T, CopiesKept DEF PumpTake
    <2>2. held # c
      BY <1>3, CommandFacts DEF PumpTake, TypeInv, TypeOK
    <2> QED BY <1>3, <2>1, <2>2 DEF PumpTake, Accounted, OnTheWay
  <1>4. CASE PumpOffer
    <2>1. held \in Commands
      BY <1>4 DEF PumpOffer, TypeInv, TypeOK
    <2>2. Copies(c, commandCh) # {} => Copies(c, commandCh') # {}
      BY <1>4, <2>1, <1>T, CopiesKept DEF PumpOffer
    <2>3. held = c => c \in dropped' \/ Copies(c, commandCh') # {}
      BY <1>4, <1>T, CopiesKept DEF PumpOffer
    <2> QED BY <1>4, <2>2, <2>3 DEF PumpOffer, Accounted, OnTheWay
  <1>5. CASE TakeCommand
    <2>1. Copies(c, commandCh) # {} => Head(commandCh) = c \/ Copies(c, commandCh') # {}
      BY <1>5, <1>T, CopiesKept DEF TakeCommand
    <2>2. /\ executed[c] > 0 => executed'[c] > 0
          /\ Head(commandCh) = c => executed'[c] > 0
      BY <1>5, <1>T DEF TakeCommand
    <2> QED BY <1>5, <2>1, <2>2 DEF TakeCommand, Accounted, OnTheWay
  <1>6. CASE HandleMsg
    BY <1>1, <1>6 DEF HandleMsg
  <1>7. CASE AnswerExpired \/ Ack \/ Nak
    BY <1>1, <1>7 DEF AnswerExpired, Ack, Nak
  <1>8. CASE PumpReturn \/ CloseDrain \/ CloseChannel
    BY <1>1, <1>8 DEF PumpReturn, CloseDrain, CloseChannel
  <1>9. CASE Stop \/ Saga
    BY <1>1, <1>9 DEF Stop, StopCancel, StopPublisher, StopConnection,
                      Saga, StartWorker, Compensate, CompensateConnection
  <1>10. CASE JetStream
    BY <1>1, <1>10 DEF JetStream, Publish, GrowStale, Deliver, AckWaitOver
  <1>11. CASE UNCHANGED vars
    BY <1>1, <1>11 DEF vars
  <1> QED BY <1>2, <1>3, <1>4, <1>5, <1>6, <1>7, <1>8, <1>9, <1>10, <1>11
          DEF Next, Callback, Pump

\* The callback reaches its Ack only with a command that is accounted for.
LEMMA JustifiedStep == TypeInv /\ AckInv /\ [Next]_vars => AckJustified'
  <1> SUFFICES ASSUME TypeInv, AckInv, [Next]_vars PROVE AckJustified'
    OBVIOUS
  <1> USE DEF streamVars, callbackVars, pumpVars
  <1>1. ASSUME UNCHANGED <<callbackVars, discarded>>
        PROVE  AckJustified'
    <2>1. cmd \in Commands \/ at # "ack"
      BY DEF TypeInv, TypeOK
    <2>2. ASSUME NEW c \in Commands, c = cmd, at = "ack"
          PROVE  Accounted(c)'
      BY <2>2, AccountedStep DEF AckInv, AckJustified
    <2>3. at' = "ack" => Accounted(cmd)'
      BY <1>1, <2>1, <2>2 DEF Accounted, OnTheWay
    <2> QED BY <1>1, <2>3 DEF AckInv, AckJustified
  <1>2. CASE HandleMsg
    BY <1>1, <1>2 DEF HandleMsg, AckJustified
  <1>3. CASE AnswerExpired
    BY <1>3 DEF AnswerExpired, AckInv, AckJustified, Accounted
  <1>4. CASE Offer
    <2>1. cmd \in Commands /\ ch \in Seq(Commands)
      BY <1>4 DEF Offer, TypeInv, TypeOK
    <2>2. at' = "ack" => Copies(cmd, ch') # {}
      BY <1>4, <2>1, CopiesKept DEF Offer
    <2> QED BY <1>4, <2>2 DEF Offer, AckJustified, Accounted, OnTheWay
  <1>5. CASE Ack \/ Nak
    BY <1>5 DEF Ack, Nak, AckJustified
  <1>6. CASE Pump \/ TakeCommand
    BY <1>1, <1>6 DEF Pump, PumpTake, PumpOffer, PumpReturn, CloseDrain, CloseChannel,
                      TakeCommand
  <1>7. CASE Stop \/ Saga
    BY <1>1, <1>7 DEF Stop, StopCancel, StopPublisher, StopConnection,
                      Saga, StartWorker, Compensate, CompensateConnection
  <1>8. CASE JetStream
    BY <1>1, <1>8 DEF JetStream, Publish, GrowStale, Deliver, AckWaitOver
  <1>9. CASE UNCHANGED vars
    BY <1>1, <1>9 DEF vars
  <1> QED BY <1>2, <1>3, <1>4, <1>5, <1>6, <1>7, <1>8, <1>9 DEF Next, Callback

\* A command is settled by the Term of a malformed one or by an Ack.
LEMMA AckedStep == TypeInv /\ AckInv /\ [Next]_vars => AckedNotLost'
  <1> SUFFICES ASSUME TypeInv, AckInv, [Next]_vars,
                      NEW c \in Commands, stored'[c] = "settled"
               PROVE  Accounted(c)'
    BY DEF AckedNotLost, Accounted, OnTheWay
  <1> USE DEF streamVars
  <1>1. CASE stored[c] = "settled"
    BY <1>1, AccountedStep DEF AckInv, AckedNotLost, Accounted
  <1>2. CASE stored[c] # "settled"
    <2>T. stored \in [Commands -> StreamStates] /\ inbox \in Seq(Commands)
      BY DEF TypeInv, TypeOK
    <2>1. CASE HandleMsg
      <3>1. c = Head(inbox) /\ c \in malformed'
        BY <1>2, <2>1, <2>T, CommandFacts DEF HandleMsg, Settle
      <3> QED BY <3>1 DEF Accounted
    <2>2. CASE Ack
      <3>1. c = cmd
        BY <1>2, <2>2, <2>T DEF Ack, Settle
      <3>2. Accounted(c)
        BY <2>2, <3>1 DEF Ack, AckInv, AckJustified
      <3> QED BY <3>2, AccountedStep
    <2>3. ~Nak
      BY <1>2, <2>T DEF Nak, Undelivered
    <2>4. ~(AnswerExpired \/ Offer)
      BY <1>2 DEF AnswerExpired, Offer
    <2>5. ~JetStream
      BY <1>2, <2>T DEF JetStream, Publish, GrowStale, Deliver, AckWaitOver, Undelivered
    <2>6. ~(Pump \/ TakeCommand)
      BY <1>2 DEF Pump, PumpTake, PumpOffer, PumpReturn, CloseDrain, CloseChannel,
                  TakeCommand
    <2>7. ~(Stop \/ Saga \/ UNCHANGED vars)
      BY <1>2 DEF Stop, StopCancel, StopPublisher, StopConnection,
                  Saga, StartWorker, Compensate, CompensateConnection, vars
    <2> QED BY <2>1, <2>2, <2>3, <2>4, <2>5, <2>6, <2>7 DEF Next, Callback
  <1> QED BY <1>1, <1>2

\* An acknowledged command is not lost: whatever is lost or repeated on the way
\* to JetStream, and whenever Stop interferes, a command JetStream forgets was
\* malformed, expired, dropped with a warning or executed, or is in a channel.
THEOREM AcknowledgedIsNotLost == Spec => []AckedNotLost
  <1>1. Init => AckInv
    BY DEF Init, AckInv, AckedNotLost, AckJustified
  <1>2. TypeInv /\ AckInv /\ [Next]_vars => AckInv'
    BY JustifiedStep, AckedStep DEF AckInv
  <1>3. AckInv => AckedNotLost
    BY DEF AckInv
  <1> QED BY <1>1, <1>2, <1>3, TypeInit, TypeStep, PTL DEF Spec

-----------------------------------------------------------------------------
(* Only Stop and the compensation of a saga tear the subscription down *)

\* Until Stop has cancelled the worker, or compensate undoes a saga that failed
\* after Connect, neither the channel nor the publisher is closed, so that no
\* callback of handleMsg panics: the pump never returns for another reason, and
\* its deferred sub.Close() is the only other way to the channel.
THEOREM PanicsNeedTeardown == Spec => []PanicNeedsTeardown
  <1> USE DEF TeardownInv, CloseNeedsTeardown, PanicNeedsTeardown, streamVars, callbackVars, pumpVars
  <1>1. Init => TeardownInv
    BY DEF Init
  <1>2. TeardownInv /\ [Next]_vars => TeardownInv'
    <2> SUFFICES ASSUME TeardownInv, [Next]_vars PROVE TeardownInv'
      OBVIOUS
    <2>1. CASE JetStream
      <3>1. UNCHANGED <<pump, closed, stop, panicked>>
        BY <2>1 DEF JetStream, Publish, GrowStale, Deliver, AckWaitOver
      <3> QED BY <3>1
    <2>2. CASE Callback
      <3>1. UNCHANGED <<pump, closed, stop>>
        BY <2>2 DEF Callback, HandleMsg, AnswerExpired, Offer, Ack, Nak
      <3>2. panicked' => panicked \/ closed \/ stop \in {"noPublisher", "noConnection"}
        BY <2>2 DEF Callback, HandleMsg, AnswerExpired, Offer, Ack, Nak
      <3> QED BY <3>1, <3>2
    <2>3. CASE Pump
      BY <2>3 DEF Pump, PumpTake, PumpOffer, PumpReturn, CloseDrain, CloseChannel
    <2>4. CASE TakeCommand
      BY <2>4 DEF TakeCommand
    <2>5. CASE Stop \/ Saga
      BY <2>5 DEF Stop, StopCancel, StopPublisher, StopConnection,
                  Saga, StartWorker, Compensate, CompensateConnection
    <2>6. CASE UNCHANGED vars
      BY <2>6 DEF vars
    <2> QED BY <2>1, <2>2, <2>3, <2>4, <2>5, <2>6 DEF Next
  <1>3. TeardownInv => PanicNeedsTeardown
    OBVIOUS
  <1> QED BY <1>1, <1>2, <1>3, PTL DEF Spec
=============================================================================
