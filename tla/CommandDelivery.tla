-------------------------- MODULE CommandDelivery --------------------------
(***************************************************************************)
(* How commands reach a worker: JetStream delivers them to the callback of *)
(* the subscriber (internal/adapters/nats/subscriber.go), which checks     *)
(* their time to live and passes them on through a channel; the command    *)
(* pump (internal/app/registry.go, startWorker) moves them to the worker's *)
(* commandCh.  Three goroutines, the callback, the pump and the worker,    *)
(* run beside Stop, which closes all of it.  The callback is live from     *)
(* Connect on: a saga that fails before it has launched the pump closes    *)
(* the subscription itself (compensate).                                   *)
(*                                                                         *)
(* A command is the number of its publication.  Time is reduced to the     *)
(* moment a command's 60 seconds are over.  The module covers one life of  *)
(* a subscription.                                                         *)
(***************************************************************************)
EXTENDS Integers, Sequences

CONSTANTS
  SubCap,       \* capacity of the subscriber's channel
  CommandCap,   \* capacity of commandCh
  MaxDeliver,   \* deliveries JetStream attempts
  MaxCommands   \* bound: commands published

ASSUME BoundsAssumption ==
  /\ SubCap \in Nat \ {0} /\ CommandCap \in Nat \ {0}
  /\ MaxDeliver \in Nat \ {0} /\ MaxCommands \in Nat

Commands == 1..MaxCommands
NoCommand == 0

VARIABLES
  stored,     \* external: state of every command on the stream
  tries,      \* external: deliveries of every command
  malformed,  \* commands whose data is not a command
  stale,      \* commands issued more than 60 s ago
  inbox,      \* external: messages waiting in the client for the callback
  at, cmd,    \* handleMsg: next step and the command it handles
  ch,         \* s.ch
  closed,     \* close(s.ch) was called
  draining,   \* s.sub.Drain() was called
  pump, held, \* command pump: next step and the command it took
  commandCh,  \* w.commandCh
  stop,       \* how far the teardown by Stop, or by compensate, has come
  panicked,   \* a goroutine has panicked, which ends the process
  executed,   \* observer: how often the worker took each command
  dropped,    \* observer: commands the pump dropped
  discarded   \* observer: commands discarded as expired

streamVars   == <<stored, tries, malformed, stale>>
callbackVars == <<at, cmd>>
pumpVars     == <<pump, held>>
vars == <<streamVars, inbox, callbackVars, ch, closed, draining, pumpVars,
          commandCh, stop, panicked, executed, dropped, discarded>>

StreamStates   == {"absent", "waiting", "delivered", "settled", "exhausted"}
CallbackStates == {"idle", "offer", "expired", "ack", "nak"}
PumpStates     == {"none", "select", "offer", "drain", "close", "done"}
StopStates     == {"running", "cancelled", "noPublisher", "noConnection",
                   "failed", "abandoned"}  \* the last two: by compensate

Init ==
  /\ stored = [c \in Commands |-> "absent"]
  /\ tries = [c \in Commands |-> 0]
  /\ malformed = {} /\ stale = {}
  /\ inbox = <<>>
  /\ at = "idle" /\ cmd = NoCommand
  /\ ch = <<>> /\ closed = FALSE /\ draining = FALSE
  /\ pump = "none" /\ held = NoCommand
  /\ commandCh = <<>>
  /\ stop = "running" /\ panicked = FALSE
  /\ executed = [c \in Commands |-> 0]
  /\ dropped = {} /\ discarded = {}

-----------------------------------------------------------------------------
(* external: JetStream, its client and the sender of commands *)

\* A command is published, possibly malformed, possibly too old already: a
\* clock may differ, and a field not named issued_at decodes to the zero time.
Publish(c, isMalformed, isStale) ==
  /\ stored[c] = "absent"
  /\ \A b \in 1..(c - 1) : stored[b] # "absent"
  /\ stored' = [stored EXCEPT ![c] = "waiting"]
  /\ malformed' = IF isMalformed THEN malformed \cup {c} ELSE malformed
  /\ stale' = IF isStale THEN stale \cup {c} ELSE stale
  /\ UNCHANGED <<tries, inbox, callbackVars, ch, closed, draining, pumpVars,
                 commandCh, stop, panicked, executed, dropped, discarded>>

\* Its 60 seconds are over.
GrowStale(c) ==
  /\ stored[c] # "absent"
  /\ c \notin stale
  /\ stale' = stale \cup {c}
  /\ UNCHANGED <<stored, tries, malformed, inbox, callbackVars, ch, closed,
                 draining, pumpVars, commandCh, stop, panicked, executed, dropped,
                 discarded>>

Connected == stop \notin {"noConnection", "abandoned"}

Deliver(c) ==
  /\ stored[c] = "waiting"
  /\ ~draining /\ Connected
  /\ stored' = [stored EXCEPT ![c] = "delivered"]
  /\ tries' = [tries EXCEPT ![c] = @ + 1]
  /\ inbox' = Append(inbox, c)
  /\ UNCHANGED <<malformed, stale, callbackVars, ch, closed, draining, pumpVars,
                 commandCh, stop, panicked, executed, dropped, discarded>>

\* Faulty variant: the subscription sets no limit.
UndeliveredForever(c) == "waiting"

\* A delivery that was not acknowledged is repeated, up to MaxDeliver times.
Undelivered(c) == IF tries[c] < MaxDeliver THEN "waiting" ELSE "exhausted"

AckWaitOver(c) ==
  /\ stored[c] = "delivered"
  /\ stored' = [stored EXCEPT ![c] = Undelivered(c)]
  /\ UNCHANGED <<tries, malformed, stale, inbox, callbackVars, ch, closed, draining,
                 pumpVars, commandCh, stop, panicked, executed, dropped, discarded>>

-----------------------------------------------------------------------------
(* handleMsg; the client runs one callback at a time *)

\* The acknowledgement, or Term, is settled by the server or does not reach it.
Settle(c) == stored' \in {stored, [stored EXCEPT ![c] = "settled"]}

\* The first two branches of handleMsg.
HandleMsg ==
  /\ at = "idle"
  /\ inbox # <<>>
  /\ inbox' = Tail(inbox)
  /\ LET c == Head(inbox)
     IN \/ /\ c \in malformed
           /\ Settle(c)
           /\ UNCHANGED <<callbackVars, discarded>>
        \/ /\ c \in stale \ malformed
           /\ at' = "expired" /\ cmd' = c
           /\ discarded' = discarded \cup {c}
           /\ UNCHANGED stored
        \/ /\ c \notin stale \cup malformed
           /\ at' = "offer" /\ cmd' = c
           /\ UNCHANGED <<stored, discarded>>
  /\ UNCHANGED <<tries, malformed, stale, ch, closed, draining, pumpVars, commandCh,
                 stop, panicked, executed, dropped>>

\* The EXPIRED answer is published, or its failure is logged.  Publish on a
\* closed publisher dereferences nil; compensate does not close it.
AnswerExpired ==
  /\ at = "expired"
  /\ panicked' = (stop \in {"noPublisher", "noConnection"})
  /\ at' = "ack"
  /\ UNCHANGED <<streamVars, inbox, cmd, ch, closed, draining, pumpVars, commandCh,
                 stop, executed, dropped, discarded>>

\* Faulty variant: a command that finds the channel full is acknowledged too.
OfferOrAck ==
  /\ at = "offer"
  /\ panicked' = closed
  /\ ch' = IF ~closed /\ Len(ch) < SubCap THEN Append(ch, cmd) ELSE ch
  /\ at' = "ack"
  /\ UNCHANGED <<streamVars, inbox, cmd, closed, draining, pumpVars, commandCh,
                 stop, executed, dropped, discarded>>

\* The select that passes a command on; a send on a closed channel panics, also
\* in a select with a default.
Offer ==
  /\ at = "offer"
  /\ panicked' = closed
  /\ \/ /\ ~closed /\ Len(ch) < SubCap
        /\ ch' = Append(ch, cmd) /\ at' = "ack"
     \/ /\ closed \/ Len(ch) = SubCap
        /\ UNCHANGED ch /\ at' = "nak"
  /\ UNCHANGED <<streamVars, inbox, cmd, closed, draining, pumpVars, commandCh,
                 stop, executed, dropped, discarded>>

\* Faulty variant: after a failed acknowledgement the command is offered again.
AckOrRepeat ==
  /\ at = "ack"
  /\ Settle(cmd)
  /\ IF stored' = stored THEN at' = "offer" /\ UNCHANGED cmd
                         ELSE at' = "idle" /\ cmd' = NoCommand
  /\ UNCHANGED <<tries, malformed, stale, inbox, ch, closed, draining, pumpVars,
                 commandCh, stop, panicked, executed, dropped, discarded>>

\* msg.Ack(): an error is logged.
Ack ==
  /\ at = "ack"
  /\ IF Connected THEN Settle(cmd) ELSE UNCHANGED stored
  /\ at' = "idle" /\ cmd' = NoCommand
  /\ UNCHANGED <<tries, malformed, stale, inbox, ch, closed, draining, pumpVars,
                 commandCh, stop, panicked, executed, dropped, discarded>>

\* msg.Nak(): JetStream delivers again at once.
Nak ==
  /\ at = "nak"
  /\ \/ UNCHANGED stored
     \/ /\ Connected /\ stored[cmd] = "delivered"
        /\ stored' = [stored EXCEPT ![cmd] = Undelivered(cmd)]
  /\ at' = "idle" /\ cmd' = NoCommand
  /\ UNCHANGED <<tries, malformed, stale, inbox, ch, closed, draining, pumpVars,
                 commandCh, stop, panicked, executed, dropped, discarded>>

-----------------------------------------------------------------------------
(* The command pump and the worker *)

\* startWorker launches the worker's loop and the pump.
StartWorker ==
  /\ pump = "none" /\ stop = "running"
  /\ pump' = "select"
  /\ UNCHANGED <<streamVars, inbox, callbackVars, ch, closed, draining, held,
                 commandCh, stop, panicked, executed, dropped, discarded>>

PumpTake ==
  /\ pump = "select"
  /\ ch # <<>>
  /\ held' = Head(ch)
  /\ ch' = Tail(ch)
  /\ pump' = "offer"
  /\ UNCHANGED <<streamVars, inbox, callbackVars, closed, draining, commandCh, stop,
                 panicked, executed, dropped, discarded>>

\* Faulty variant: the pump waits for room in commandCh.
PumpOfferBlocking ==
  /\ pump = "offer"
  /\ Len(commandCh) < CommandCap
  /\ commandCh' = Append(commandCh, held)
  /\ pump' = "select" /\ held' = NoCommand
  /\ UNCHANGED <<streamVars, inbox, callbackVars, ch, closed, draining, stop,
                 panicked, executed, dropped, discarded>>

\* Faulty variant: the pump returns when commandCh is full.
PumpOfferOrReturn ==
  /\ pump = "offer"
  /\ held' = NoCommand
  /\ \/ /\ Len(commandCh) < CommandCap
        /\ commandCh' = Append(commandCh, held)
        /\ pump' = "select"
        /\ UNCHANGED dropped
     \/ /\ Len(commandCh) = CommandCap
        /\ dropped' = dropped \cup {held}
        /\ pump' = "drain"
        /\ UNCHANGED commandCh
  /\ UNCHANGED <<streamVars, inbox, callbackVars, ch, closed, draining, stop,
                 panicked, executed, discarded>>

\* commandCh takes the command or, when it is full, the pump drops it.
PumpOffer ==
  /\ pump = "offer"
  /\ pump' = "select" /\ held' = NoCommand
  /\ \/ /\ Len(commandCh) < CommandCap
        /\ commandCh' = Append(commandCh, held)
        /\ UNCHANGED dropped
     \/ /\ Len(commandCh) = CommandCap
        /\ dropped' = dropped \cup {held}
        /\ UNCHANGED commandCh
  /\ UNCHANGED <<streamVars, inbox, callbackVars, ch, closed, draining, stop,
                 panicked, executed, discarded>>

\* The cancelled context ends the pump, which runs the deferred sub.Close().
PumpReturn ==
  /\ pump = "select"
  /\ stop # "running"
  /\ pump' = "drain"
  /\ UNCHANGED <<streamVars, inbox, callbackVars, ch, closed, draining, held,
                 commandCh, stop, panicked, executed, dropped, discarded>>

\* sub.Close(), by the pump or by compensate.  Drain ends the deliveries;
\* callbacks for what the client holds go on.
CloseDrain ==
  /\ pump = "drain"
  /\ draining' = TRUE
  /\ pump' = "close"
  /\ UNCHANGED <<streamVars, inbox, callbackVars, ch, closed, held, commandCh, stop,
                 panicked, executed, dropped, discarded>>

CloseChannel ==
  /\ pump = "close"
  /\ closed' = TRUE
  /\ pump' = "done"
  /\ UNCHANGED <<streamVars, inbox, callbackVars, ch, draining, held, commandCh,
                 stop, panicked, executed, dropped, discarded>>

\* sensorLoop takes a command; GatewayWorker says what it does with it.
TakeCommand ==
  /\ stop \in {"running", "cancelled"}
  /\ commandCh # <<>>
  /\ executed' = [executed EXCEPT ![Head(commandCh)] = @ + 1]
  /\ commandCh' = Tail(commandCh)
  /\ UNCHANGED <<streamVars, inbox, callbackVars, ch, closed, draining, pumpVars,
                 stop, panicked, dropped, discarded>>

-----------------------------------------------------------------------------
(* GatewayRegistry.Stop, with the part of GatewayWorker.Stop that it reaches *)

\* commandPumpCancel(), w.cancel()
StopCancel ==
  /\ stop = "running" /\ pump # "none"
  /\ stop' = "cancelled"
  /\ UNCHANGED <<streamVars, inbox, callbackVars, ch, closed, draining, pumpVars,
                 commandCh, panicked, executed, dropped, discarded>>

\* The loop has returned: publisher.Close().
StopPublisher ==
  /\ stop = "cancelled"
  /\ stop' = "noPublisher"
  /\ UNCHANGED <<streamVars, inbox, callbackVars, ch, closed, draining, pumpVars,
                 commandCh, panicked, executed, dropped, discarded>>

\* closeNC(): the client calls no further callback.
StopConnection ==
  /\ stop = "noPublisher"
  /\ stop' = "noConnection"
  /\ inbox' = <<>>
  /\ UNCHANGED <<streamVars, callbackVars, ch, closed, draining, pumpVars, commandCh,
                 panicked, executed, dropped, discarded>>

-----------------------------------------------------------------------------
(* The saga after Connect: ListSensors fails, and compensate undoes the stage *)

\* The saga's goroutine closes the subscription, as the pump would.
Compensate ==
  /\ pump = "none" /\ stop = "running"
  /\ stop' = "failed"
  /\ pump' = "drain"
  /\ UNCHANGED <<streamVars, inbox, callbackVars, ch, closed, draining, held,
                 commandCh, panicked, executed, dropped, discarded>>

\* closeNC()
CompensateConnection ==
  /\ stop = "failed" /\ pump = "done"
  /\ stop' = "abandoned"
  /\ inbox' = <<>>
  /\ UNCHANGED <<streamVars, callbackVars, ch, closed, draining, pumpVars, commandCh,
                 panicked, executed, dropped, discarded>>

-----------------------------------------------------------------------------
JetStream == \E c \in Commands :
  \/ \E m, s \in BOOLEAN : Publish(c, m, s)
  \/ GrowStale(c) \/ Deliver(c) \/ AckWaitOver(c)

Callback == HandleMsg \/ AnswerExpired \/ Offer \/ Ack \/ Nak
Pump     == PumpTake \/ PumpOffer \/ PumpReturn \/ CloseDrain \/ CloseChannel
Stop     == StopCancel \/ StopPublisher \/ StopConnection
Saga     == StartWorker \/ Compensate \/ CompensateConnection

Next ==
  /\ ~panicked
  /\ JetStream \/ Callback \/ Pump \/ TakeCommand \/ Stop \/ Saga

Spec == Init /\ [][Next]_vars

\* The goroutines are scheduled, and the pump's select, which picks at random,
\* does not pass over the cancelled context for ever.  Nothing is assumed of
\* JetStream, of the worker, of Stop or of the saga.
FairSpec == Spec /\ WF_vars(~panicked /\ Pump) /\ SF_vars(~panicked /\ PumpReturn)

-----------------------------------------------------------------------------
(* Properties *)

TypeOK ==
  /\ stored \in [Commands -> StreamStates]
  /\ tries \in [Commands -> 0..MaxDeliver]
  /\ malformed \subseteq Commands /\ stale \subseteq Commands
  /\ inbox \in Seq(Commands)
  /\ at \in CallbackStates /\ (at = "idle" <=> cmd = NoCommand)
  /\ cmd \in Commands \cup {NoCommand}
  /\ ch \in Seq(Commands) /\ Len(ch) <= SubCap
  /\ commandCh \in Seq(Commands) /\ Len(commandCh) <= CommandCap
  /\ closed \in BOOLEAN /\ draining \in BOOLEAN /\ panicked \in BOOLEAN
  /\ pump \in PumpStates /\ (pump = "offer" <=> held # NoCommand)
  /\ held \in Commands \cup {NoCommand}
  /\ stop \in StopStates
  /\ executed \in [Commands -> Nat]
  /\ dropped \subseteq Commands /\ discarded \subseteq Commands

\* copies of c on their way between the callback's select and the worker
Copies(c, q) == {i \in 1..Len(q) : q[i] = c}
OnTheWay(c) == Copies(c, ch) # {} \/ held = c \/ Copies(c, commandCh) # {}

\* handleMsg acknowledges a command only once it has passed it on or discarded
\* it: what JetStream forgets has been executed, was dropped by the pump with a
\* warning, or is in a channel, where Stop may leave it behind.
AckedNotLost ==
  \A c \in Commands : stored[c] = "settled" =>
    c \in malformed \cup discarded \cup dropped \/ executed[c] > 0 \/ OnTheWay(c)

\* Lost acknowledgements make JetStream deliver a command again; it is executed
\* at most once per delivery.
ExecutedPerDelivery == \A c \in Commands : executed[c] <= tries[c]

\* The subscription is only torn down by Stop or by the compensation of a failed
\* saga: until then no callback meets a closed channel or a closed publisher,
\* whatever the pump meets in commandCh.
PanicNeedsTeardown == panicked => stop # "running"

\* After Stop the pump returns and closes the subscription, even when commandCh
\* is full and the worker takes nothing any more; so does compensate.
PumpReturns == stop # "running" ~> pump = "done" \/ panicked
=============================================================================
