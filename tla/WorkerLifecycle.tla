-------------------------- MODULE WorkerLifecycle --------------------------
(***************************************************************************)
(* One worker object and everybody who starts and stops it                 *)
(* (internal/app/worker.go, Start and Stop, called from registry.go).      *)
(* HTTP requests, the decommission callback and the shutdown call          *)
(* GatewayRegistry's Start, Stop, Delete, HandleDecommission and StopAll;  *)
(* each won Start launches a life of the worker: a context, a done         *)
(* channel, a sensor loop and a flush goroutine.  The fields w.done and    *)
(* w.cancel are shared by all lives and are not guarded, isRunning and     *)
(* publisherClosed are atomics, and the publisher has a lock of its own.   *)
(*                                                                         *)
(* Every atomic operation, access of a shared field, channel operation and *)
(* lock is one step.  What the loop does with a tick or a command is in    *)
(* GatewayWorker, the buffer in MessageBuffer and the command pump in      *)
(* CommandDelivery: here the buffer may hold a message and the channel a   *)
(* command at any time.  Of the row only the status column is followed.    *)
(***************************************************************************)
EXTENDS Integers, FiniteSets

CONSTANTS
  Callers,   \* goroutines that call a lifecycle method
  MaxLives   \* bound: lives of the worker, the first one included

ASSUME LivesAssumption == MaxLives \in Nat \ {0}
ASSUME CallersAssumption == IsFiniteSet(Callers)

Lives == 1..MaxLives

VARIABLES
  pc, kind,      \* per caller: next step, and the method it runs
  mine,          \* per caller: the life it launches, or whose done it waits for
  registered,    \* the worker is in r.workers
  status,        \* the status column of its row: the text of the last Start or
                 \* Stop, "other" for whatever else it may hold, or "deleted"
                 \* without a row
  running,       \* w.isRunning
  lives,         \* lives so far: done channels made by Start
  doneField,     \* w.done: the life whose channel it is
  cancelField,   \* w.cancel: the life whose context it cancels
  closedDone,    \* lives whose done channel is closed
  cancelled,     \* lives whose context is cancelled
  loop, flush,   \* per life: where its two goroutines are
  captured,      \* per life: the done channel its loop will close
  pubClosed,     \* w.publisherClosed
  js,            \* the publisher still has its JetStream context
  phase,         \* of the process
  mixed,         \* history: a Start and a Stop have overlapped
  timedOut       \* history: a Stop has given up waiting

callVars == <<pc, kind, mine>>
lifeVars == <<running, lives, doneField, cancelField, cancelled>>
goVars   == <<loop, flush, captured, closedDone>>
netVars  == <<pubClosed, js>>
rowVars  == <<registered, status>>
histVars == <<mixed, timedOut>>
vars == <<callVars, rowVars, lifeVars, goVars, netVars, phase, histVars>>

Starting == {"check", "start", "makeDone", "launch", "setOnline"}
Stopping == {"swap", "cancel", "readDone", "await", "closePub", "after"}
Kinds    == {"start", "stop", "remove", "shutdown"}
Phases   == {"up", "stopping", "ended", "nilPublisher", "doneClosedTwice"}

Live == phase \in {"up", "stopping"}
In(labels) == {c \in Callers : pc[c] \in labels}

\* startWorker has launched the first life and registered the worker, which
\* everybody can find from now on; its UpdateStatus is still to come.
Init ==
  /\ pc = [c \in Callers |-> "idle"]
  /\ kind = [c \in Callers |-> "start"]
  /\ mine = [c \in Callers |-> 1]
  /\ registered = TRUE /\ status = "other"
  /\ running = TRUE /\ lives = 1 /\ doneField = 1 /\ cancelField = 1 /\ cancelled = {}
  /\ loop = [n \in Lives |-> IF n = 1 THEN "begin" ELSE "none"]
  /\ flush = [n \in Lives |-> IF n = 1 THEN "select" ELSE "none"]
  /\ captured = [n \in Lives |-> 1]
  /\ closedDone = {}
  /\ pubClosed = FALSE /\ js = TRUE
  /\ phase = "up"
  /\ mixed = FALSE /\ timedOut = FALSE

Goto(c, l) == pc' = [pc EXCEPT ![c] = l] /\ UNCHANGED <<kind, mine>>

Return(c) ==
  /\ pc' = [pc EXCEPT ![c] = "idle"]
  /\ kind' = [kind EXCEPT ![c] = "start"]
  /\ mine' = [mine EXCEPT ![c] = 1]

\* The process ends, by a panic that nobody recovers or after StopAll: its
\* goroutines and objects are gone, the row remains.
Die(cause) ==
  /\ phase' = cause
  /\ pc' = [c \in Callers |-> "idle"]
  /\ kind' = [c \in Callers |-> "start"] /\ mine' = [c \in Callers |-> 1]
  /\ registered' = FALSE
  /\ running' = FALSE /\ lives' = 1 /\ doneField' = 1 /\ cancelField' = 1 /\ cancelled' = {}
  /\ loop' = [n \in Lives |-> "none"] /\ flush' = [n \in Lives |-> "none"]
  /\ captured' = [n \in Lives |-> 1] /\ closedDone' = {}
  /\ UNCHANGED <<status, netVars, histVars>>

\* A method begins; the history notes a Start that meets a Stop.
Call(c, k, l, others) ==
  /\ pc[c] = "idle"
  /\ pc' = [pc EXCEPT ![c] = l]
  /\ kind' = [kind EXCEPT ![c] = k]
  /\ mixed' = (mixed \/ In(others) # {})
  /\ UNCHANGED <<mine, status, lifeVars, goVars, netVars, timedOut>>

-----------------------------------------------------------------------------
(* GatewayRegistry.Start and GatewayWorker.Start *)

\* An unknown gateway is a 404.  The bound MaxLives ends the restarts.
StartLookup(c) ==
  /\ phase = "up" /\ registered
  /\ lives < MaxLives
  /\ Call(c, "start", "check", Stopping)
  /\ UNCHANGED <<registered, phase>>

\* IsRunning() is a short cut: the state may have changed when w.Start runs.
StartCheck(c) ==
  /\ Live /\ pc[c] = "check"
  /\ \/ running /\ Return(c)
     \/ ~running /\ Goto(c, "start")
  /\ UNCHANGED <<rowVars, lifeVars, goVars, netVars, phase, histVars>>

\* isRunning.Swap(true): the loser leaves the launch to the winner.
StartSwap(c) ==
  /\ Live /\ pc[c] = "start"
  /\ running \/ lives + Cardinality(In({"makeDone"})) < MaxLives
  /\ running' = TRUE
  /\ Goto(c, IF running THEN "setOnline" ELSE "makeDone")
  /\ UNCHANGED <<rowVars, lives, doneField, cancelField, cancelled, goVars, netVars,
                 phase, histVars>>

\* w.done = make(chan struct{})
StartMakeDone(c) ==
  /\ Live /\ pc[c] = "makeDone"
  /\ lives' = lives + 1
  /\ doneField' = lives + 1
  /\ pc' = [pc EXCEPT ![c] = "launch"]
  /\ mine' = [mine EXCEPT ![c] = lives + 1]
  /\ UNCHANGED <<kind, rowVars, running, cancelField, cancelled, goVars, netVars, phase, histVars>>

\* ctx, w.cancel = context.WithCancel(ctx), and the two go statements, which
\* touch nothing that is shared.
StartLaunch(c) ==
  /\ Live /\ pc[c] = "launch"
  /\ cancelField' = mine[c]
  /\ loop' = [loop EXCEPT ![mine[c]] = "begin"]
  /\ flush' = [flush EXCEPT ![mine[c]] = "select"]
  /\ Goto(c, "setOnline")
  /\ UNCHANGED <<captured, closedDone, rowVars, running, lives, doneField, cancelled,
                 netVars, phase, histVars>>

\* store.UpdateStatus succeeds: nothing to update without a row.
UpdateStatus(s) == status' = IF status = "deleted" THEN status ELSE s

\* The last call of Start and Stop.  It has the context of the request, which is
\* cancelled when the client leaves, and fails then or when the store fails: the
\* text of an earlier writer stays.  Nor is the text followed further when a Start
\* has met a Stop.
TellStatus(s) == (~mixed /\ UpdateStatus(s)) \/ UpdateStatus("other")

StartUpdateStatus(c) ==
  /\ Live /\ pc[c] = "setOnline"
  /\ TellStatus("online")
  /\ Return(c)
  /\ UNCHANGED <<registered, lifeVars, goVars, netVars, phase, histVars>>

-----------------------------------------------------------------------------
(* Stop, Delete, HandleDecommission and StopAll, and GatewayWorker.Stop *)

\* Each looks the worker up; commandPumpCancel is in CommandDelivery.
StopLookup(c) ==
  /\ phase = "up" /\ registered
  /\ Call(c, "stop", "swap", Starting)
  /\ UNCHANGED <<registered, phase>>

\* Delete and HandleDecommission take the worker out of the map.
RemoveLookup(c) ==
  /\ Live /\ registered
  /\ Call(c, "remove", "swap", Starting)
  /\ registered' = FALSE
  /\ UNCHANGED phase

\* handleShutdown: no more requests; StopAll stops what is in the map.
ShutdownLookup(c) ==
  /\ phase = "up" /\ registered
  /\ Call(c, "shutdown", "swap", Starting)
  /\ phase' = "stopping"
  /\ UNCHANGED registered

\* isRunning.Swap(false): only one caller goes on to stop the worker.
StopSwap(c) ==
  /\ Live /\ pc[c] = "swap"
  /\ running' = FALSE
  /\ Goto(c, IF running THEN "cancel" ELSE "after")
  /\ UNCHANGED <<rowVars, lives, doneField, cancelField, cancelled, goVars, netVars, phase, histVars>>

\* Faulty variant: the field is cleared after the call.
StopCancelForgets(c) ==
  /\ Live /\ pc[c] = "cancel"
  /\ cancelled' = cancelled \cup {cancelField}
  /\ cancelField' = 0
  /\ Goto(c, "readDone")
  /\ UNCHANGED <<rowVars, running, lives, doneField, goVars, netVars, phase, histVars>>

\* w.cancel(), whichever context the field belongs to now.
StopCancel(c) ==
  /\ Live /\ pc[c] = "cancel"
  /\ cancelled' = cancelled \cup {cancelField}
  /\ Goto(c, "readDone")
  /\ UNCHANGED <<rowVars, running, lives, doneField, cancelField, goVars, netVars, phase, histVars>>

\* Faulty variant: Stop does not wait for the loop.
StopNoWait(c) ==
  /\ Live /\ pc[c] = "readDone"
  /\ pubClosed' = TRUE
  /\ Goto(c, IF pubClosed THEN "after" ELSE "closePub")
  /\ UNCHANGED <<rowVars, lifeVars, goVars, js, phase, histVars>>

\* The select of Stop begins: it waits on the channel w.done holds now.
StopReadDone(c) ==
  /\ Live /\ pc[c] = "readDone"
  /\ pc' = [pc EXCEPT ![c] = "await"]
  /\ mine' = [mine EXCEPT ![c] = doneField]
  /\ UNCHANGED <<kind, rowVars, lifeVars, goVars, netVars, phase, histVars>>

\* The channel is closed or the timeout has passed, and then
\* publisherClosed.CompareAndSwap(false, true).
StopAwait(c) ==
  /\ Live /\ pc[c] = "await"
  /\ \/ mine[c] \in closedDone /\ UNCHANGED timedOut
     \/ mine[c] \notin closedDone /\ timedOut' = TRUE
  /\ pubClosed' = TRUE
  /\ Goto(c, IF pubClosed THEN "after" ELSE "closePub")
  /\ UNCHANGED <<rowVars, lifeVars, goVars, js, phase, mixed>>

\* Lives with a goroutine inside Publish, which holds the publisher's read lock.
Publishing == {n \in Lives : loop[n] = "publish" \/ flush[n] = "publish"}

\* publisher.Close waits for the lock and drops the JetStream context; closeNC
\* closes the connection, which the subscription shares (CommandDelivery).
StopClosePublisher(c) ==
  /\ Live /\ pc[c] = "closePub"
  /\ Publishing = {}
  /\ js' = FALSE
  /\ Goto(c, "after")
  /\ UNCHANGED <<rowVars, lifeVars, goVars, pubClosed, phase, histVars>>

\* Faulty variant: Stop leaves the status to the caller that closed the publisher.
StopReturnEarly(c) ==
  /\ Live /\ pc[c] = "after" /\ kind[c] # "shutdown"
  /\ \/ kind[c] = "stop" /\ ~pubClosed /\ TellStatus("offline")
     \/ kind[c] = "stop" /\ pubClosed /\ UNCHANGED status
     \/ kind[c] = "remove" /\ status' \in {"deleted", status}
  /\ Return(c)
  /\ UNCHANGED <<registered, lifeVars, goVars, netVars, phase, histVars>>

\* The callers go on: Stop updates the status, Delete and HandleDecommission
\* delete the row or fail to.
StopReturn(c) ==
  /\ Live /\ pc[c] = "after" /\ kind[c] # "shutdown"
  /\ \/ kind[c] = "stop" /\ TellStatus("offline")
     \/ kind[c] = "remove" /\ status' \in {"deleted", status}
  /\ Return(c)
  /\ UNCHANGED <<registered, lifeVars, goVars, netVars, phase, histVars>>

\* StopAll returns, and app.Run with it.
ShutdownReturn(c) ==
  /\ Live /\ pc[c] = "after" /\ kind[c] = "shutdown"
  /\ Die("ended")

-----------------------------------------------------------------------------
(* The other writers of the status *)

\* The last call of startWorker, however late, writes online; a failure is logged.
\* That it comes once is left out.
ReportOnline ==
  /\ Live /\ status # "other"
  /\ UpdateStatus("other")
  /\ UNCHANGED <<registered, callVars, lifeVars, goVars, netVars, phase, histVars>>

\* A config_update command carries a status, which the loop stores as it is.
LoopStoreStatus(n) ==
  /\ Live /\ loop[n] = "select" /\ status # "other"
  /\ UpdateStatus("other")
  /\ UNCHANGED <<registered, callVars, lifeVars, goVars, netVars, phase, histVars>>

-----------------------------------------------------------------------------
(* The goroutines of a life *)

\* The first statement of sensorLoop evaluates the argument of its deferred
\* close: the channel that w.done holds by then.
LoopBegin(n) ==
  /\ Live /\ loop[n] = "begin"
  /\ captured' = [captured EXCEPT ![n] = doneField]
  /\ loop' = [loop EXCEPT ![n] = "select"]
  /\ UNCHANGED <<flush, closedDone, callVars, rowVars, lifeVars, netVars, phase, histVars>>

\* Publish takes the read lock, which waits for a writer that is waiting itself.
CanLock == Live /\ In({"closePub"}) = {}

\* A command, or the end of an anomaly, has an answer to publish; the telemetry
\* of a tick only goes to the buffer.
LoopPublish(n) ==
  /\ CanLock /\ js
  /\ loop[n] = "select"
  /\ loop' = [loop EXCEPT ![n] = "publish"]
  /\ UNCHANGED <<flush, captured, closedDone, callVars, rowVars, lifeVars, netVars, phase, histVars>>

\* ctx.Done: the deferred close of the captured channel.
LoopExit(n) ==
  /\ Live /\ loop[n] = "select"
  /\ n \in cancelled
  /\ captured[n] \notin closedDone
  /\ loop' = [loop EXCEPT ![n] = "ended"]
  /\ closedDone' = closedDone \cup {captured[n]}
  /\ UNCHANGED <<flush, captured, callVars, rowVars, lifeVars, netVars, phase, histVars>>

\* Another loop has closed it: close panics.
LoopExitTwice(n) ==
  /\ Live /\ loop[n] = "select"
  /\ n \in cancelled
  /\ captured[n] \in closedDone
  /\ Die("doneClosedTwice")

\* Faulty variant: Flush does not watch its context.
FlushNeverExit(n) ==
  /\ FALSE
  /\ UNCHANGED vars

FlushExit(n) ==
  /\ Live /\ flush[n] = "select"
  /\ n \in cancelled
  /\ flush' = [flush EXCEPT ![n] = "ended"]
  /\ UNCHANGED <<loop, captured, closedDone, callVars, rowVars, lifeVars, netVars, phase, histVars>>

\* Flush has received a message from the buffer.
FlushPublish(n) ==
  /\ CanLock /\ js
  /\ flush[n] = "select"
  /\ flush' = [flush EXCEPT ![n] = "publish"]
  /\ UNCHANGED <<loop, captured, closedDone, callVars, rowVars, lifeVars, netVars, phase, histVars>>

\* A closed publisher has no JetStream context left: a nil dereference.
PublishOnClosed(n) ==
  /\ CanLock /\ ~js
  /\ loop[n] = "select" \/ flush[n] = "select"
  /\ Die("nilPublisher")

\* js.Publish returns: NATS has answered, or the context it was given is
\* cancelled.  Without either it waits.
Published(n) ==
  /\ Live
  /\ \/ /\ loop[n] = "publish"
        /\ loop' = [loop EXCEPT ![n] = "select"]
        /\ UNCHANGED flush
     \/ /\ flush[n] = "publish"
        /\ flush' = [flush EXCEPT ![n] = "select"]
        /\ UNCHANGED loop
  /\ UNCHANGED <<captured, closedDone, callVars, rowVars, lifeVars, netVars, phase, histVars>>

-----------------------------------------------------------------------------
StartStep(c) ==
  \/ StartCheck(c) \/ StartSwap(c) \/ StartMakeDone(c) \/ StartLaunch(c)
  \/ StartUpdateStatus(c)

StopStep(c) ==
  \/ StopSwap(c) \/ StopCancel(c) \/ StopReadDone(c) \/ StopAwait(c)
  \/ StopClosePublisher(c) \/ StopReturn(c)
  \/ ShutdownReturn(c)

Lookup(c) == StartLookup(c) \/ StopLookup(c) \/ RemoveLookup(c) \/ ShutdownLookup(c)

LifeStep(n) ==
  \/ LoopBegin(n) \/ LoopPublish(n) \/ LoopExit(n) \/ LoopExitTwice(n)
  \/ FlushPublish(n) \/ FlushExit(n)
  \/ PublishOnClosed(n) \/ Published(n)

RowStep == ReportOnline \/ \E n \in Lives : LoopStoreStatus(n)

Next ==
  \/ \E c \in Callers : Lookup(c) \/ StartStep(c) \/ StopStep(c)
  \/ \E n \in Lives : LifeStep(n)
  \/ RowStep

Spec == Init /\ [][Next]_vars

\* Faulty variant: the publications are given a context that nobody cancels.
NeverReleased(n) == FALSE

\* The context of the publications of a life is the life's own.
Released(n) == n \in cancelled

\* Goroutines that can go on are scheduled, and a Publish whose context is
\* cancelled returns.  A select draws among its ready cases at random, so a
\* cancelled context is noticed in the end (strong fairness of the exits; each
\* goroutine exits once, so that one condition serves them all).  NATS need not
\* answer, and nobody has to call.
FairSpec ==
  /\ Spec
  /\ \A c \in Callers : WF_vars(StartStep(c) \/ StopStep(c))
  /\ WF_vars(\E n \in Lives : LoopBegin(n) \/ (Released(n) /\ Published(n)))
  /\ SF_vars(\E n \in Lives : LoopExit(n) \/ LoopExitTwice(n) \/ FlushExit(n))

-----------------------------------------------------------------------------
(* Properties *)

GoTypeOK ==
  /\ loop \in [Lives -> {"none", "begin", "select", "publish", "ended"}]
  /\ flush \in [Lives -> {"none", "select", "publish", "ended"}]
  /\ captured \in [Lives -> Lives]
  /\ closedDone \subseteq Lives

\* Types; a caller is in the steps of its own method, and nothing of a life that
\* was not launched exists.
TypeOK ==
  /\ pc \in [Callers -> {"idle"} \cup Starting \cup Stopping]
  /\ kind \in [Callers -> Kinds] /\ mine \in [Callers -> Lives]
  /\ \A c \in Callers : /\ pc[c] \in Starting => kind[c] = "start"
                        /\ pc[c] \in Stopping => kind[c] # "start"
  /\ registered \in BOOLEAN /\ status \in {"online", "offline", "other", "deleted"}
  /\ running \in BOOLEAN /\ lives \in Lives
  /\ doneField \in 1..lives /\ cancelField \in 1..lives /\ cancelled \subseteq 1..lives
  /\ GoTypeOK
  /\ \A n \in Lives : n > lives => loop[n] = "none" /\ flush[n] = "none"
  /\ pubClosed \in BOOLEAN /\ js \in BOOLEAN
  /\ phase \in Phases
  /\ mixed \in BOOLEAN /\ timedOut \in BOOLEAN

Looping == {n \in Lives : loop[n] \notin {"none", "ended"}}
Calm    == Live /\ \A c \in Callers : pc[c] = "idle"

\* As long as no Start has met a Stop and no Stop has timed out, at most one
\* sensor loop exists, however many Starts race with one another: the loop owns
\* the worker's anomaly, its command buffer and its configuration without a lock.
SingleLoop == ~mixed /\ ~timedOut => Cardinality(Looping) <= 1

\* Between calls that did not meet, the loop and isRunning agree: a started worker
\* has a loop that nobody has cancelled, a stopped one has none.  So does the
\* stored status of a registered gateway, whatever Starts or Stops ran side by
\* side, when it is the text of the last of them: Start and Stop write it after
\* the rest, while startWorker and the commands may write it at any time.
StateAgrees ==
  Calm /\ ~mixed => /\ running <=> Looping \ cancelled # {}
                    /\ registered /\ status # "other" => (status = "online" <=> running)

\* Stop waits for the loop so that its last answers still find a publisher: when
\* the publisher is closed no loop is left, unless a Stop gave up waiting.
CloseAfterLoop ==
  [][js /\ ~js' /\ ~mixed /\ ~timedOut => Looping = {}]_vars

\* Stop, Delete, HandleDecommission and StopAll return although NATS may never
\* answer a publication: the wait for the loop is bounded, and Close waits for
\* goroutines whose context is cancelled.
StopReturns == \A c \in Callers : pc[c] \in Stopping ~> (pc[c] \notin Stopping \/ ~Live \/ mixed)

\* The goroutines of a life whose context is cancelled end, also when the Stop
\* that cancelled it met another Start.
CancelledEnds ==
  []<>(Live => \A n \in cancelled : loop[n] = "ended" /\ flush[n] = "ended")

\* README: stop means stop telemetry emission, start means start it.  Neither
\* ends the process, which serves every other gateway: not even when no Stop
\* ever gave up waiting.
NoPanic == ~timedOut => phase \notin {"nilPublisher", "doneClosedTwice"}
=============================================================================
