----------------------- MODULE WorkerLifecycleProofs -----------------------
(***************************************************************************)
(* Theorems about WorkerLifecycle for any finite set of callers and any    *)
(* number of lives.                                                        *)
(*                                                                         *)
(* isRunning.Swap elects, among the callers of one kind, the winner that   *)
(* launches or stops a life.  Nothing but the absence of the other kind    *)
(* keeps two winners apart (~mixed), and nothing but the wait for done     *)
(* keeps the loops of two lives apart (~timedOut): the invariant is stated *)
(* under these two histories.                                              *)
(***************************************************************************)
EXTENDS WorkerLifecycle, FiniteSetTheorems, TLAPS

\* Lives that a caller is about to begin have a number left, whatever races.
Room == lives + Cardinality(In({"makeDone"})) <= MaxLives

\* What a life knows of the others: w.done is the newest channel, and a loop only
\* ever closes a channel that was made.
LivesInOrder ==
  /\ doneField = lives
  /\ \A n \in Lives : captured[n] <= lives
  /\ closedDone \subseteq 1..lives
  /\ \A c \in Callers : pc[c] = "launch" => mine[c] <= lives

TypeInv == TypeOK /\ Room /\ LivesInOrder

-----------------------------------------------------------------------------
\* The steps of the caller that won a Swap.
Launching == {"makeDone", "launch"}
Ending    == {"cancel", "readDone", "await", "closePub"}
Winning   == Launching \cup Ending

\* The current life has been launched and is not cancelled yet.
Serving == (running /\ In(Launching) = {}) \/ In({"cancel"}) # {}

\* Callers of one kind at a time, one winner among them, and isRunning says which
\* kind has come past its Swap last.
OneWinner ==
  /\ \A c, d \in Callers : ~(pc[c] \in Starting /\ pc[d] \in Stopping)
  /\ \A c, d \in Callers : pc[c] \in Winning /\ pc[d] \in Winning => c = d
  /\ \A c \in Callers : /\ pc[c] \in Launching \cup {"setOnline"} => running
                        /\ pc[c] \in Stopping \ {"swap"} => ~running

\* Exactly the current life has a loop that nobody has cancelled.
OneServing ==
  /\ Looping \ cancelled = IF Serving THEN {lives} ELSE {}
  /\ Serving => cancelField = lives
  /\ \A c \in In({"launch"}) :
       mine[c] = lives /\ lives \notin cancelled /\ loop[lives] = "none"

\* Who is still on the way to the row when isRunning and the status, where it is
\* the text of a Start or Stop, differ.
StatusFollows ==
  registered =>
    /\ status # "deleted"
    /\ \A c \in Callers : pc[c] \in Stopping => kind[c] # "remove"
    /\ running /\ status = "offline" => In(Launching \cup {"setOnline"}) # {}
    /\ ~running /\ status = "online" => In(Stopping \ {"swap"}) # {}

CalmInv == ~mixed /\ Live => OneWinner /\ OneServing /\ StatusFollows

\* Stop waits: a cancelled loop that still runs has a Stop waiting for its channel.
WaitInv ==
  ~mixed /\ ~timedOut /\ Live =>
    /\ Looping \subseteq {lives}
    /\ Looping \cap cancelled # {} => In({"readDone", "await"}) # {}
    /\ \A c \in In({"await"}) : mine[c] = lives
    /\ loop[lives] \in {"select", "publish"} => captured[lives] = lives
    /\ lives \in closedDone => loop[lives] = "ended"

\* After the end of the process nothing is left.
EndInv == ~Live => Looping = {}

-----------------------------------------------------------------------------
(* Types *)

\* A step that sends nobody to makeDone and counts no life leaves the room.
LEMMA RoomKept ==
  ASSUME Room, lives \in Nat, lives' = lives,
         \A c \in Callers : pc'[c] = "makeDone" => pc[c] = "makeDone"
  PROVE  Room'
  <1>1. In({"makeDone"})' \subseteq In({"makeDone"}) /\ IsFiniteSet(In({"makeDone"}))
    BY CallersAssumption, FS_Subset DEF In
  <1>2. /\ Cardinality(In({"makeDone"})) \in Nat
        /\ Cardinality(In({"makeDone"})') \in Nat
        /\ Cardinality(In({"makeDone"})') <= Cardinality(In({"makeDone"}))
    BY <1>1, FS_Subset, FS_CardinalityType
  <1> QED BY <1>2, LivesAssumption DEF Room

\* Where a caller may go next without leaving its method.
LEMMA GotoTypes ==
  ASSUME TypeOK, NEW c \in Callers, NEW l \in Starting \cup Stopping, Goto(c, l),
         pc[c] \in Starting <=> l \in Starting, pc[c] # "idle"
  PROVE  /\ pc' \in [Callers -> {"idle"} \cup Starting \cup Stopping]
         /\ kind' \in [Callers -> Kinds] /\ mine' \in [Callers -> Lives]
         /\ \A d \in Callers : /\ pc'[d] \in Starting => kind'[d] = "start"
                               /\ pc'[d] \in Stopping => kind'[d] # "start"
         /\ \A d \in Callers \ {c} : pc'[d] = pc[d]
         /\ pc'[c] = l /\ mine' = mine
  <1>1. Starting \cap Stopping = {}
    BY DEF Starting, Stopping
  <1> QED BY <1>1 DEF TypeOK, Goto

\* A caller whose method returns is idle again.
LEMMA ReturnTypes ==
  ASSUME TypeOK, NEW c \in Callers, Return(c)
  PROVE  /\ pc' \in [Callers -> {"idle"} \cup Starting \cup Stopping]
         /\ kind' \in [Callers -> Kinds] /\ mine' \in [Callers -> Lives]
         /\ \A d \in Callers : /\ pc'[d] \in Starting => kind'[d] = "start"
                               /\ pc'[d] \in Stopping => kind'[d] # "start"
         /\ \A d \in Callers \ {c} : pc'[d] = pc[d] /\ mine'[d] = mine[d]
         /\ pc'[c] = "idle"
  <1>1. "idle" \notin Starting \cup Stopping /\ 1 \in Lives /\ "start" \in Kinds
    BY LivesAssumption DEF Starting, Stopping, Lives, Kinds
  <1> QED BY <1>1 DEF TypeOK, Return

\* A method begins with its first step.
LEMMA CallTypes ==
  ASSUME TypeOK, NEW c \in Callers, NEW k \in Kinds, NEW l \in {"check", "swap"},
         k = "start" <=> l = "check", NEW others, Call(c, k, l, others)
  PROVE  /\ pc' \in [Callers -> {"idle"} \cup Starting \cup Stopping]
         /\ kind' \in [Callers -> Kinds] /\ mine' \in [Callers -> Lives]
         /\ \A d \in Callers : /\ pc'[d] \in Starting => kind'[d] = "start"
                               /\ pc'[d] \in Stopping => kind'[d] # "start"
         /\ \A d \in Callers \ {c} : pc'[d] = pc[d]
         /\ pc[c] = "idle" /\ pc'[c] = l /\ mine' = mine /\ mixed' \in BOOLEAN
  <1>1. "check" \in Starting \ Stopping /\ "swap" \in Stopping \ Starting
    BY DEF Starting, Stopping
  <1> QED BY <1>1 DEF TypeOK, Call

\* The end of the process.
LEMMA DieTypes ==
  ASSUME TypeInv, NEW cause \in Phases, Die(cause)
  PROVE  TypeInv'
  <1>1. "idle" \notin Starting \cup Stopping /\ "start" \in Kinds
    BY DEF Starting, Stopping, Kinds
  <1>2. 1 \in Lives /\ 1 \in 1..1
    BY LivesAssumption DEF Lives
  <1>3. TypeOK'
    BY <1>1, <1>2 DEF TypeInv, TypeOK, GoTypeOK, Die, netVars, histVars
  <1>4. Room'
    <2>1. In({"makeDone"})' = {}
      BY DEF Die, In
    <2> QED BY <2>1, FS_EmptySet, LivesAssumption DEF Die, Room
  <1>5. LivesInOrder'
    BY <1>2 DEF Die, LivesInOrder, Lives
  <1> QED BY <1>3, <1>4, <1>5 DEF TypeInv

\* The other writers of the status touch nothing else.
LEMMA RowSteps ==
  ASSUME RowStep
  PROVE  /\ Live /\ UpdateStatus("other")
         /\ UNCHANGED <<registered, callVars, lifeVars, goVars, netVars, phase, histVars>>
  BY DEF RowStep, ReportOnline, LoopStoreStatus

\* No action breaks a type, counts a life too many or mistakes a channel.
LEMMA TypeStep == TypeInv /\ [Next]_vars => TypeInv'
  <1> SUFFICES ASSUME TypeInv, [Next]_vars PROVE TypeInv'
    OBVIOUS
  <1> USE DEF callVars, lifeVars, goVars, netVars, rowVars, histVars
  <1>T. /\ TypeOK /\ Room /\ LivesInOrder
        /\ lives \in Nat /\ lives \in Lives
        /\ 1..lives \subseteq Lives /\ \A n \in Lives : n \in Nat
    BY LivesAssumption DEF TypeInv, TypeOK, Lives
  <1>L. /\ \A l \in {"start", "makeDone", "launch", "setOnline"} : l \in Starting
        /\ \A l \in {"cancel", "readDone", "await", "closePub", "after"} :
             l \in Stopping
        /\ "check" \in Starting /\ "swap" \in Stopping /\ Starting \cap Stopping = {}
        /\ "idle" \notin Starting \cup Stopping
        /\ {"start", "stop", "remove", "shutdown"} \subseteq Kinds
    BY DEF Starting, Stopping, Kinds
  <1>K. ASSUME UNCHANGED <<lives, doneField, captured, closedDone>>,
               \A d \in Callers : /\ pc'[d] = "makeDone" => pc[d] = "makeDone"
                                  /\ pc'[d] = "launch" => pc[d] = "launch" /\ mine'[d] = mine[d]
        PROVE  Room' /\ LivesInOrder'
    BY <1>K, <1>T, RoomKept DEF LivesInOrder
  <1>1. ASSUME NEW c \in Callers, Lookup(c)
        PROVE  TypeInv'
    <2>1. ASSUME NEW k \in Kinds, NEW l \in {"check", "swap"},
                 k = "start" <=> l = "check", NEW others, Call(c, k, l, others),
                 registered' \in BOOLEAN, phase' \in Phases
          PROVE  TypeInv'
      <3>1. /\ pc' \in [Callers -> {"idle"} \cup Starting \cup Stopping]
            /\ kind' \in [Callers -> Kinds] /\ mine' \in [Callers -> Lives]
            /\ \A d \in Callers : /\ pc'[d] \in Starting => kind'[d] = "start"
                                  /\ pc'[d] \in Stopping => kind'[d] # "start"
            /\ \A d \in Callers \ {c} : pc'[d] = pc[d]
            /\ pc'[c] = l /\ mine' = mine /\ mixed' \in BOOLEAN
        BY <2>1, <1>T, CallTypes
      <3>2. Room' /\ LivesInOrder'
        BY <2>1, <3>1, <1>K DEF Call
      <3>3. TypeOK'
        BY <2>1, <3>1, <1>T DEF Call, TypeOK, GoTypeOK
      <3> QED BY <3>2, <3>3 DEF TypeInv
    <2>2. CASE StartLookup(c)
      BY <2>1, <2>2, <1>L, <1>T DEF StartLookup, TypeOK
    <2>3. CASE StopLookup(c)
      BY <2>1, <2>3, <1>L, <1>T DEF StopLookup, TypeOK
    <2>4. CASE RemoveLookup(c)
      BY <2>1, <2>4, <1>L, <1>T DEF RemoveLookup, TypeOK
    <2>5. CASE ShutdownLookup(c)
      BY <2>1, <2>5, <1>L, <1>T DEF ShutdownLookup, TypeOK, Phases
    <2> QED BY <1>1, <2>2, <2>3, <2>4, <2>5 DEF Lookup
  <1>2. ASSUME NEW c \in Callers, Return(c),
               UNCHANGED <<registered, lifeVars, goVars, netVars, phase, histVars>>,
               status' \in {"online", "offline", "other", "deleted"}
        PROVE  TypeInv'
    <2>1. /\ pc' \in [Callers -> {"idle"} \cup Starting \cup Stopping]
          /\ kind' \in [Callers -> Kinds] /\ mine' \in [Callers -> Lives]
          /\ \A d \in Callers : /\ pc'[d] \in Starting => kind'[d] = "start"
                                /\ pc'[d] \in Stopping => kind'[d] # "start"
          /\ \A d \in Callers \ {c} : pc'[d] = pc[d] /\ mine'[d] = mine[d]
          /\ pc'[c] = "idle"
      BY <1>2, <1>T, ReturnTypes
    <2>2. Room' /\ LivesInOrder'
      BY <1>2, <2>1, <1>K
    <2>3. TypeOK'
      BY <1>2, <2>1, <1>T DEF TypeOK, GoTypeOK
    <2> QED BY <2>2, <2>3 DEF TypeInv
  <1>3. ASSUME NEW c \in Callers, NEW l \in Starting \cup Stopping, Goto(c, l),
               pc[c] \in Starting <=> l \in Starting, pc[c] # "idle",
               l \notin {"makeDone", "launch"},
               UNCHANGED <<rowVars, lives, doneField, captured, closedDone, phase, mixed>>,
               running' \in BOOLEAN, cancelField' \in 1..lives, cancelled' \subseteq 1..lives,
               timedOut' \in BOOLEAN, pubClosed' \in BOOLEAN, js' \in BOOLEAN,
               GoTypeOK', \A n \in Lives : n > lives => loop'[n] = "none" /\ flush'[n] = "none"
        PROVE  TypeInv'
    <2>1. /\ pc' \in [Callers -> {"idle"} \cup Starting \cup Stopping]
          /\ kind' \in [Callers -> Kinds] /\ mine' \in [Callers -> Lives]
          /\ \A d \in Callers : /\ pc'[d] \in Starting => kind'[d] = "start"
                                /\ pc'[d] \in Stopping => kind'[d] # "start"
          /\ \A d \in Callers \ {c} : pc'[d] = pc[d]
          /\ pc'[c] = l /\ mine' = mine
      BY <1>3, <1>T, GotoTypes
    <2>2. Room' /\ LivesInOrder'
      BY <1>3, <2>1, <1>K
    <2>3. TypeOK'
      BY <1>3, <2>1, <1>T DEF TypeOK
    <2> QED BY <2>2, <2>3 DEF TypeInv
  <1>4. ASSUME NEW c \in Callers, StartStep(c)
        PROVE  TypeInv'
    <2>1. CASE StartCheck(c)
      BY <2>1, <1>2, <1>3, <1>L, <1>T DEF StartCheck, TypeOK, GoTypeOK
    <2>2. CASE StartSwap(c) /\ running
      BY <2>2, <1>3, <1>L, <1>T DEF StartSwap, TypeOK, GoTypeOK
    <2>3. CASE StartSwap(c) /\ ~running
      <3>1. Goto(c, "makeDone") /\ pc[c] = "start" /\ running' = TRUE
        BY <2>3 DEF StartSwap
      <3>2. /\ pc' \in [Callers -> {"idle"} \cup Starting \cup Stopping]
            /\ kind' \in [Callers -> Kinds] /\ mine' \in [Callers -> Lives]
            /\ \A d \in Callers : /\ pc'[d] \in Starting => kind'[d] = "start"
                                  /\ pc'[d] \in Stopping => kind'[d] # "start"
            /\ \A d \in Callers \ {c} : pc'[d] = pc[d]
            /\ pc'[c] = "makeDone" /\ mine' = mine
        BY <3>1, <1>T, <1>L, GotoTypes
      <3>3. Room'
        <4>1. In({"makeDone"})' = In({"makeDone"}) \cup {c} /\ IsFiniteSet(In({"makeDone"}))
          BY <3>2, CallersAssumption, FS_Subset DEF In
        <4>2. Cardinality(In({"makeDone"})) \in Nat
          BY <4>1, FS_CardinalityType
        <4>4. Cardinality(In({"makeDone"})')
                \in {Cardinality(In({"makeDone"})), Cardinality(In({"makeDone"})) + 1}
          BY <4>1, FS_AddElement
        <4>3. lives + Cardinality(In({"makeDone"})) < MaxLives /\ lives' = lives
          BY <2>3 DEF StartSwap
        <4> QED BY <4>2, <4>3, <4>4, <1>T, LivesAssumption DEF Room
      <3>4. LivesInOrder'
        BY <2>3, <3>2, <1>T DEF StartSwap, LivesInOrder
      <3>5. TypeOK'
        BY <2>3, <3>2, <1>T DEF StartSwap, TypeOK, GoTypeOK
      <3> QED BY <3>3, <3>4, <3>5 DEF TypeInv
    <2>4. CASE StartMakeDone(c)
      <3>1. /\ pc[c] = "makeDone" /\ lives' = lives + 1
            /\ pc' = [pc EXCEPT ![c] = "launch"] /\ mine' = [mine EXCEPT ![c] = lives + 1]
            /\ pc \in [Callers -> {"idle"} \cup Starting \cup Stopping]
            /\ mine \in [Callers -> Lives]
        BY <2>4, <1>T DEF StartMakeDone, TypeOK
      <3>2. In({"makeDone"})' = In({"makeDone"}) \ {c} /\ c \in In({"makeDone"})
        BY <3>1 DEF In
      <3>3. IsFiniteSet(In({"makeDone"}))
        BY CallersAssumption, FS_Subset DEF In
      <3>4. /\ Cardinality(In({"makeDone"})) \in Nat
            /\ Cardinality(In({"makeDone"})') \in Nat
            /\ Cardinality(In({"makeDone"})') = Cardinality(In({"makeDone"})) - 1
        BY <3>2, <3>3, FS_RemoveElement, FS_CardinalityType
      <3>5. Room' /\ lives + 1 \in Lives
        BY <3>1, <3>4, <1>T, LivesAssumption DEF Room, Lives
      <3>6. LivesInOrder'
        <4>1. \A n \in Lives : captured'[n] <= lives'
          <5>1. \A n \in Lives : captured[n] \in Nat /\ captured[n] <= lives
            BY <1>T DEF LivesInOrder, TypeOK, GoTypeOK
          <5>2. UNCHANGED captured
            BY <2>4 DEF StartMakeDone
          <5> QED BY <5>1, <5>2, <3>1, <1>T
        <4>2. closedDone' \subseteq 1..lives'
          BY <2>4, <3>1, <1>T DEF StartMakeDone, LivesInOrder
        <4>3. \A d \in Callers : pc'[d] = "launch" => mine'[d] <= lives'
          BY <3>1, <1>T DEF LivesInOrder, Lives
        <4> QED BY <2>4, <4>1, <4>2, <4>3 DEF StartMakeDone, LivesInOrder
      <3>7. TypeOK'
        <4>1. /\ pc' \in [Callers -> {"idle"} \cup Starting \cup Stopping]
              /\ mine' \in [Callers -> Lives]
              /\ \A d \in Callers : pc'[d] \in Starting <=> pc[d] \in Starting
              /\ \A d \in Callers : pc'[d] \in Stopping <=> pc[d] \in Stopping
          BY <3>1, <3>5, <1>L
        <4>2. /\ doneField' \in 1..lives' /\ cancelField' \in 1..lives'
              /\ cancelled' \subseteq 1..lives'
          BY <2>4, <3>1, <1>T DEF StartMakeDone, TypeOK
        <4>3. \A n \in Lives : n > lives' => loop'[n] = "none" /\ flush'[n] = "none"
          BY <2>4, <3>1, <1>T DEF StartMakeDone, TypeOK, Lives
        <4> QED BY <2>4, <4>1, <4>2, <4>3, <3>5, <1>T DEF StartMakeDone, TypeOK, GoTypeOK
      <3> QED BY <3>5, <3>6, <3>7 DEF TypeInv
    <2>5. CASE StartLaunch(c)
      <3>1. mine[c] \in Lives /\ mine[c] \in 1..lives
        BY <2>5, <1>T DEF StartLaunch, TypeOK, LivesInOrder, Lives
      <3>2. GoTypeOK'
        BY <2>5, <3>1, <1>T DEF StartLaunch, TypeOK, GoTypeOK
      <3>3. \A n \in Lives : n > lives => loop'[n] = "none" /\ flush'[n] = "none"
        BY <2>5, <3>1, <1>T DEF StartLaunch, TypeOK, GoTypeOK, Lives
      <3> QED BY <2>5, <3>1, <3>2, <3>3, <1>3, <1>L, <1>T DEF StartLaunch, TypeOK
    <2>6. CASE StartUpdateStatus(c)
      <3>1. status' \in {"online", "offline", "other", "deleted"}
        BY <2>6, <1>T DEF StartUpdateStatus, TellStatus, UpdateStatus, TypeOK
      <3> QED BY <2>6, <3>1, <1>2 DEF StartUpdateStatus
    <2> QED BY <1>4, <2>1, <2>2, <2>3, <2>4, <2>5, <2>6 DEF StartStep, StartSwap
  <1>5. ASSUME NEW c \in Callers, StopStep(c)
        PROVE  TypeInv'
    <2>1. CASE StopSwap(c)
      BY <2>1, <1>3, <1>L, <1>T DEF StopSwap, TypeOK, GoTypeOK
    <2>2. CASE StopCancel(c)
      BY <2>2, <1>3, <1>L, <1>T DEF StopCancel, TypeOK, GoTypeOK
    <2>3. CASE StopReadDone(c)
      <3>1. /\ pc' \in [Callers -> {"idle"} \cup Starting \cup Stopping]
            /\ mine' \in [Callers -> Lives]
            /\ \A d \in Callers : pc'[d] \in Starting <=> pc[d] \in Starting
            /\ \A d \in Callers : pc'[d] \in Stopping <=> pc[d] \in Stopping
            /\ \A d \in Callers \ {c} : pc'[d] = pc[d] /\ mine'[d] = mine[d]
            /\ pc'[c] = "await"
        BY <2>3, <1>T, <1>L DEF StopReadDone, TypeOK
      <3>2. Room' /\ LivesInOrder'
        BY <2>3, <3>1, <1>K DEF StopReadDone
      <3>3. TypeOK'
        BY <2>3, <3>1, <1>T DEF StopReadDone, TypeOK, GoTypeOK
      <3> QED BY <3>2, <3>3 DEF TypeInv
    <2>4. CASE StopAwait(c)
      BY <2>4, <1>3, <1>L, <1>T DEF StopAwait, TypeOK, GoTypeOK
    <2>5. CASE StopClosePublisher(c)
      BY <2>5, <1>3, <1>L, <1>T DEF StopClosePublisher, TypeOK, GoTypeOK
    <2>6. CASE StopReturn(c)
      <3>1. status' \in {"online", "offline", "other", "deleted"}
        BY <2>6, <1>T DEF StopReturn, TellStatus, UpdateStatus, TypeOK
      <3> QED BY <2>6, <3>1, <1>2 DEF StopReturn
    <2>7. CASE ShutdownReturn(c)
      BY <2>7, DieTypes DEF ShutdownReturn, Phases
    <2> QED BY <1>5, <2>1, <2>2, <2>3, <2>4, <2>5, <2>6, <2>7 DEF StopStep
  <1>6. ASSUME NEW n \in Lives, LifeStep(n)
        PROVE  TypeInv'
    <2>1. ASSUME UNCHANGED <<callVars, rowVars, lifeVars, netVars, phase, histVars>>,
                 GoTypeOK', \A k \in Lives : captured'[k] <= lives,
                 closedDone' \subseteq 1..lives,
                 \A k \in Lives : /\ loop[k] = "none" => loop'[k] = "none"
                                  /\ flush[k] = "none" => flush'[k] = "none"
          PROVE  TypeInv'
      <3>1. TypeOK'
        BY <2>1, <1>T DEF TypeOK
      <3>2. LivesInOrder' /\ Room'
        BY <2>1, <1>T DEF LivesInOrder, Room, In
      <3> QED BY <3>1, <3>2 DEF TypeInv
    <2>2. CASE LoopBegin(n)
      <3>1. doneField \in Lives /\ doneField <= lives
        BY <1>T DEF TypeOK
      <3>2. GoTypeOK' /\ \A k \in Lives : captured'[k] <= lives
        BY <2>2, <3>1, <1>T DEF LoopBegin, TypeOK, GoTypeOK, LivesInOrder
      <3> QED BY <2>1, <2>2, <3>2, <1>T DEF LoopBegin, TypeOK, GoTypeOK, LivesInOrder
    <2>3. CASE LoopPublish(n) \/ FlushExit(n) \/ FlushPublish(n) \/ Published(n)
      <3>1. GoTypeOK' /\ UNCHANGED <<captured, closedDone>>
        BY <2>3, <1>T DEF LoopPublish, FlushExit, FlushPublish, Published, TypeOK, GoTypeOK
      <3>2. \A k \in Lives : /\ loop[k] = "none" => loop'[k] = "none"
                             /\ flush[k] = "none" => flush'[k] = "none"
        BY <2>3, <1>T DEF LoopPublish, FlushExit, FlushPublish, Published, TypeOK, GoTypeOK
      <3> QED BY <2>1, <2>3, <3>1, <3>2, <1>T
              DEF LoopPublish, FlushExit, FlushPublish, Published, LivesInOrder
    <2>4. CASE LoopExit(n)
      <3>1. captured[n] \in 1..lives
        BY <1>T DEF TypeOK, GoTypeOK, LivesInOrder, Lives
      <3>2. GoTypeOK' /\ closedDone' \subseteq 1..lives
        BY <2>4, <3>1, <1>T DEF LoopExit, TypeOK, GoTypeOK, LivesInOrder, Lives
      <3> QED BY <2>1, <2>4, <3>2, <1>T DEF LoopExit, TypeOK, GoTypeOK, LivesInOrder
    <2>5. CASE LoopExitTwice(n) \/ PublishOnClosed(n)
      BY <2>5, DieTypes DEF LoopExitTwice, PublishOnClosed, Phases
    <2> QED BY <1>6, <2>2, <2>3, <2>4, <2>5 DEF LifeStep
  <1>7. CASE RowStep
    <2>1. /\ UNCHANGED <<registered, callVars, lifeVars, goVars, netVars, phase, histVars>>
          /\ status' \in {"online", "offline", "other", "deleted"}
      BY <1>7, RowSteps, <1>T DEF UpdateStatus, TypeOK
    <2>2. TypeOK'
      BY <2>1, <1>T DEF TypeOK, GoTypeOK
    <2> QED BY <2>1, <2>2, <1>T DEF TypeInv, Room, In, LivesInOrder
  <1>8. CASE UNCHANGED vars
    BY <1>8, <1>T DEF vars, TypeInv, TypeOK, GoTypeOK, Room, In, LivesInOrder
  <1> QED BY <1>1, <1>4, <1>5, <1>6, <1>7, <1>8 DEF Next

\* The types of a worker that was just built.
LEMMA TypeInit == Init => TypeInv
  <1> SUFFICES ASSUME Init PROVE TypeInv
    OBVIOUS
  <1>1. 1 \in Lives /\ 1 \in 1..1 /\ "start" \in Kinds
        /\ "idle" \notin Starting \cup Stopping
    BY LivesAssumption DEF Lives, Kinds, Starting, Stopping
  <1>2. TypeOK
    <2>1. GoTypeOK /\ \A n \in Lives : n > 1 => loop[n] = "none" /\ flush[n] = "none"
      BY <1>1 DEF Init, GoTypeOK, Lives
    <2> QED BY <1>1, <2>1 DEF Init, TypeOK, Phases
  <1>3. In({"makeDone"}) = {}
    BY DEF Init, In
  <1>4. Room
    BY <1>3, FS_EmptySet, LivesAssumption DEF Init, Room
  <1>5. LivesInOrder
    BY <1>1 DEF Init, LivesInOrder, Lives
  <1> QED BY <1>2, <1>4, <1>5 DEF TypeInv

\* The state of a worker keeps its types: each caller is in the steps of its own
\* method, and no life runs that was not launched, however many callers there
\* are and whatever they call.
THEOREM TypeCorrect == Spec => []TypeOK
  <1>1. Spec => []TypeInv
    BY TypeInit, TypeStep, PTL DEF Spec
  <1>2. TypeInv => TypeOK
    BY DEF TypeInv
  <1> QED BY <1>1, <1>2, PTL

-----------------------------------------------------------------------------
(* One winner, as long as no Start meets a Stop *)

\* What holds before a step after which the two kinds have still not met.
LEMMA CalmBefore ==
  ASSUME TypeInv, CalmInv, [Next]_vars, ~mixed', Live'
  PROVE  ~mixed /\ Live /\ OneWinner /\ OneServing /\ StatusFollows
  <1> USE DEF callVars, lifeVars, goVars, netVars, rowVars, histVars
  <1>1. ASSUME NEW c \in Callers, Lookup(c)
        PROVE  ~mixed /\ Live
    BY <1>1 DEF Lookup, StartLookup, StopLookup, RemoveLookup, ShutdownLookup, Call, Live
  <1>2. ASSUME NEW c \in Callers, StartStep(c)
        PROVE  ~mixed /\ Live
    BY <1>2 DEF StartStep, StartCheck, StartSwap, StartMakeDone, StartLaunch, StartUpdateStatus
  <1>3. ASSUME NEW c \in Callers, StopStep(c)
        PROVE  ~mixed /\ Live
    BY <1>3 DEF StopStep, StopSwap, StopCancel, StopReadDone, StopAwait, StopClosePublisher,
                StopReturn, ShutdownReturn, Die
  <1>4. ASSUME NEW n \in Lives, LifeStep(n)
        PROVE  ~mixed /\ Live
    BY <1>4 DEF LifeStep, LoopBegin, LoopPublish, LoopExit, LoopExitTwice, FlushPublish,
                FlushExit, PublishOnClosed, Published, CanLock, Die
  <1>5. ASSUME RowStep
        PROVE  ~mixed /\ Live
    BY <1>5, RowSteps
  <1>6. ASSUME UNCHANGED vars
        PROVE  ~mixed /\ Live
    BY <1>6 DEF vars, Live
  <1> QED BY <1>1, <1>2, <1>3, <1>4, <1>5, <1>6 DEF Next, CalmInv

\* A process that dies is not live any more.
LEMMA DeadOrAlive ==
  \A cause : Die(cause) /\ cause \notin {"up", "stopping"} => ~Live'
  BY DEF Die, Live

\* Both Swaps elect one winner, which is gone before the other kind comes.
LEMMA WinnerStep ==
  ASSUME TypeInv, CalmInv, [Next]_vars, ~mixed', Live'
  PROVE  OneWinner'
  <1> USE DEF callVars, lifeVars, goVars, netVars, rowVars, histVars
  <1>C. OneWinner
    BY CalmBefore
  <1>T. /\ pc \in [Callers -> {"idle"} \cup Starting \cup Stopping]
        /\ running \in BOOLEAN
    BY DEF TypeInv, TypeOK
  <1> USE DEF Starting, Stopping, Winning, Launching, Ending
  <1>K. ASSUME UNCHANGED <<pc, running>>
        PROVE  OneWinner'
    BY <1>K, <1>C DEF OneWinner
  <1>1. ASSUME NEW c \in Callers, Lookup(c)
        PROVE  OneWinner'
    <2>1. CASE StartLookup(c)
      <3>1. pc' = [pc EXCEPT ![c] = "check"] /\ UNCHANGED running /\ In(Stopping) = {}
        BY <2>1 DEF StartLookup, Call
      <3> QED BY <3>1, <1>C, <1>T DEF OneWinner, In
    <2>2. CASE StopLookup(c) \/ RemoveLookup(c) \/ ShutdownLookup(c)
      <3>1. pc' = [pc EXCEPT ![c] = "swap"] /\ UNCHANGED running /\ In(Starting) = {}
        BY <2>2 DEF StopLookup, RemoveLookup, ShutdownLookup, Call
      <3> QED BY <3>1, <1>C, <1>T DEF OneWinner, In
    <2> QED BY <1>1, <2>1, <2>2 DEF Lookup
  <1>2. ASSUME NEW c \in Callers, StartStep(c)
        PROVE  OneWinner'
    <2>1. CASE StartCheck(c)
      BY <2>1, <1>C, <1>T DEF StartCheck, Goto, Return, OneWinner
    <2>2. CASE StartSwap(c)
      <3>1. pc' = [pc EXCEPT ![c] = IF running THEN "setOnline" ELSE "makeDone"]
            /\ running' /\ pc[c] = "start"
        BY <2>2 DEF StartSwap, Goto
      <3> QED BY <3>1, <1>C, <1>T DEF OneWinner
    <2>3. CASE StartMakeDone(c)
      BY <2>3, <1>C, <1>T DEF StartMakeDone, OneWinner
    <2>4. CASE StartLaunch(c)
      BY <2>4, <1>C, <1>T DEF StartLaunch, Goto, OneWinner
    <2>5. CASE StartUpdateStatus(c)
      BY <2>5, <1>C, <1>T DEF StartUpdateStatus, Return, OneWinner
    <2> QED BY <1>2, <2>1, <2>2, <2>3, <2>4, <2>5 DEF StartStep
  <1>3. ASSUME NEW c \in Callers, StopStep(c)
        PROVE  OneWinner'
    <2>1. CASE StopSwap(c)
      <3>1. pc' = [pc EXCEPT ![c] = IF running THEN "cancel" ELSE "after"]
            /\ running' = FALSE /\ pc[c] = "swap"
        BY <2>1 DEF StopSwap, Goto
      <3> QED BY <3>1, <1>C, <1>T DEF OneWinner
    <2>2. CASE StopCancel(c)
      BY <2>2, <1>C, <1>T DEF StopCancel, Goto, OneWinner
    <2>3. CASE StopReadDone(c)
      BY <2>3, <1>C, <1>T DEF StopReadDone, OneWinner
    <2>4. CASE StopAwait(c)
      <3>1. /\ pc' = [pc EXCEPT ![c] = IF pubClosed THEN "after" ELSE "closePub"]
            /\ UNCHANGED running /\ pc[c] = "await"
        BY <2>4 DEF StopAwait, Goto
      <3> QED BY <3>1, <1>C, <1>T DEF OneWinner
    <2>5. CASE StopClosePublisher(c)
      BY <2>5, <1>C, <1>T DEF StopClosePublisher, Goto, OneWinner
    <2>6. CASE StopReturn(c)
      <3>1. pc' = [pc EXCEPT ![c] = "idle"] /\ UNCHANGED running /\ pc[c] = "after"
        BY <2>6 DEF StopReturn, Return
      <3> QED BY <3>1, <1>C, <1>T DEF OneWinner
    <2>7. ~ShutdownReturn(c)
      BY DeadOrAlive DEF ShutdownReturn
    <2> QED BY <1>3, <2>1, <2>2, <2>3, <2>4, <2>5, <2>6, <2>7 DEF StopStep
  <1>4. ASSUME NEW n \in Lives, LifeStep(n)
        PROVE  OneWinner'
    <2>1. ~LoopExitTwice(n) /\ ~PublishOnClosed(n)
      BY DeadOrAlive DEF LoopExitTwice, PublishOnClosed
    <2> QED BY <1>4, <1>K, <2>1
            DEF LifeStep, LoopBegin, LoopPublish, LoopExit, FlushPublish, FlushExit, Published
  <1>5. CASE RowStep \/ UNCHANGED vars
    BY <1>5, <1>K, RowSteps DEF vars
  <1> QED BY <1>1, <1>2, <1>3, <1>4, <1>5 DEF Next

-----------------------------------------------------------------------------
(* One loop that nobody has cancelled *)

\* The goroutines of a life come and go as loops only with its launch and with
\* the end of a cancelled one.
LEMMA LoopSteps ==
  ASSUME TypeInv, NEW n \in Lives, LifeStep(n), Live'
  PROVE  /\ UNCHANGED <<callVars, rowVars, lifeVars, netVars, phase, histVars>>
         /\ \/ Looping' = Looping
            \/ LoopExit(n) /\ Looping' = Looping \ {n} /\ n \in Looping /\ n \in cancelled
  <1> USE DEF lifeVars, goVars
  <1>T. loop \in [Lives -> {"none", "begin", "select", "publish", "ended"}]
        /\ captured \in [Lives -> Lives]
    BY DEF TypeInv, TypeOK, GoTypeOK
  <1>1. CASE LoopBegin(n)
    BY <1>1, <1>T DEF LoopBegin, Looping
  <1>2. CASE LoopPublish(n)
    BY <1>2, <1>T DEF LoopPublish, Looping
  <1>3. CASE LoopExit(n)
    BY <1>3, <1>T DEF LoopExit, Looping
  <1>4. CASE FlushPublish(n) \/ FlushExit(n)
    BY <1>4 DEF FlushPublish, FlushExit, Looping
  <1>5. CASE Published(n)
    BY <1>5, <1>T DEF Published, Looping
  <1>6. ~LoopExitTwice(n) /\ ~PublishOnClosed(n)
    BY DeadOrAlive DEF LoopExitTwice, PublishOnClosed
  <1> QED BY <1>1, <1>2, <1>3, <1>4, <1>5, <1>6 DEF LifeStep

\* A loop is only left alone by the winner that stops its life.
LEMMA ServingStep ==
  ASSUME TypeInv, CalmInv, [Next]_vars, ~mixed', Live'
  PROVE  OneServing'
  <1> USE DEF callVars, lifeVars, goVars, netVars, rowVars, histVars
  <1>C. OneWinner /\ OneServing
    BY CalmBefore
  <1>T. /\ pc \in [Callers -> {"idle"} \cup Starting \cup Stopping]
        /\ mine \in [Callers -> Lives]
        /\ loop \in [Lives -> {"none", "begin", "select", "publish", "ended"}]
        /\ lives \in Lives /\ lives \in Nat /\ cancelled \subseteq 1..lives
        /\ \A n \in Lives : n > lives => loop[n] = "none"
        /\ \A n \in Lives : n \in Nat
    BY LivesAssumption DEF TypeInv, TypeOK, GoTypeOK, Lives
  <1> USE DEF Starting, Stopping, Winning, Launching, Ending
  \* Steps that leave the lives alone and the winners where they count.
  <1>K. ASSUME UNCHANGED <<Looping, cancelled, lives, cancelField>>,
               In({"launch"})' = In({"launch"}),
               \A d \in In({"launch"}) : mine'[d] = mine[d],
               UNCHANGED loop, Serving' <=> Serving
        PROVE  OneServing'
    BY <1>K, <1>C DEF OneServing
  <1>1. ASSUME NEW c \in Callers, Lookup(c)
        PROVE  OneServing'
    <2>1. /\ UNCHANGED <<mine, lifeVars, goVars>>
          /\ pc[c] = "idle"
          /\ pc' = [pc EXCEPT ![c] = "check"] \/ pc' = [pc EXCEPT ![c] = "swap"]
      BY <1>1 DEF Lookup, StartLookup, StopLookup, RemoveLookup, ShutdownLookup, Call
    <2>2. /\ In({"launch"})' = In({"launch"}) /\ In(Launching)' = In(Launching)
          /\ In({"cancel"})' = In({"cancel"})
      BY <2>1, <1>T DEF In
    <2> QED BY <2>1, <2>2, <1>K DEF Serving, Looping
  <1>2. ASSUME NEW c \in Callers, StartStep(c)
        PROVE  OneServing'
    <2>1. CASE StartCheck(c) \/ StartUpdateStatus(c)
      <3>1. /\ UNCHANGED <<lifeVars, goVars>> /\ pc[c] \in {"check", "setOnline"}
            /\ pc' = [pc EXCEPT ![c] = "idle"] \/ pc' = [pc EXCEPT ![c] = "start"]
            /\ \A d \in Callers \ {c} : mine'[d] = mine[d]
        BY <2>1, <1>T DEF StartCheck, StartUpdateStatus, Goto, Return
      <3>2. /\ In({"launch"})' = In({"launch"}) /\ In(Launching)' = In(Launching)
            /\ In({"cancel"})' = In({"cancel"}) /\ c \notin In({"launch"})
        BY <3>1, <1>T DEF In
      <3>3. \A d \in In({"launch"}) : mine'[d] = mine[d]
        BY <3>1, <3>2 DEF In
      <3> QED BY <3>1, <3>2, <3>3, <1>K DEF Serving, Looping
    <2>2. CASE StartSwap(c)
      <3>1. /\ UNCHANGED <<mine, lives, cancelField, cancelled, loop>> /\ pc[c] = "start"
            /\ pc' = [pc EXCEPT ![c] = IF running THEN "setOnline" ELSE "makeDone"]
            /\ running'
        BY <2>2 DEF StartSwap, Goto
      <3>2. /\ In({"launch"})' = In({"launch"}) /\ In({"cancel"}) = {} /\ In({"cancel"})' = {}
            /\ running => In(Launching)' = In(Launching)
            /\ ~running => c \in In(Launching)'
        BY <3>1, <1>T, <1>C DEF In, OneWinner
      <3>3. Serving' <=> Serving
        BY <3>1, <3>2 DEF Serving
      <3> QED BY <3>1, <3>2, <3>3, <1>K DEF Looping
    <2>3. CASE StartMakeDone(c)
      <3>1. /\ UNCHANGED <<running, cancelled, loop, cancelField>> /\ pc[c] = "makeDone"
            /\ pc' = [pc EXCEPT ![c] = "launch"] /\ mine' = [mine EXCEPT ![c] = lives + 1]
            /\ lives' = lives + 1
        BY <2>3 DEF StartMakeDone
      <3>2. In({"launch"})' = {c} /\ In({"cancel"}) = {} /\ In({"cancel"})' = {}
            /\ c \in In(Launching) /\ c \in In(Launching)'
        BY <3>1, <1>T, <1>C DEF In, OneWinner
      <3>3. ~Serving /\ ~Serving'
        BY <3>2 DEF Serving
      <3>4. Looping' \ cancelled' = {}
        BY <3>1, <3>3, <1>C DEF OneServing, Looping
      <3>5. lives' \notin cancelled' /\ loop'[lives'] = "none" /\ mine'[c] = lives'
        <4>1. lives + 1 \in Lives
          BY <3>1, TypeStep DEF TypeInv, TypeOK
        <4> QED BY <3>1, <4>1, <1>T
      <3> QED BY <3>2, <3>3, <3>4, <3>5 DEF OneServing
    <2>4. CASE StartLaunch(c)
      <3>1. /\ UNCHANGED <<mine, lives, running, cancelled>> /\ pc[c] = "launch"
            /\ pc' = [pc EXCEPT ![c] = "setOnline"] /\ cancelField' = mine[c]
            /\ loop' = [loop EXCEPT ![mine[c]] = "begin"]
        BY <2>4 DEF StartLaunch, Goto
      <3>2. c \in In({"launch"}) /\ running
            /\ In({"launch"})' = {} /\ In(Launching)' = {} /\ In({"cancel"}) = {}
            /\ c \in In(Launching)
        BY <3>1, <1>T, <1>C DEF In, OneWinner
      <3>3. mine[c] = lives /\ lives \notin cancelled /\ Looping \ cancelled = {}
        BY <3>2, <1>C DEF OneServing, Serving
      <3>4. Looping' = Looping \cup {lives}
        BY <3>1, <3>3, <1>T DEF Looping
      <3> QED BY <3>1, <3>2, <3>3, <3>4 DEF OneServing, Serving
    <2> QED BY <1>2, <2>1, <2>2, <2>3, <2>4 DEF StartStep
  <1>3. ASSUME NEW c \in Callers, StopStep(c)
        PROVE  OneServing'
    <2>1. CASE StopSwap(c)
      <3>1. /\ UNCHANGED <<mine, lives, cancelField, cancelled, loop>> /\ pc[c] = "swap"
            /\ pc' = [pc EXCEPT ![c] = IF running THEN "cancel" ELSE "after"]
            /\ running' = FALSE
        BY <2>1 DEF StopSwap, Goto
      <3>2. /\ In({"launch"})' = In({"launch"}) /\ In(Launching) = {}
            /\ running => c \in In({"cancel"})'
            /\ ~running => In({"cancel"})' = In({"cancel"})
        BY <3>1, <1>T, <1>C DEF In, OneWinner
      <3>3. Serving' <=> Serving
        BY <3>1, <3>2 DEF Serving
      <3> QED BY <3>1, <3>2, <3>3, <1>K DEF Looping
    <2>2. CASE StopCancel(c)
      <3>1. /\ UNCHANGED <<mine, lives, running, loop>> /\ pc[c] = "cancel"
            /\ pc' = [pc EXCEPT ![c] = "readDone"]
            /\ cancelled' = cancelled \cup {cancelField}
        BY <2>2 DEF StopCancel, Goto
      <3>2. /\ c \in In({"cancel"}) /\ In({"launch"})' = {} /\ In({"cancel"})' = {} /\ ~running
        BY <3>1, <1>T, <1>C DEF In, OneWinner
      <3>3. cancelField = lives /\ Looping \ cancelled = {lives} /\ ~Serving'
        BY <3>1, <3>2, <1>C DEF OneServing, Serving
      <3>4. Looping' \ cancelled' = {}
        BY <3>1, <3>3 DEF Looping
      <3> QED BY <3>2, <3>3, <3>4 DEF OneServing
    <2>3. CASE StopReadDone(c) \/ StopAwait(c) \/ StopClosePublisher(c) \/ StopReturn(c)
      <3>1. /\ UNCHANGED <<lifeVars, loop>>
            /\ pc[c] \in {"readDone", "await", "closePub", "after"}
            /\ \E l \in {"await", "closePub", "after", "idle"} :
                 pc' = [pc EXCEPT ![c] = l]
            /\ \A d \in Callers \ {c} : mine'[d] = mine[d]
        BY <2>3, <1>T DEF StopReadDone, StopAwait, StopClosePublisher, StopReturn,
                          Goto, Return
      <3>2. /\ In({"launch"})' = In({"launch"}) /\ In(Launching)' = In(Launching)
            /\ In({"cancel"})' = In({"cancel"}) /\ c \notin In({"launch"})
        BY <3>1, <1>T DEF In
      <3>3. \A d \in In({"launch"}) : mine'[d] = mine[d]
        BY <3>1, <3>2 DEF In
      <3> QED BY <3>1, <3>2, <3>3, <1>K DEF Serving, Looping
    <2>4. ~ShutdownReturn(c)
      BY DeadOrAlive DEF ShutdownReturn
    <2> QED BY <1>3, <2>1, <2>2, <2>3, <2>4 DEF StopStep
  <1>4. ASSUME NEW n \in Lives, LifeStep(n)
        PROVE  OneServing'
    <2>1. /\ UNCHANGED <<callVars, rowVars, lifeVars, netVars, phase, histVars>>
          /\ \/ Looping' = Looping
             \/ LoopExit(n) /\ Looping' = Looping \ {n} /\ n \in Looping /\ n \in cancelled
      BY <1>4, LoopSteps
    <2>2. Looping' \ cancelled' = Looping \ cancelled
      BY <2>1
    <2>3. Serving' <=> Serving
      BY <2>1 DEF Serving, In
    <2>4. \A d \in In({"launch"})' : d \in In({"launch"}) /\ loop'[lives] = loop[lives]
      <3>1. ASSUME NEW d \in In({"launch"})
            PROVE  loop'[lives] = "none"
        <4>1. loop[lives] = "none"
          BY <3>1, <1>C DEF OneServing
        <4> QED BY <1>4, <4>1, <1>T, DeadOrAlive
                DEF LifeStep, LoopBegin, LoopPublish, LoopExit, LoopExitTwice, FlushPublish,
                    FlushExit, PublishOnClosed, Published
      <3>2. In({"launch"})' = In({"launch"})
        BY <2>1 DEF In
      <3> QED BY <3>1, <3>2, <1>C DEF OneServing
    <2> QED BY <2>1, <2>2, <2>3, <2>4, <1>C DEF OneServing
  <1>5. CASE RowStep \/ UNCHANGED vars
    BY <1>5, <1>K, RowSteps DEF vars, Serving, Looping, In
  <1> QED BY <1>1, <1>2, <1>3, <1>4, <1>5 DEF Next

-----------------------------------------------------------------------------
(* The row follows isRunning *)

\* Whoever changed isRunning last is still on its way to write the status.
LEMMA StatusStep ==
  ASSUME TypeInv, CalmInv, [Next]_vars, ~mixed', Live'
  PROVE  StatusFollows'
  <1> SUFFICES ASSUME registered' PROVE StatusFollows'
    BY DEF StatusFollows
  <1> USE DEF callVars, lifeVars, goVars, netVars, rowVars, histVars
  <1>C. OneWinner /\ StatusFollows
    BY CalmBefore
  <1>T. /\ pc \in [Callers -> {"idle"} \cup Starting \cup Stopping]
        /\ kind \in [Callers -> Kinds] /\ running \in BOOLEAN
    BY DEF TypeInv, TypeOK
  <1> USE DEF Starting, Stopping, Launching
  <1> DEFINE ToOnline  == In(Launching \cup {"setOnline"})
             ToOffline == In(Stopping \ {"swap"})
  \* Steps that leave isRunning, the status and the callers on their way to it.
  <1>K. ASSUME UNCHANGED <<running, status, registered>>,
               ToOnline' = ToOnline, ToOffline' = ToOffline,
               \A d \in Callers : pc'[d] \in Stopping =>
                  (pc[d] \in Stopping /\ kind'[d] = kind[d]) \/ kind'[d] # "remove"
        PROVE  StatusFollows'
    BY <1>K, <1>C DEF StatusFollows
  <1>1. ASSUME NEW c \in Callers, Lookup(c)
        PROVE  StatusFollows'
    <2>1. \E k \in {"start", "stop", "shutdown"}, l \in {"check", "swap"} :
            /\ pc[c] = "idle" /\ pc' = [pc EXCEPT ![c] = l]
            /\ kind' = [kind EXCEPT ![c] = k]
            /\ UNCHANGED <<running, status, registered>>
      BY <1>1 DEF Lookup, StartLookup, StopLookup, RemoveLookup, ShutdownLookup, Call
    <2>2. ToOnline' = ToOnline /\ ToOffline' = ToOffline
      BY <2>1, <1>T DEF In
    <2>3. \A d \in Callers : pc'[d] \in Stopping =>
             (pc[d] \in Stopping /\ kind'[d] = kind[d]) \/ kind'[d] # "remove"
      BY <2>1, <1>T
    <2> QED BY <2>1, <2>2, <2>3, <1>K
  <1>2. ASSUME NEW c \in Callers, StartStep(c)
        PROVE  StatusFollows'
    <2>1. CASE StartCheck(c)
      <3>1. /\ UNCHANGED <<running, status, registered>> /\ pc[c] = "check"
            /\ pc' = [pc EXCEPT ![c] = "idle"] \/ pc' = [pc EXCEPT ![c] = "start"]
            /\ \A d \in Callers \ {c} : kind'[d] = kind[d]
        BY <2>1, <1>T DEF StartCheck, Goto, Return
      <3>2. ToOnline' = ToOnline /\ ToOffline' = ToOffline
        BY <3>1, <1>T DEF In
      <3> QED BY <3>1, <3>2, <1>K, <1>T
    <2>2. CASE StartSwap(c)
      <3>1. /\ UNCHANGED <<status, registered, kind>> /\ pc[c] = "start" /\ running'
            /\ pc' = [pc EXCEPT ![c] = IF running THEN "setOnline" ELSE "makeDone"]
        BY <2>2 DEF StartSwap, Goto
      <3>2. ToOnline' # {} /\ \A d \in Callers : pc'[d] \in Stopping => pc[d] \in Stopping
        BY <3>1, <1>T DEF In
      <3> QED BY <3>1, <3>2, <1>C DEF StatusFollows
    <2>3. CASE StartMakeDone(c) \/ StartLaunch(c)
      <3>1. /\ UNCHANGED <<running, status, registered, kind>>
            /\ pc[c] \in {"makeDone", "launch"}
            /\ pc' = [pc EXCEPT ![c] = "launch"] \/ pc' = [pc EXCEPT ![c] = "setOnline"]
        BY <2>3 DEF StartMakeDone, StartLaunch, Goto
      <3>2. ToOnline' = ToOnline /\ ToOffline' = ToOffline
        BY <3>1, <1>T DEF In
      <3> QED BY <3>1, <3>2, <1>K, <1>T
    <2>4. CASE StartUpdateStatus(c)
      <3>1. /\ UNCHANGED <<running, registered>> /\ pc[c] = "setOnline"
            /\ status' \in {IF status = "deleted" THEN status ELSE s : s \in {"online", "other"}}
            /\ pc' = [pc EXCEPT ![c] = "idle"]
            /\ kind' = [kind EXCEPT ![c] = "start"]
        BY <2>4 DEF StartUpdateStatus, TellStatus, UpdateStatus, Return
      <3>2. running /\ status' \in {"online", "other"}
        BY <3>1, <1>C DEF OneWinner, StatusFollows
      <3>3. \A d \in Callers : pc'[d] \in Stopping => pc[d] \in Stopping /\ kind'[d] = kind[d]
        BY <3>1, <1>T
      <3> QED BY <3>1, <3>2, <3>3, <1>C DEF StatusFollows
    <2> QED BY <1>2, <2>1, <2>2, <2>3, <2>4 DEF StartStep
  <1>3. ASSUME NEW c \in Callers, StopStep(c)
        PROVE  StatusFollows'
    <2>1. CASE StopSwap(c)
      <3>1. /\ UNCHANGED <<status, registered, kind>> /\ pc[c] = "swap" /\ running' = FALSE
            /\ pc' = [pc EXCEPT ![c] = IF running THEN "cancel" ELSE "after"]
        BY <2>1 DEF StopSwap, Goto
      <3>2. ToOffline' # {} /\ \A d \in Callers : pc'[d] \in Stopping => pc[d] \in Stopping
        BY <3>1, <1>T DEF In
      <3> QED BY <3>1, <3>2, <1>C DEF StatusFollows
    <2>2. CASE StopCancel(c) \/ StopReadDone(c) \/ StopAwait(c) \/ StopClosePublisher(c)
      <3>1. /\ UNCHANGED <<running, status, registered, kind>>
            /\ pc[c] \in {"cancel", "readDone", "await", "closePub"}
            /\ \E l \in {"readDone", "await", "closePub", "after"} :
                 pc' = [pc EXCEPT ![c] = l]
        BY <2>2 DEF StopCancel, StopReadDone, StopAwait, StopClosePublisher, Goto
      <3>2. ToOnline' = ToOnline /\ ToOffline' = ToOffline
        BY <3>1, <1>T DEF In
      <3> QED BY <3>1, <3>2, <1>K, <1>T
    <2>3. CASE StopReturn(c)
      <3>1. /\ UNCHANGED <<running, registered>> /\ pc[c] = "after"
            /\ pc' = [pc EXCEPT ![c] = "idle"] /\ kind' = [kind EXCEPT ![c] = "start"]
        BY <2>3 DEF StopReturn, Return
      <3>2. ~running /\ status # "deleted" /\ kind[c] # "remove"
        BY <3>1, <1>C DEF OneWinner, StatusFollows
      <3>3. status' \in {"offline", "other"}
        BY <2>3, <3>2 DEF StopReturn, TellStatus, UpdateStatus
      <3>4. \A d \in Callers : pc'[d] \in Stopping => pc[d] \in Stopping /\ kind'[d] = kind[d]
        BY <3>1, <1>T
      <3> QED BY <3>1, <3>2, <3>3, <3>4, <1>C DEF StatusFollows
    <2>4. ~ShutdownReturn(c)
      BY DeadOrAlive DEF ShutdownReturn
    <2> QED BY <1>3, <2>1, <2>2, <2>3, <2>4 DEF StopStep
  <1>4. ASSUME NEW n \in Lives, LifeStep(n)
        PROVE  StatusFollows'
    <2>1. UNCHANGED <<callVars, rowVars, lifeVars>>
      BY <1>4, LoopSteps
    <2> QED BY <2>1, <1>K DEF In
  <1>5. CASE RowStep
    <2>1. UNCHANGED <<registered, callVars, lifeVars>> /\ status' \in {"other", "deleted"}
          /\ (status' = "deleted" => status = "deleted")
      BY <1>5, RowSteps DEF UpdateStatus
    <2> QED BY <2>1, <1>C DEF StatusFollows, In
  <1>6. CASE UNCHANGED vars
    BY <1>6, <1>K DEF vars, In
  <1> QED BY <1>1, <1>2, <1>3, <1>4, <1>5, <1>6 DEF Next

\* The invariant of calls that do not meet.
LEMMA CalmStep == TypeInv /\ CalmInv /\ [Next]_vars => CalmInv'
  BY WinnerStep, ServingStep, StatusStep DEF CalmInv

\* Its calls have not met.
LEMMA CalmInit == Init => CalmInv
  <1> SUFFICES ASSUME Init PROVE OneWinner /\ OneServing /\ StatusFollows
    BY DEF CalmInv
  <1>1. In(Launching) = {} /\ In({"cancel"}) = {} /\ In({"launch"}) = {}
    BY DEF Init, In, Launching
  <1>2. OneWinner
    BY DEF Init, OneWinner, Starting, Stopping, Winning, Launching, Ending
  <1>3. Looping = {1} /\ Serving
    BY <1>1, LivesAssumption DEF Init, Looping, Serving, Lives
  <1>4. OneServing
    BY <1>1, <1>3 DEF Init, OneServing
  <1>5. StatusFollows
    BY DEF Init, StatusFollows, Stopping
  <1> QED BY <1>2, <1>4, <1>5

\* Between calls that did not meet, the loop and isRunning agree, and so does the
\* status that a Start or Stop was able to store (StateAgrees): an interleaving of
\* Starts, or of Stops and Deletes, leaves no worker that runs although the last
\* of its calls wrote offline, and none that is stopped although it wrote online.
THEOREM StatesAgree == Spec => []StateAgrees
  <1>1. TypeInv /\ CalmInv => StateAgrees
    <2> SUFFICES ASSUME TypeInv, CalmInv, Calm, ~mixed
                 PROVE  /\ running <=> Looping \ cancelled # {}
                        /\ registered /\ status # "other" => (status = "online" <=> running)
      BY DEF StateAgrees
    <2>1. OneWinner /\ OneServing /\ StatusFollows
      BY DEF CalmInv, Calm
    <2>2. \A c \in Callers : pc[c] = "idle"
      BY DEF Calm
    <2>3. /\ In(Launching) = {} /\ In({"cancel"}) = {}
          /\ In(Launching \cup {"setOnline"}) = {} /\ In(Stopping \ {"swap"}) = {}
      BY <2>2 DEF In, Launching, Stopping
    <2>4. running <=> Looping \ cancelled # {}
      BY <2>1, <2>3 DEF OneServing, Serving
    <2>5. registered /\ status # "other" => (status = "online" <=> running)
      BY <2>1, <2>3 DEF StatusFollows, TypeInv, TypeOK
    <2> QED BY <2>4, <2>5
  <1> QED BY <1>1, TypeInit, TypeStep, CalmInit, CalmStep, PTL DEF Spec

-----------------------------------------------------------------------------
(* One loop at all, as long as no Stop gives up waiting *)

\* The invariant of a Stop that waits for the loop.
LEMMA WaitStep == TypeInv /\ CalmInv /\ WaitInv /\ [Next]_vars => WaitInv'
  <1> SUFFICES ASSUME TypeInv, CalmInv, WaitInv, [Next]_vars, ~mixed', ~timedOut', Live'
               PROVE  /\ Looping' \subseteq {lives'}
                      /\ Looping' \cap cancelled' # {} => In({"readDone", "await"})' # {}
                      /\ \A c \in In({"await"})' : mine'[c] = lives'
                      /\ loop'[lives'] \in {"select", "publish"} => captured'[lives'] = lives'
                      /\ lives' \in closedDone' => loop'[lives'] = "ended"
    BY DEF WaitInv
  <1> DEFINE Goal == /\ Looping' \subseteq {lives'}
                     /\ Looping' \cap cancelled' # {} => In({"readDone", "await"})' # {}
                     /\ \A c \in In({"await"})' : mine'[c] = lives'
                     /\ loop'[lives'] \in {"select", "publish"} => captured'[lives'] = lives'
                     /\ lives' \in closedDone' => loop'[lives'] = "ended"
  <1> USE DEF callVars, lifeVars, goVars, netVars, rowVars, histVars
  <1>C. ~mixed /\ Live /\ OneWinner /\ OneServing
    BY CalmBefore
  <1>T. /\ pc \in [Callers -> {"idle"} \cup Starting \cup Stopping]
        /\ mine \in [Callers -> Lives] /\ captured \in [Lives -> Lives]
        /\ loop \in [Lives -> {"none", "begin", "select", "publish", "ended"}]
        /\ lives \in Lives /\ lives \in Nat /\ closedDone \subseteq 1..lives
        /\ doneField = lives /\ \A n \in Lives : n > lives => loop[n] = "none"
    BY LivesAssumption DEF TypeInv, TypeOK, GoTypeOK, LivesInOrder, Lives
  <1>P. lives' \in Lives
    BY TypeStep DEF TypeInv, TypeOK
  <1> USE DEF Starting, Stopping, Winning, Launching, Ending
  \* A Stop is still waiting, or was never there.
  <1>K. ASSUME UNCHANGED <<goVars, lives, cancelled, timedOut>>,
               In({"readDone", "await"})' = In({"readDone", "await"}),
               In({"await"})' = In({"await"}),
               \A d \in In({"await"}) : mine'[d] = mine[d]
        PROVE  Goal
    BY <1>K, <1>C DEF WaitInv, Looping
  <1>1. ASSUME NEW c \in Callers, Lookup(c)
        PROVE  Goal
    <2>1. /\ UNCHANGED <<mine, lifeVars, goVars, timedOut>> /\ pc[c] = "idle"
          /\ pc' = [pc EXCEPT ![c] = "check"] \/ pc' = [pc EXCEPT ![c] = "swap"]
      BY <1>1 DEF Lookup, StartLookup, StopLookup, RemoveLookup, ShutdownLookup, Call
    <2>2. /\ In({"readDone", "await"})' = In({"readDone", "await"})
          /\ In({"await"})' = In({"await"})
      BY <2>1, <1>T DEF In
    <2> QED BY <2>1, <2>2, <1>K
  <1>2. ASSUME NEW c \in Callers, StartStep(c)
        PROVE  Goal
    <2>1. CASE StartCheck(c) \/ StartUpdateStatus(c) \/ StartSwap(c)
      <3>1. /\ UNCHANGED <<goVars, lives, cancelled, timedOut>>
            /\ pc[c] \in {"check", "setOnline", "start"}
            /\ \E l \in {"idle", "start", "makeDone", "setOnline"} : pc' = [pc EXCEPT ![c] = l]
            /\ \A d \in Callers \ {c} : mine'[d] = mine[d]
        BY <2>1, <1>T DEF StartCheck, StartUpdateStatus, StartSwap, Goto, Return
      <3>2. /\ In({"readDone", "await"})' = In({"readDone", "await"})
            /\ In({"await"})' = In({"await"}) /\ c \notin In({"await"})
        BY <3>1, <1>T DEF In
      <3>3. \A d \in In({"await"}) : mine'[d] = mine[d]
        BY <3>1, <3>2 DEF In
      <3> QED BY <3>1, <3>2, <3>3, <1>K
    <2>2. CASE StartMakeDone(c)
      <3>1. /\ UNCHANGED <<goVars, cancelled, timedOut>> /\ lives' = lives + 1
            /\ pc[c] = "makeDone" /\ pc' = [pc EXCEPT ![c] = "launch"]
        BY <2>2 DEF StartMakeDone
      <3>2. In({"readDone", "await"}) = {} /\ In({"await"})' = {} /\ ~Serving
        BY <3>1, <1>C, <1>T DEF In, OneWinner, Serving
      <3>3. Looping = {}
        BY <3>1, <3>2, <1>C DEF WaitInv, OneServing
      <3>4. loop'[lives'] = "none" /\ lives' \notin closedDone'
        BY <3>1, <1>T, <1>P
      <3> QED BY <3>1, <3>2, <3>3, <3>4 DEF Looping
    <2>3. CASE StartLaunch(c)
      <3>1. /\ UNCHANGED <<captured, closedDone, lives, cancelled, timedOut>> /\ pc[c] = "launch"
            /\ pc' = [pc EXCEPT ![c] = "setOnline"]
            /\ loop' = [loop EXCEPT ![mine[c]] = "begin"]
        BY <2>3 DEF StartLaunch, Goto
      <3>2. /\ In({"readDone", "await"}) = {} /\ In({"await"})' = {} /\ ~Serving
            /\ c \in In({"launch"})
        BY <3>1, <1>C, <1>T DEF In, OneWinner, Serving
      <3>3. Looping = {} /\ mine[c] = lives /\ lives \notin cancelled /\ lives \notin closedDone
        BY <3>1, <3>2, <1>C DEF WaitInv, OneServing
      <3>4. Looping' = {lives} /\ loop'[lives] = "begin"
        BY <3>1, <3>3, <1>T DEF Looping
      <3> QED BY <3>1, <3>2, <3>3, <3>4
    <2> QED BY <1>2, <2>1, <2>2, <2>3 DEF StartStep
  <1>3. ASSUME NEW c \in Callers, StopStep(c)
        PROVE  Goal
    <2>1. CASE StopCancel(c)
      <3>1. /\ UNCHANGED <<goVars, lives, mine, timedOut>> /\ pc[c] = "cancel"
            /\ pc' = [pc EXCEPT ![c] = "readDone"]
        BY <2>1 DEF StopCancel, Goto
      <3>2. c \in In({"readDone", "await"})' /\ In({"await"})' = In({"await"})
        BY <3>1, <1>T DEF In
      <3> QED BY <3>1, <3>2, <1>C DEF WaitInv, Looping
    <2>2. CASE StopReadDone(c)
      <3>1. /\ UNCHANGED <<goVars, lives, cancelled, timedOut>> /\ pc[c] = "readDone"
            /\ pc' = [pc EXCEPT ![c] = "await"] /\ mine' = [mine EXCEPT ![c] = lives]
        BY <2>2, <1>T DEF StopReadDone
      <3>2. c \in In({"readDone", "await"})' /\ In({"await"})' = In({"await"}) \cup {c}
        BY <3>1, <1>T DEF In
      <3>3. \A d \in In({"await"})' : mine'[d] = lives'
        BY <3>1, <3>2, <1>C, <1>T DEF WaitInv, In
      <3> QED BY <3>1, <3>2, <3>3, <1>C DEF WaitInv, Looping
    <2>3. CASE StopAwait(c)
      <3>1. /\ UNCHANGED <<goVars, lives, cancelled, mine>> /\ pc[c] = "await"
            /\ \E l \in {"after", "closePub"} : pc' = [pc EXCEPT ![c] = l]
            /\ mine[c] \in closedDone /\ ~timedOut
        <4>1. pc' = [pc EXCEPT ![c] = IF pubClosed THEN "after" ELSE "closePub"]
          BY <2>3 DEF StopAwait, Goto
        <4>2. mine[c] \in closedDone /\ ~timedOut
          BY <2>3 DEF StopAwait
        <4>3. UNCHANGED <<goVars, lives, cancelled, mine>> /\ pc[c] = "await"
          BY <2>3 DEF StopAwait, Goto
        <4> QED BY <4>1, <4>2, <4>3
      <3>2. c \in In({"await"}) /\ In({"await"})' \subseteq In({"await"})
        BY <3>1, <1>T DEF In
      <3>3. loop[lives] = "ended" /\ Looping \subseteq {lives}
        BY <3>1, <3>2, <1>C DEF WaitInv
      <3>4. Looping = {}
        BY <3>3 DEF Looping
      <3> QED BY <3>1, <3>2, <3>3, <3>4, <1>C DEF WaitInv, Looping
    <2>4. CASE StopSwap(c) \/ StopClosePublisher(c) \/ StopReturn(c)
      <3>1. /\ UNCHANGED <<goVars, lives, cancelled, timedOut>>
            /\ pc[c] \in {"swap", "closePub", "after"}
            /\ \E l \in {"cancel", "after", "idle"} : pc' = [pc EXCEPT ![c] = l]
            /\ \A d \in Callers \ {c} : mine'[d] = mine[d]
        BY <2>4, <1>T DEF StopSwap, StopClosePublisher, StopReturn, Goto, Return
      <3>2. /\ In({"readDone", "await"})' = In({"readDone", "await"})
            /\ In({"await"})' = In({"await"}) /\ c \notin In({"await"})
        BY <3>1, <1>T DEF In
      <3>3. \A d \in In({"await"}) : mine'[d] = mine[d]
        BY <3>1, <3>2 DEF In
      <3> QED BY <3>1, <3>2, <3>3, <1>K
    <2>5. ~ShutdownReturn(c)
      BY DeadOrAlive DEF ShutdownReturn
    <2> QED BY <1>3, <2>1, <2>2, <2>3, <2>4, <2>5 DEF StopStep
  <1>4. ASSUME NEW n \in Lives, LifeStep(n)
        PROVE  Goal
    <2>1. UNCHANGED <<callVars, lifeVars, timedOut>>
      BY <1>4, LoopSteps
    <2>2. /\ In({"readDone", "await"})' = In({"readDone", "await"})
          /\ \A d \in In({"await"})' : mine'[d] = lives'
      BY <2>1, <1>C DEF WaitInv, In
    <2>W. /\ Looping \subseteq {lives} /\ lives' = lives /\ cancelled' = cancelled
          /\ Looping \cap cancelled # {} => In({"readDone", "await"}) # {}
          /\ loop[lives] \in {"select", "publish"} => captured[lives] = lives
          /\ lives \in closedDone => loop[lives] = "ended"
      BY <2>1, <1>C DEF WaitInv
    <2>3. CASE LoopBegin(n)
      <3>1. n = lives /\ loop[lives] = "begin"
        BY <2>3, <2>W, <1>T DEF LoopBegin, Looping
      <3>2. /\ loop'[lives] = "select" /\ captured'[lives] = lives
            /\ Looping' = Looping /\ UNCHANGED closedDone
        BY <2>3, <3>1, <1>T DEF LoopBegin, Looping
      <3> QED BY <3>1, <3>2, <2>2, <2>W
    <2>4. CASE LoopPublish(n) \/ Published(n) \/ FlushPublish(n) \/ FlushExit(n)
      <3>1. /\ Looping' = Looping /\ UNCHANGED <<captured, closedDone>>
            /\ loop'[lives] \in {"select", "publish"} <=> loop[lives] \in {"select", "publish"}
            /\ loop'[lives] = "ended" <=> loop[lives] = "ended"
        BY <2>4, <1>T DEF LoopPublish, Published, FlushPublish, FlushExit, Looping
      <3> QED BY <3>1, <2>2, <2>W
    <2>5. CASE LoopExit(n)
      <3>1. n = lives /\ loop[lives] = "select"
        BY <2>5, <2>W, <1>T DEF LoopExit, Looping
      <3>2. loop'[lives] = "ended" /\ Looping' = {}
        BY <2>5, <3>1, <2>W, <1>T DEF LoopExit, Looping
      <3> QED BY <3>1, <3>2, <2>2, <2>W
    <2>6. ~LoopExitTwice(n) /\ ~PublishOnClosed(n)
      BY DeadOrAlive DEF LoopExitTwice, PublishOnClosed
    <2> QED BY <1>4, <2>3, <2>4, <2>5, <2>6 DEF LifeStep
  <1>5. CASE RowStep \/ UNCHANGED vars
    BY <1>5, <1>K, RowSteps DEF vars, In
  <1> QED BY <1>1, <1>2, <1>3, <1>4, <1>5 DEF Next

\* Nobody waits for a loop that has just begun,
LEMMA WaitInit == Init => WaitInv
  <1> SUFFICES ASSUME Init PROVE WaitInv
    OBVIOUS
  <1>1. Looping = {1} /\ loop[1] = "begin" /\ In({"await"}) = {}
    BY LivesAssumption DEF Init, Looping, Lives, In
  <1> QED BY <1>1 DEF Init, WaitInv

\* and the three invariants hold in every reachable state.
LEMMA WaitInvariant == Spec => [](TypeInv /\ CalmInv /\ WaitInv)
  <1>1. Init => TypeInv /\ CalmInv /\ WaitInv
    BY TypeInit, CalmInit, WaitInit
  <1>2. TypeInv /\ CalmInv /\ WaitInv /\ [Next]_vars => (TypeInv /\ CalmInv /\ WaitInv)'
    BY TypeStep, CalmStep, WaitStep
  <1> QED BY <1>1, <1>2, PTL DEF Spec

\* The end of the process leaves no loop.
LEMMA EndStep == EndInv /\ [Next]_vars => EndInv'
  <1> SUFFICES ASSUME EndInv, [Next]_vars, ~Live' PROVE Looping' = {}
    BY DEF EndInv
  <1> USE DEF callVars, lifeVars, goVars, netVars, rowVars, histVars
  <1>1. ASSUME NEW cause, Die(cause)
        PROVE  Looping' = {}
    BY <1>1 DEF Die, Looping
  <1>2. ASSUME NEW c \in Callers, Lookup(c)
        PROVE  FALSE
    BY <1>2 DEF Lookup, StartLookup, StopLookup, RemoveLookup, ShutdownLookup, Live
  <1>3. ASSUME NEW c \in Callers, StartStep(c) \/ StopStep(c)
        PROVE  Looping' = {}
    <2>1. CASE ShutdownReturn(c)
      BY <2>1, <1>1 DEF ShutdownReturn
    <2>2. CASE ~ShutdownReturn(c)
      <3>1. Live /\ UNCHANGED phase
        BY <1>3, <2>2 DEF StartStep, StartCheck, StartSwap, StartMakeDone, StartLaunch,
             StartUpdateStatus, StopStep, StopSwap, StopCancel, StopReadDone, StopAwait,
             StopClosePublisher, StopReturn
      <3> QED BY <3>1 DEF Live
    <2> QED BY <2>1, <2>2
  <1>4. ASSUME NEW n \in Lives, LifeStep(n)
        PROVE  Looping' = {}
    <2>1. CASE LoopExitTwice(n) \/ PublishOnClosed(n)
      BY <2>1, <1>1 DEF LoopExitTwice, PublishOnClosed
    <2>2. CASE ~(LoopExitTwice(n) \/ PublishOnClosed(n))
      <3>1. Live /\ UNCHANGED phase
        BY <1>4, <2>2 DEF LifeStep, LoopBegin, LoopPublish, LoopExit, FlushPublish, FlushExit,
             Published, CanLock
      <3> QED BY <3>1 DEF Live
    <2> QED BY <2>1, <2>2
  <1>5. CASE RowStep \/ UNCHANGED vars
    BY <1>5, RowSteps DEF vars, EndInv, Live, Looping
  <1> QED BY <1>2, <1>3, <1>4, <1>5 DEF Next

\* At most one sensor loop exists (SingleLoop), however many Starts race and
\* however many lives the worker has had: the loop owns the worker's fields
\* without a lock.  The hypotheses are the two histories under which the code
\* does let two loops run.
THEOREM OneLoop == Spec => []SingleLoop
  <1>1. TypeInv /\ WaitInv /\ EndInv => SingleLoop
    <2> SUFFICES ASSUME TypeInv, WaitInv, EndInv, ~mixed, ~timedOut
                 PROVE  Cardinality(Looping) <= 1
      BY DEF SingleLoop
    <2>1. Looping \subseteq {lives}
      BY DEF WaitInv, EndInv
    <2>2. IsFiniteSet({lives}) /\ Cardinality({lives}) = 1
      BY FS_Singleton
    <2>3. Looping = {} \/ Looping = {lives}
      BY <2>1
    <2> QED BY <2>2, <2>3, FS_EmptySet
  <1>2. Init => EndInv
    BY DEF Init, EndInv, Live
  <1> QED BY <1>1, <1>2, WaitInvariant, EndStep, PTL DEF Spec

\* When the publisher is closed no loop is left that could still answer a
\* command (CloseAfterLoop): the wait of Stop is long enough, whoever else starts
\* or stops the worker, unless it is given up.
THEOREM ClosesAfterLoop == Spec => CloseAfterLoop
  <1>1. TypeInv /\ CalmInv /\ WaitInv /\ [Next]_vars
          => [js /\ ~js' /\ ~mixed /\ ~timedOut => Looping = {}]_vars
    <2> SUFFICES ASSUME TypeInv, CalmInv, WaitInv, [Next]_vars,
                        js, ~js', ~mixed, ~timedOut
                 PROVE  Looping = {}
      OBVIOUS
    <2> USE DEF callVars, lifeVars, goVars, netVars, rowVars, histVars
    <2>1. PICK c \in Callers : StopClosePublisher(c)
      <3>1. ASSUME NEW c \in Callers, Lookup(c) \/ StartStep(c) \/ StopStep(c),
                   ~StopClosePublisher(c)
            PROVE  UNCHANGED js
        BY <3>1 DEF Lookup, StartLookup, StopLookup, RemoveLookup, ShutdownLookup, Call,
             StartStep, StartCheck, StartSwap, StartMakeDone, StartLaunch, StartUpdateStatus,
             StopStep, StopSwap, StopCancel, StopReadDone, StopAwait,
             StopReturn, ShutdownReturn, Die
      <3>2. ASSUME NEW n \in Lives, LifeStep(n)
            PROVE  UNCHANGED js
        BY <3>2 DEF LifeStep, LoopBegin, LoopPublish, LoopExit, LoopExitTwice, FlushPublish,
             FlushExit, PublishOnClosed, Published, Die
      <3>3. ~RowStep
        BY RowSteps
      <3> QED BY <3>1, <3>2, <3>3 DEF Next, vars
    <2>2. Live /\ pc[c] = "closePub"
      BY <2>1 DEF StopClosePublisher
    <2>3. OneWinner /\ OneServing
      BY <2>2 DEF CalmInv
    <2>4. In({"cancel"}) = {} /\ In({"readDone", "await"}) = {} /\ ~Serving
      BY <2>2, <2>3 DEF In, OneWinner, Serving, Winning, Ending, Stopping
    <2>5. Looping \ cancelled = {} /\ Looping \cap cancelled = {}
      BY <2>2, <2>3, <2>4 DEF OneServing, WaitInv
    <2> QED BY <2>5
  <1> QED BY <1>1, WaitInvariant, PTL DEF Spec, CloseAfterLoop
=============================================================================
