------------------------ MODULE MessageBufferProofs ------------------------
(***************************************************************************)
(* Theorems about MessageBuffer for every capacity and every number of     *)
(* envelopes.  The inductive invariant adds three facts to the checked     *)
(* properties: there is room when Send retries, the envelope being         *)
(* published is older than every buffered one, and it is newer than        *)
(* everything already on the stream.                                       *)
(***************************************************************************)
EXTENDS MessageBuffer, SequenceFacts, Integers, TLAPS

\* Between the eviction and the retry only Flush touches the channel.
RetryHasRoom == sender = "retry" => Len(ch) < Capacity

\* Newest envelope of the stream, as LossyStream defines it.
NewestStored == IF stream = <<>> THEN 0 ELSE stream[Len(stream)]

\* Everything on the stream is older than the envelope being published ...
StreamBehind ==
  IF flusher = "publish"
    THEN NewestStored < msg /\ msg <= Accepted - Len(ch) /\ msg >= 1
    ELSE NewestStored <= Accepted - Len(ch)

SendingCounted == Sending => sent >= 1

IInv ==
  /\ TypeOK
  /\ SendingCounted
  /\ RetryHasRoom
  /\ NoSilentLoss
  /\ NewestKept
  /\ StreamBehind

-----------------------------------------------------------------------------
\* An empty buffer satisfies the invariant.
LEMMA InitIInv == Init => IInv
  <1> SUFFICES ASSUME Init PROVE IInv
    OBVIOUS
  <1>1. ch = <<>> /\ Len(ch) = 0 /\ stream = <<>> /\ ~Sending /\ Accepted = 0
    BY DEF Init, Sending, Accepted
  <1>2. TypeOK
    <2>1. ch \in Seq(Nat) /\ stream \in Seq(Nat)
      BY <1>1
    <2>2. Len(ch) <= Capacity /\ 0 \in 0..Capacity
      BY <1>1, CapacityAssumption
    <2>3. cancelled \in BOOLEAN /\ sender \in SenderStates /\ flusher \in FlusherStates
      BY Zenon DEF Init, SenderStates, FlusherStates
    <2> QED BY <2>1, <2>2, <2>3 DEF Init, TypeOK
  <1>3. SendingCounted /\ RetryHasRoom
    BY <1>1 DEF Init, SendingCounted, RetryHasRoom
  <1>4. NoSilentLoss /\ NewestKept
    BY <1>1 DEF Init, NoSilentLoss, NewestKept, InFlight
  <1>5. StreamBehind
    BY <1>1 DEF Init, StreamBehind, NewestStored
  <1> QED
    BY <1>2, <1>3, <1>4, <1>5 DEF IInv

\* Every step of Send, Flush and Stop preserves it.
LEMMA StepIInv == IInv /\ [Next]_vars => IInv'
  <1> SUFFICES ASSUME IInv, [Next]_vars PROVE IInv'
    OBVIOUS
  <1> USE CapacityAssumption, MaxSendsAssumption DEF senderVars, flusherVars
  <1>T. Len(ch) \in Nat /\ Len(stream) \in Nat /\ NewestStored \in Nat
    BY DEF IInv, TypeOK, NewestStored
  <1>1. CASE SendCall
    BY <1>1, <1>T DEF SendCall, IInv, TypeOK, SendingCounted, RetryHasRoom, NoSilentLoss,
       NewestKept, StreamBehind, NewestStored, Sending, Accepted, InFlight, SenderStates
  <1>2. CASE SendOffer
    <2>1. CASE Len(ch) < Capacity /\ ch' = Append(ch, sent) /\ sender' = "idle"
      <3>1. sent \in Nat /\ sent >= 1 /\ ch \in Seq(Nat)
        BY <1>2 DEF SendOffer, IInv, TypeOK, SendingCounted, Sending
      <3>2. /\ ch' \in Seq(Nat) /\ Len(ch') = Len(ch) + 1 /\ ch'[Len(ch) + 1] = sent
            /\ \A i \in 1..Len(ch) : ch'[i] = ch[i]
        BY <2>1, <3>1, AppendFacts
      <3>3. Accepted = sent - 1 /\ Accepted' = sent
        BY <1>2, <2>1 DEF SendOffer, Accepted, Sending
      <3>4. NewestKept'
        <4> SUFFICES ASSUME NEW i \in 1..(Len(ch) + 1)
                     PROVE  ch'[i] = sent - (Len(ch) + 1) + i
          BY <3>2, <3>3 DEF NewestKept
        <4>1. CASE i = Len(ch) + 1
          BY <4>1, <3>1, <3>2, <1>T
        <4>2. CASE i \in 1..Len(ch)
          BY <4>2, <3>1, <3>2, <3>3, <1>T DEF IInv, NewestKept
        <4> QED BY <4>1, <4>2, <1>T
      <3>5. TypeOK' /\ SendingCounted' /\ RetryHasRoom'
        BY <1>2, <2>1, <3>2, <1>T DEF SendOffer, IInv, TypeOK, SendingCounted,
           RetryHasRoom, Sending, SenderStates
      <3>6. NoSilentLoss' /\ StreamBehind'
        BY <1>2, <3>1, <3>2, <3>3, <1>T DEF SendOffer, IInv, TypeOK, NoSilentLoss,
           InFlight, StreamBehind, NewestStored
      <3> QED BY <3>4, <3>5, <3>6 DEF IInv
    <2>2. CASE Len(ch) = Capacity /\ sender' = "evict" /\ UNCHANGED ch
      BY <1>2, <2>2, <1>T DEF SendOffer, IInv, TypeOK, SendingCounted,
         RetryHasRoom, NoSilentLoss, NewestKept, StreamBehind, NewestStored, Sending,
         Accepted, InFlight, SenderStates
    <2> QED BY <1>2, <2>1, <2>2 DEF SendOffer
  <1>3. CASE SendEvict
    <2>1. CASE ch # <<>> /\ ch' = Tail(ch) /\ dropped' = dropped + 1
      <3>1. ch \in Seq(Nat)
        BY DEF IInv, TypeOK
      <3>2. /\ ch' \in Seq(Nat) /\ Len(ch) >= 1 /\ Len(ch') = Len(ch) - 1
            /\ \A i \in 1..Len(ch') : ch'[i] = ch[i + 1]
        BY <2>1, <3>1, <1>T, TailFacts
      <3>3. /\ sender = "evict" /\ sender' = "retry" /\ sent' = sent
            /\ flusher' = flusher /\ msg' = msg /\ cancelled' = cancelled
            /\ published' = published /\ errors' = errors /\ stream' = stream
        BY <1>3 DEF SendEvict
      <3>4. Accepted = sent - 1 /\ Accepted' = sent - 1 /\ InFlight' = InFlight
        BY <3>3 DEF Accepted, Sending, InFlight
      <3>5. NewestKept'
        <4> SUFFICES ASSUME NEW i \in 1..(Len(ch) - 1)
                     PROVE  ch'[i] = sent - 1 - (Len(ch) - 1) + i
          BY <3>2, <3>4 DEF NewestKept
        <4>1. ch'[i] = ch[i + 1] /\ i + 1 \in 1..Len(ch)
          BY <3>2, <1>T
        <4>2. sent \in Nat
          BY DEF IInv, TypeOK
        <4> QED BY <4>1, <4>2, <3>4, <1>T DEF IInv, NewestKept
      <3>6. TypeOK'
        BY <2>1, <3>2, <3>3, <1>T DEF IInv, TypeOK, SenderStates
      <3>7. SendingCounted' /\ RetryHasRoom'
        BY <3>2, <3>3, <1>T DEF IInv, TypeOK, SendingCounted, RetryHasRoom, Sending
      <3>8. NoSilentLoss'
        <4>1. sent \in Nat /\ dropped \in Nat /\ published \in Nat /\ errors \in Nat
              /\ InFlight \in Nat
          BY DEF IInv, TypeOK, InFlight
        <4>2. sent - 1 = published + errors + dropped + Len(ch) + InFlight
          BY <3>4 DEF IInv, NoSilentLoss
        <4> QED BY <2>1, <3>2, <3>3, <3>4, <4>1, <4>2, <1>T DEF NoSilentLoss
      <3>9. StreamBehind'
        BY <3>2, <3>3, <3>4, <1>T DEF IInv, TypeOK, StreamBehind, NewestStored
      <3> QED BY <3>5, <3>6, <3>7, <3>8, <3>9 DEF IInv
    <2>2. CASE ch = <<>> /\ UNCHANGED <<ch, dropped>>
      BY <1>3, <2>2, <1>T DEF SendEvict, IInv, TypeOK, SendingCounted,
         RetryHasRoom, NoSilentLoss, NewestKept, StreamBehind, NewestStored, Sending,
         Accepted, InFlight, SenderStates
    <2> QED BY <1>3, <2>1, <2>2 DEF SendEvict
  <1>4. CASE SendRetry
    <2>1. sent \in Nat /\ sent >= 1 /\ ch \in Seq(Nat) /\ ch' = Append(ch, sent)
      BY <1>4 DEF SendRetry, IInv, TypeOK, SendingCounted, Sending, RetryHasRoom
    <2>2. /\ ch' \in Seq(Nat) /\ Len(ch') = Len(ch) + 1 /\ ch'[Len(ch) + 1] = sent
          /\ \A i \in 1..Len(ch) : ch'[i] = ch[i]
      BY <2>1, AppendFacts
    <2>3. Accepted = sent - 1 /\ Accepted' = sent
      BY <1>4 DEF SendRetry, Accepted, Sending
    <2>4. NewestKept'
      <3> SUFFICES ASSUME NEW i \in 1..(Len(ch) + 1)
                   PROVE  ch'[i] = sent - (Len(ch) + 1) + i
        BY <2>2, <2>3 DEF NewestKept
      <3>1. CASE i = Len(ch) + 1
        BY <3>1, <2>1, <2>2, <1>T
      <3>2. CASE i \in 1..Len(ch)
        BY <3>2, <2>1, <2>2, <2>3, <1>T DEF IInv, NewestKept
      <3> QED BY <3>1, <3>2, <1>T
    <2>5. TypeOK' /\ SendingCounted' /\ RetryHasRoom'
      BY <1>4, <2>2, <1>T DEF SendRetry, IInv, TypeOK, SendingCounted,
         RetryHasRoom, Sending, SenderStates
    <2>6. NoSilentLoss'
      <3>1. sent - 1 = published + errors + dropped + Len(ch) + InFlight
        BY <2>3 DEF IInv, NoSilentLoss
      <3>2. /\ published' = published /\ errors' = errors /\ dropped' = dropped
            /\ InFlight' = InFlight /\ InFlight \in Nat
        BY <1>4 DEF SendRetry, InFlight
      <3> QED BY <3>1, <3>2, <2>1, <2>2, <2>3, <1>T DEF IInv, TypeOK, NoSilentLoss
    <2>7. StreamBehind'
      BY <1>4, <2>1, <2>2, <2>3, <1>T DEF SendRetry, IInv, TypeOK, StreamBehind,
         NewestStored
    <2> QED BY <2>4, <2>5, <2>6, <2>7 DEF IInv
  <1>5. CASE FlushTake
    <2>1. /\ ch' \in Seq(Nat) /\ Len(ch) >= 1 /\ Len(ch') = Len(ch) - 1
          /\ \A i \in 1..Len(ch') : ch'[i] = ch[i + 1]
          /\ msg' = ch[1] /\ msg' \in Nat
      BY <1>5, TailFacts DEF FlushTake, IInv, TypeOK
    <2>2. Accepted' = Accepted /\ NewestStored' = NewestStored /\ Accepted \in Int
      BY <1>5 DEF FlushTake, Accepted, Sending, NewestStored, IInv, TypeOK
    <2>3. msg' = Accepted - Len(ch) + 1
      BY <2>1, <1>T DEF IInv, NewestKept
    <2>4. NewestKept'
      BY <2>1, <2>2, <1>T DEF IInv, NewestKept
    <2>5. TypeOK' /\ SendingCounted' /\ RetryHasRoom'
      BY <1>5, <2>1, <1>T DEF FlushTake, IInv, TypeOK, SendingCounted,
         RetryHasRoom, Sending, FlusherStates
    <2>6. NoSilentLoss'
      BY <1>5, <2>1, <2>2, <1>T DEF FlushTake, IInv, TypeOK, NoSilentLoss, InFlight
    <2>7. StreamBehind'
      BY <1>5, <2>1, <2>2, <2>3, <1>T DEF FlushTake, IInv, StreamBehind
    <2> QED BY <2>4, <2>5, <2>6, <2>7 DEF IInv
  <1>6. CASE FlushStop
    BY <1>6, <1>T DEF FlushStop, IInv, TypeOK, SendingCounted, RetryHasRoom,
       NoSilentLoss, NewestKept, StreamBehind, NewestStored, Sending, Accepted,
       InFlight, FlusherStates
  <1>7. CASE FlushPublishOK
    BY <1>7, <1>T, AppendFacts DEF FlushPublishOK, IInv, TypeOK, SendingCounted,
       RetryHasRoom, NoSilentLoss, NewestKept, StreamBehind, NewestStored, Sending,
       Accepted, InFlight, FlusherStates
  <1>8. CASE FlushPublishError
    <2>1. CASE stream' = stream
      BY <1>8, <2>1, <1>T DEF FlushPublishError, IInv, TypeOK, SendingCounted,
         RetryHasRoom, NoSilentLoss, NewestKept, StreamBehind, NewestStored, Sending,
         Accepted, InFlight, FlusherStates
    <2>2. CASE stream' = Append(stream, msg)
      BY <1>8, <2>2, <1>T, AppendFacts DEF FlushPublishError, IInv, TypeOK,
         SendingCounted, RetryHasRoom, NoSilentLoss, NewestKept, StreamBehind,
         NewestStored, Sending, Accepted, InFlight, FlusherStates
    <2> QED BY <1>8, <2>1, <2>2 DEF FlushPublishError
  <1>11. CASE FlushReplyLost
    <2>1. CASE stream' = stream
      BY <1>11, <2>1, <1>T DEF FlushReplyLost, IInv, TypeOK, SendingCounted,
         RetryHasRoom, NoSilentLoss, NewestKept, StreamBehind, NewestStored, Sending,
         Accepted, InFlight, FlusherStates
    <2>2. CASE stream' = Append(stream, msg)
      BY <1>11, <2>2, <1>T, AppendFacts DEF FlushReplyLost, IInv, TypeOK,
         SendingCounted, RetryHasRoom, NoSilentLoss, NewestKept, StreamBehind,
         NewestStored, Sending, Accepted, InFlight, FlusherStates
    <2> QED BY <1>11, <2>1, <2>2 DEF FlushReplyLost
  <1>12. CASE FlushPublishCancelled
    BY <1>12, <1>T DEF FlushPublishCancelled, IInv, TypeOK, SendingCounted,
       RetryHasRoom, NoSilentLoss, NewestKept, StreamBehind, NewestStored, Sending,
       Accepted, InFlight, FlusherStates
  <1>9. CASE Cancel
    BY <1>9, <1>T DEF Cancel, IInv, TypeOK, SendingCounted, RetryHasRoom,
       NoSilentLoss, NewestKept, StreamBehind, NewestStored, Sending, Accepted, InFlight
  <1>10. CASE UNCHANGED vars
    BY <1>10, <1>T DEF vars, IInv, TypeOK, SendingCounted, RetryHasRoom,
       NoSilentLoss, NewestKept, StreamBehind, NewestStored, Sending, Accepted, InFlight
  <1> QED
    BY <1>1, <1>2, <1>3, <1>4, <1>5, <1>6, <1>7, <1>8, <1>9, <1>10, <1>11, <1>12
    DEF Next, Send, Flush

-----------------------------------------------------------------------------
\* The inductive invariant holds in every reachable state of the buffer.
THEOREM BufferInvariant == Spec => []IInv
  BY InitIInv, StepIInv, PTL DEF Spec

\* Whatever the interleaving of Send and Flush, the channel never exceeds its
\* capacity and every variable keeps its type.
THEOREM TypeCorrect == Spec => []TypeOK
  <1>1. IInv => TypeOK
    BY DEF IInv
  <1> QED BY BufferInvariant, <1>1, PTL

\* buffer.go never loses an envelope without counting it, for every capacity.
THEOREM LossIsCounted == Spec => []NoSilentLoss
  <1>1. IInv => NoSilentLoss
    BY DEF IInv
  <1> QED BY BufferInvariant, <1>1, PTL

\* The drop-oldest policy of Send keeps exactly the newest envelopes, for every
\* capacity and every interleaving with Flush.
THEOREM EvictionKeepsNewest == Spec => []NewestKept
  <1>1. IInv => NewestKept
    BY DEF IInv
  <1> QED BY BufferInvariant, <1>1, PTL

-----------------------------------------------------------------------------
\* The envelope Flush stores is newer than everything on the stream and was
\* already produced: a step of LossyStream.
LEMMA StoreStep ==
  ASSUME IInv, flusher = "publish", stream' = Append(stream, msg), sent' = sent
  PROVE  \E n \in 1..sent : Stream!Store(n)
  <1>1. msg \in Nat /\ sent \in Nat /\ Len(ch) \in Nat /\ Accepted \in Int /\ Accepted <= sent
    BY DEF IInv, TypeOK, Accepted
  <1>2. Stream!Newest < msg /\ msg >= 1 /\ msg <= sent
    BY <1>1 DEF IInv, StreamBehind, NewestStored, Stream!Newest
  <1>3. Stream!Store(msg)
    BY <1>2, <1>1 DEF Stream!Store, Stream!Newest, IInv, TypeOK
  <1> QED BY <1>1, <1>2, <1>3

\* Each step of the buffer is a step of LossyStream or leaves it unchanged.
LEMMA StepRefines ==
  IInv /\ [Next]_vars => [Stream!Next]_<<sent, stream>>
  <1> SUFFICES ASSUME IInv, [Next]_vars PROVE [Stream!Next]_<<sent, stream>>
    OBVIOUS
  <1>1. CASE SendCall
    BY <1>1 DEF SendCall, Stream!Next, Stream!Produce
  <1>2. CASE FlushPublishOK
    BY <1>2, StoreStep DEF FlushPublishOK, senderVars, Stream!Next
  <1>3. CASE FlushPublishError \/ FlushReplyLost
    BY <1>3, StoreStep DEF FlushPublishError, FlushReplyLost, senderVars, Stream!Next
  <1>4. CASE SendOffer \/ SendEvict \/ SendRetry
    BY <1>4 DEF SendOffer, SendEvict, SendRetry
  <1>5. CASE FlushTake \/ FlushStop \/ FlushPublishCancelled \/ Cancel
    BY <1>5 DEF FlushTake, FlushStop, FlushPublishCancelled, Cancel, senderVars
  <1>6. CASE UNCHANGED vars
    BY <1>6 DEF vars, senderVars
  <1> QED
    BY <1>1, <1>2, <1>3, <1>4, <1>5, <1>6 DEF Next, Send, Flush

\* buffer.go implements LossyStream: whatever is dropped, evicted or lost,
\* the stream stays in production order and free of duplicates.
THEOREM ImplementsLossyStream == Spec => StreamSpec
  <1>1. Init => Stream!Init
    BY DEF Init, Stream!Init
  <1> QED
    BY <1>1, BufferInvariant, StepRefines, PTL DEF Spec, StreamSpec, Stream!Spec
=============================================================================
