--------------------------- MODULE MessageBuffer ---------------------------
(***************************************************************************)
(* The outbound telemetry buffer of one gateway (internal/app/buffer.go):  *)
(* the sensor loop calls Send, which never blocks and evicts the oldest    *)
(* envelope when the channel is full; the Flush goroutine takes envelopes  *)
(* and publishes them until the worker's context is cancelled.             *)
(*                                                                         *)
(* An envelope is its production number.  Send is three selects, and Flush *)
(* runs between any two of them, so each select is a step of its own.  The *)
(* occupancy gauge both of them set is left out: nothing reads it.  The    *)
(* module covers one life of the worker, from Start to Stop.               *)
(***************************************************************************)
EXTENDS Naturals, Sequences

CONSTANTS Capacity,   \* cfg.GatewayBufferSize
          MaxSends    \* bound: envelopes the sensor loop produces

\* config.Load replaces a GATEWAY_BUFFER_SIZE that is not positive by 1000.
ASSUME CapacityAssumption == Capacity \in Nat \ {0}
ASSUME MaxSendsAssumption == MaxSends \in Nat

VARIABLES
  ch,          \* b.ch, oldest envelope first
  sent,        \* envelopes handed to Send, the one being sent included
  sender,      \* where the sensor loop is inside Send
  flusher,     \* where Flush is
  msg,         \* the envelope Flush took from b.ch
  cancelled,   \* the worker's context is done
  published,   \* EnvelopesPublished
  errors,      \* PublishErrors
  dropped,     \* BufferDropped
  stream       \* external: what JetStream stored on the telemetry subject

senderVars  == <<sent, sender>>
flusherVars == <<flusher, msg>>
vars == <<ch, senderVars, flusherVars, cancelled, published, errors, dropped, stream>>

SenderStates  == {"idle", "offer", "evict", "retry"}
FlusherStates == {"select", "publish", "unanswered", "stopped"}

\* NewMessageBuffer
Init ==
  /\ ch = <<>>
  /\ sent = 0 /\ sender = "idle"
  /\ flusher = "select" /\ msg = 0
  /\ cancelled = FALSE
  /\ published = 0 /\ errors = 0 /\ dropped = 0
  /\ stream = <<>>

-----------------------------------------------------------------------------
(* Send, called by the sensor loop only *)

\* The sensor loop calls Send with a new envelope.
SendCall ==
  /\ sender = "idle"
  /\ sent < MaxSends
  /\ sent' = sent + 1
  /\ sender' = "offer"
  /\ UNCHANGED <<ch, flusherVars, cancelled, published, errors, dropped,
                 stream>>

\* First select: enqueue, or find the channel full.
SendOffer ==
  /\ sender = "offer"
  /\ \/ /\ Len(ch) < Capacity
        /\ ch' = Append(ch, sent)
        /\ sender' = "idle"
     \/ /\ Len(ch) = Capacity
        /\ sender' = "evict"
        /\ UNCHANGED ch
  /\ UNCHANGED <<sent, flusherVars, cancelled, published, errors, dropped,
                 stream>>

\* Faulty variant: the eviction is not counted.
SendEvictUncounted ==
  /\ sender = "evict"
  /\ ch' = IF ch = <<>> THEN ch ELSE Tail(ch)
  /\ sender' = "retry"
  /\ UNCHANGED <<sent, flusherVars, cancelled, published, errors, dropped,
                 stream>>

\* Faulty variant: the envelope to be sent is what is dropped, not the oldest.
SendEvictNewest ==
  /\ sender = "evict"
  /\ dropped' = dropped + 1
  /\ sender' = "idle"
  /\ UNCHANGED <<ch, sent, flusherVars, cancelled, published, errors, stream>>

\* Second select: drop the oldest envelope, unless Flush emptied the channel.
SendEvict ==
  /\ sender = "evict"
  /\ \/ /\ ch # <<>>
        /\ ch' = Tail(ch)
        /\ dropped' = dropped + 1
     \/ /\ ch = <<>>
        /\ UNCHANGED <<ch, dropped>>
  /\ sender' = "retry"
  /\ UNCHANGED <<sent, flusherVars, cancelled, published, errors, stream>>

\* Third select: enqueue, or give the envelope up when the channel is full again.
SendRetry ==
  /\ sender = "retry"
  /\ ch' = IF Len(ch) < Capacity THEN Append(ch, sent) ELSE ch
  /\ sender' = "idle"
  /\ UNCHANGED <<sent, flusherVars, cancelled, published, errors, dropped,
                 stream>>

-----------------------------------------------------------------------------
(* Flush *)

\* The select of Flush takes an envelope; Go chooses freely between this case
\* and ctx.Done() when both are ready.
FlushTake ==
  /\ flusher = "select"
  /\ ch # <<>>
  /\ msg' = Head(ch)
  /\ ch' = Tail(ch)
  /\ flusher' = "publish"
  /\ UNCHANGED <<senderVars, cancelled, published, errors, dropped, stream>>

\* The select of Flush sees the cancelled context and the goroutine returns.
FlushStop ==
  /\ flusher = "select"
  /\ cancelled
  /\ flusher' = "stopped"
  /\ UNCHANGED <<ch, senderVars, msg, cancelled, published, errors, dropped,
                 stream>>

\* Publish returned without an error: JetStream stored the envelope.
FlushPublishOK ==
  /\ flusher = "publish"
  /\ stream' = Append(stream, msg)
  /\ published' = published + 1
  /\ flusher' = "select"
  /\ UNCHANGED <<ch, senderVars, msg, cancelled, errors, dropped>>

\* Faulty variant: a failed publish puts the envelope back in the channel.
FlushPublishErrorRequeue ==
  /\ flusher = "publish"
  /\ stream' \in {stream, Append(stream, msg)}
  /\ errors' = errors + 1
  /\ ch' = IF Len(ch) < Capacity THEN Append(ch, msg) ELSE ch
  /\ flusher' = "select"
  /\ UNCHANGED <<senderVars, msg, cancelled, published, dropped>>

\* Faulty variant: the first publish that fails ends Flush.
FlushPublishErrorGivesUp ==
  /\ flusher = "publish"
  /\ stream' \in {stream, Append(stream, msg)}
  /\ errors' = errors + 1
  /\ flusher' = "stopped"
  /\ UNCHANGED <<ch, senderVars, msg, cancelled, published, dropped>>

\* Publish returned an error (no stream, no connection, cancelled context): the
\* envelope was not stored, or it was and the acknowledgement did not arrive.
FlushPublishError ==
  /\ flusher = "publish"
  /\ stream' \in {stream, Append(stream, msg)}
  /\ errors' = errors + 1
  /\ flusher' = "select"
  /\ UNCHANGED <<ch, senderVars, msg, cancelled, published, dropped>>

\* No acknowledgement arrives and none ever will.  Publish passes nats.Context(ctx)
\* and the worker's context has no deadline, so the request timeout of JetStream
\* is not applied: Flush waits inside Publish.
FlushReplyLost ==
  /\ flusher = "publish"
  /\ stream' \in {stream, Append(stream, msg)}
  /\ flusher' = "unanswered"
  /\ UNCHANGED <<ch, senderVars, msg, cancelled, published, errors, dropped>>

\* Only the cancelled context makes a Publish without an answer return.
FlushPublishCancelled ==
  /\ flusher = "unanswered"
  /\ cancelled
  /\ errors' = errors + 1
  /\ flusher' = "select"
  /\ UNCHANGED <<ch, senderVars, msg, cancelled, published, dropped, stream>>

-----------------------------------------------------------------------------
\* GatewayWorker.Stop calls w.cancel().
Cancel ==
  /\ ~cancelled
  /\ cancelled' = TRUE
  /\ UNCHANGED <<ch, senderVars, flusherVars, published, errors, dropped,
                 stream>>

Send  == SendCall \/ SendOffer \/ SendEvict \/ SendRetry
Flush == FlushTake \/ FlushStop \/ FlushPublishOK \/ FlushPublishError
           \/ FlushReplyLost \/ FlushPublishCancelled

Next == Send \/ Flush \/ Cancel

Spec == Init /\ [][Next]_vars

\* The Flush goroutine keeps being scheduled.  Of a publish it is assumed that its
\* answer arrives or is lost, not that it returns: one without an answer returns
\* when the context is cancelled, and nothing is assumed of Stop or of the
\* sensor loop.
FairSpec == Spec /\ WF_vars(Flush)

-----------------------------------------------------------------------------
(* Properties *)

TypeOK ==
  /\ ch \in Seq(Nat) /\ Len(ch) <= Capacity
  /\ sent \in Nat
  /\ sender \in SenderStates
  /\ flusher \in FlusherStates
  /\ msg \in Nat
  /\ cancelled \in BOOLEAN
  /\ published \in Nat /\ errors \in Nat /\ dropped \in Nat
  /\ stream \in Seq(Nat)

Sending  == sender \in {"offer", "evict", "retry"}
Accepted == IF Sending THEN sent - 1 ELSE sent
InFlight == IF flusher \in {"publish", "unanswered"} THEN 1 ELSE 0

\* No envelope disappears unseen: whatever Send has dealt with was published,
\* counted as a publish error, counted as dropped, is buffered or is inside
\* Publish.  The silent last default of Send is never taken, because Flush
\* only takes from the channel between the eviction and the retry.
NoSilentLoss ==
  Accepted = published + errors + dropped + Len(ch) + InFlight

\* Eviction only ever costs the oldest envelopes: the channel holds the newest
\* Len(ch) accepted envelopes, without a gap and in order, however Send and
\* Flush interleave.
NewestKept == \A i \in 1..Len(ch) : ch[i] = Accepted - Len(ch) + i

\* The telemetry stream sees a subsequence of the produced envelopes, in order
\* and without duplicates (buffer.go implements LossyStream).
Stream == INSTANCE LossyStream WITH produced <- sent
StreamSpec == Stream!Spec

\* While the worker is not stopped and no publish is left without an answer, no
\* envelope stays in the buffer for ever: Flush takes it or a newer one evicts it,
\* and the sensor loop cannot starve it.  A publish error does not end Flush; one
\* lost answer does hold it until Stop.
Buffered(n) == \E i \in 1..Len(ch) : ch[i] = n
BufferDrains ==
  \A n \in 1..MaxSends :
    Buffered(n) ~> (~Buffered(n) \/ cancelled \/ flusher = "unanswered")
=============================================================================
