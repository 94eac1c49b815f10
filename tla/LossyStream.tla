---------------------------- MODULE LossyStream ----------------------------
(***************************************************************************)
(* What a consumer on the platform side may rely on, for a gateway's       *)
(* telemetry and for its answers to commands: items are produced one after *)
(* the other, and the JetStream stream holds a subsequence of them, in     *)
(* production order and without duplicates.  Any item may be missing.      *)
(* Item n is the n-th one produced; nothing is said about buffers,         *)
(* channels or goroutines, which MessageBuffer and GatewayWorker add.      *)
(***************************************************************************)
EXTENDS Naturals, Sequences

VARIABLES produced,   \* number of items produced so far
          stream      \* the items the stream stored, in order

Newest == IF stream = <<>> THEN 0 ELSE stream[Len(stream)]

Init == produced = 0 /\ stream = <<>>

Produce ==
  /\ produced' = produced + 1
  /\ UNCHANGED stream

\* Skipping over n - Newest - 1 items is how loss shows.
Store(n) ==
  /\ n > Newest
  /\ n <= produced
  /\ stream' = Append(stream, n)
  /\ UNCHANGED produced

Next == Produce \/ \E n \in 1..produced : Store(n)

Spec == Init /\ [][Next]_<<produced, stream>>
=============================================================================
