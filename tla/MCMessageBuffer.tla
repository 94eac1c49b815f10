-------------------------- MODULE MCMessageBuffer --------------------------
(* MessageBuffer for TLC.  With a capacity of 3 and 8 envelopes the channel   *)
(* fills, overflows several times and drains.                                 *)
EXTENDS MessageBuffer
=============================================================================
