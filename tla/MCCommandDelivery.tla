------------------------- MODULE MCCommandDelivery -------------------------
(* CommandDelivery for TLC.  Channels of one command fill at once, and two    *)
(* deliveries are enough for a lost acknowledgement to repeat a command.      *)
EXTENDS CommandDelivery
=============================================================================
