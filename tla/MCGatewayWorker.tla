-------------------------- MODULE MCGatewayWorker --------------------------
(* GatewayWorker for TLC: commands that set one field, both or none or are    *)
(* refused, and anomalies that expire in the tick that activates them, or     *)
(* later.                                                                     *)
EXTENDS GatewayWorker

NoUpdate  == [freq |-> None, status |-> None]
SetFreq   == [type |-> "config", update |-> [freq |-> 2, status |-> None]]
Pause     == [type |-> "config", update |-> [freq |-> None, status |-> "paused"]]
SetBoth   == [type |-> "config", update |-> [freq |-> 1, status |-> "online"]]
ZeroFreq  == [type |-> "config", update |-> [freq |-> 0, status |-> "online"]]
Malformed == [type |-> "invalid", update |-> NoUpdate]

MCFrequencies   == {1, 2}
MCCommands      == {SetFreq, Pause, SetBoth, ZeroFreq, Malformed}
MCAnomalies     == {[type |-> "disconnect", duration |-> 1],
                   [type |-> "degradation", duration |-> 0]}
MCLongAnomalies == {[type |-> "disconnect", duration |-> 3]}
=============================================================================
