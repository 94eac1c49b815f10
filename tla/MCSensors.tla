----------------------------- MODULE MCSensors -----------------------------
(* Sensors for TLC: two requests add, remove and disturb two sensors while    *)
(* the gateway is created, stopped, started and removed.                      *)
EXTENDS Sensors
=============================================================================
