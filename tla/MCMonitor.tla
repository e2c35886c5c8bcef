------------------------------ MODULE MCMonitor -------------------------------
(* A mount that comes and goes, alerted after one tick.                       *)
EXTENDS Monitor
CONSTANT disk
MCFor == [m \in Metric |-> 1]
MCOrder == <<disk>>
=============================================================================
