------------------------------ MODULE MCNatsQueue ------------------------------
(* Instances of NatsQueue for TLC. *)
EXTENDS NatsQueue, TLC

CONSTANTS d1, d2, d3, a1, a2
================================================================================
