------------------------------- MODULE MCStartup -------------------------------
(* Instances of Startup for TLC. *)
EXTENDS Startup

CONSTANTS g1, p1, p2, a1, q1
================================================================================
