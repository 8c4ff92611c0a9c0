------------------------------ MODULE MCIngestion ------------------------------
(* Instances of Ingestion for TLC. *)
EXTENDS Ingestion

CONSTANTS d1, d2, p1, p2, a1, a2

Workers == Permutations({p1, p2}) \cup Permutations({a1, a2})
================================================================================
