------------------------------ MODULE MCRetrieval ------------------------------
(* Instances of Retrieval for TLC. *)
EXTENDS Retrieval, TLC

CONSTANTS d1, d2, q1, q2, r1, r2

\* One body, for the run about time.
OneBody == {[question |-> q1, ids |-> <<d1>>, topK |-> 0]}

Requests == Permutations(Request)
================================================================================
