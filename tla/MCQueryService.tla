---------------------------- MODULE MCQueryService -----------------------------
(* Instances of QueryService for TLC. *)
EXTENDS QueryService

CONSTANTS d1, d2, q1, q2, r1

\* Each body differs from another in one respect; the first two are the same query.
ManyBodies ==
    {[question |-> q1, ids |-> <<d1, d2>>, topK |-> 0],
     [question |-> q1, ids |-> <<d2, d1>>, topK |-> 5],
     [question |-> q1, ids |-> <<d1, d1>>, topK |-> 1],
     [question |-> q1, ids |-> <<d1, d1>>, topK |-> 5],
     [question |-> q2, ids |-> <<d1, d1>>, topK |-> 5]}
================================================================================
