---------------------------- MODULE MCSimRequests ---------------------------
(* An instance of SimRequests with a fast and a slow place.                *)
EXTENDS SimRequests

CONSTANTS q1, q2, q3, fast, slow
const_Requests == {q1, q2, q3}
const_Places == {fast, slow}
const_ExecTime == [p \in {fast, slow} |-> IF p = fast THEN 1 ELSE 2]
const_ColdExtra == [p \in {fast, slow} |-> IF p = fast THEN 0 ELSE 1]
const_ColdWindow == [p \in {fast, slow} |-> 0]
const_RoutingDelays == {1, 2}
=============================================================================
