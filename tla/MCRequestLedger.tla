--------------------------- MODULE MCRequestLedger --------------------------
(* An instance of RequestLedger with two requests.                         *)
EXTENDS RequestLedger

CONSTANTS q1, q2
const_Requests == {q1, q2}
=============================================================================
