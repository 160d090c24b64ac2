---------------------------- MODULE MCQueueSlots ----------------------------
(* An instance of QueueSlots: three requests, and room for two of them.    *)
EXTENDS QueueSlots

CONSTANTS q1, q2, q3
const_Requests == {q1, q2, q3}
=============================================================================
