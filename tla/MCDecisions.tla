---------------------------- MODULE MCDecisions -----------------------------
(***************************************************************************)
(* Instances of Decisions: two servers of different profiles, the unit of  *)
(* time of MCSimLifecycle, and the sustain times 60 s and 30 s.            *)
(***************************************************************************)
EXTENDS Decisions, TLC

CONSTANTS s1, s2

MCCapacity == (s1 :> 6) @@ (s2 :> 4)
MCResourceMips == [v \in Services |-> 3]
MCEffMips == [s \in Servers |-> [v \in Services |-> IF s = s2 THEN 2 ELSE 3]]

MCLoad(occ, rejected, quiet, late, far) ==
  [occ |-> occ, rejected |-> rejected, quiet |-> quiet, late |-> late, far |-> far]
\* The first service is idle and quiet, or far and late though no queue is long,
\* or rejecting.  The second, always idle, only takes room.
Idling == MCLoad(0, FALSE, TRUE, FALSE, FALSE)
MCLoads ==
  (1 :> {Idling, MCLoad(50, FALSE, FALSE, TRUE, TRUE),
         MCLoad(90, TRUE, FALSE, TRUE, FALSE)})
  @@ (2 :> {Idling})
=============================================================================
