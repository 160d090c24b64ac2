------------------------ MODULE MCRealtimeLifecycle ------------------------
(***************************************************************************)
(* Instances of RealtimeLifecycle.  s2 has slower cores: it can host both  *)
(* services by their effective demand, but the raw demand of a migration   *)
(* check admits only one at a time.  s3 has room for one service.          *)
(***************************************************************************)
EXTENDS RealtimeLifecycle, TLC

CONSTANTS s1, s2, s3

MCCapacity == (s1 :> 6) @@ (s2 :> 4) @@ (s3 :> 3)
MCResourceMips == [v \in Services |-> 3]
MCEffMips == [s \in Servers |-> [v \in Services |-> IF s = s2 THEN 2 ELSE 3]]
=============================================================================
