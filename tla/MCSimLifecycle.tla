--------------------------- MODULE MCSimLifecycle ---------------------------
(***************************************************************************)
(* Instances of SimLifecycle.  The time unit is 5 seconds, which divides   *)
(* every delay of common/config.py: boot 30 s, pod start-up 5 s, graceful  *)
(* termination 10 s, drain grace 15 s, decision interval 50 s, cooldown    *)
(* 20 s.  The two ages that only a decision tick reads are shortened.      *)
(***************************************************************************)
EXTENDS SimLifecycle, TLC

CONSTANTS s1, s2, s3

\* s2 has slower cores: it can host both services by their effective demand,
\* but the raw demand of a migration check admits only one at a time.  s3 has
\* room for one service.
MCCapacity == (s1 :> 6) @@ (s2 :> 4) @@ (s3 :> 3)
MCResourceMips == [v \in Services |-> 3]
MCEffMips == [s \in Servers |-> [v \in Services |-> IF s = s2 THEN 2 ELSE 3]]
=============================================================================
