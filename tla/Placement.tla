------------------------------ MODULE Placement ------------------------------
(***************************************************************************)
(* Which servers may take which services: the fleet of common/config.py    *)
(* and the placement rules that both engines and the algorithms share.     *)
(* Distances only order the candidates, so every candidate is possible.    *)
(***************************************************************************)
EXTENDS Integers, FiniteSets, Functions

CONSTANTS
  Servers,          \* server ids
  NServices,        \* services are numbered 1..NServices, in decision order
  None,             \* Python's None
  Capacity,         \* [Servers -> Nat], capacity_mips
  ResourceMips,     \* [Services -> Nat], raw demand of a service
  EffMips           \* [Servers -> [Services -> Nat]], raw demand x speed factor

Services == 1..NServices

ASSUME ServersAssumption == IsFiniteSet(Servers) /\ None \notin Servers
ASSUME ServicesAssumption == NServices \in Nat \ {0}
\* No profile is faster than the reference profile.
ASSUME SpeedAssumption ==
  \A s \in Servers, v \in Services : EffMips[s][v] <= ResourceMips[v]
\* Capacities and raw demands are whole numbers, and _cpu_of rounds.
ASSUME DemandAssumption ==
  /\ \A s \in Servers : Capacity[s] \in Nat
  /\ \A s \in Servers, v \in Services : EffMips[s][v] \in Nat
  /\ \A v \in Services : ResourceMips[v] \in Nat

RawMips == [s \in Servers |-> ResourceMips]

\* Total demand at t of the services of V that m sends there.
Load(cpu, m, V, t) == SumFunctionOnSet(cpu[t], {v \in V : m[v] = t})

PackingsWithoutReservation(cpu, m, room) ==   \* fault: each service checked alone
  {{v \in DOMAIN m : m[v] # None /\ cpu[m[v]][v] <= room[m[v]]}}
\* The services of plan m that one pass accepts, each while its target has
\* room for it; any order of the pass leads to some maximal set.
Packings(cpu, m, room) ==
  {V \in SUBSET {v \in DOMAIN m : m[v] # None} :
     /\ \A v \in V : Load(cpu, m, V, m[v]) <= room[m[v]]
     /\ \A v \in DOMAIN m \ V :
          m[v] # None => Load(cpu, m, V, m[v]) + cpu[m[v]][v] > room[m[v]]}

\* _initial_placement: each service goes to a selected server that can host it
\* beside the services before it, if there is one.
InitialPlacements(selected) ==
  {m \in [Services -> selected \cup {None}] :
     \A v \in Services :
       LET before == 1..(v - 1)
           fits(s) == Load(EffMips, m, before, s) + EffMips[s][v] <= Capacity[s]
       IN IF m[v] = None THEN \A s \in selected : ~fits(s) ELSE fits(m[v])}

\* migration_decision: a target for each service of V that has a candidate.
MigrationTargets(V, candidates) ==
  {m \in [V -> Servers \cup {None}] :
     \A v \in V : IF candidates[v] = {} THEN m[v] = None ELSE m[v] \in candidates[v]}

\* _trigger_emergency_boot: for each service of U, a server that is off and has
\* room for it beside those already promised to it.
EmergencyTargets(U, off) ==
  {p \in [U -> off \cup {None}] :
     \A v \in U :
       IF p[v] = None
         THEN \A s \in off : Load(RawMips, p, U, s) + ResourceMips[v] > Capacity[s]
         ELSE Load(RawMips, p, U, p[v]) <= Capacity[p[v]]}
=============================================================================
