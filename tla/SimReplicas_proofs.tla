------------------------- MODULE SimReplicas_proofs --------------------------
(***************************************************************************)
(* Proofs about the replicas of SimLifecycle: a server has room for what   *)
(* it hosts, the heap and the fleet agree, and migrations and scale-downs  *)
(* keep a service alive, for every set of servers and services, every      *)
(* capacity, every delay and every backlog.                                *)
(***************************************************************************)
EXTENDS SimLifecycle_proofs

----------------------------------------------------------------------------
(* The actions that are existential over a plan, one case at a time.       *)

NewAt(m, placed) == {<<m[v], v>> : v \in placed}
OldAt(s) == {<<s, v>> : v \in DrainedAtOnce(s)}
ReadyEvents(at) == {<<PodStartup, Ready(p[1], p[2])>> : p \in at}

\* _start_server_drain with the plan m, when event e fires.
TurnOffWith(s, e, m, work, placed) ==
  /\ Enter(s, "DRAINING")
  /\ replica' = Draining(Place(replica, NewAt(m, placed)), OldAt(s), work)
  /\ pending' = [t \in Servers |-> [v \in Services |->
                   IF <<t, v>> \in NewAt(m, placed) THEN s ELSE pending[t][v]]]
  /\ heap' = Push(Push(Push(heap \ {e}, ReadyEvents(NewAt(m, placed))),
                       TerminationsOf(OldAt(s), work)),
                  {<<DrainGrace, DrainDone(s)>>})
  /\ turn' = 1
  /\ UNCHANGED <<isEmergency, emergencyBoot, sinceScale>>

\* The clock moves by d.
Later(f, d) == [f EXCEPT !.in = @ - d]
Aged(r, d) == [r EXCEPT !.age = AtMost(@ + d, MinReplicaAge),
                        !.left = IF @ > d THEN @ - d ELSE 0]
AdvanceBy(d) ==
  /\ heap' = {Later(f, d) : f \in heap}
  /\ replica' = [s \in Servers |-> [v \in Services |->
                   IF Hosts(s, v) THEN Aged(replica[s][v], d) ELSE Absent]]
  /\ UNCHANGED <<state, pending, emergencyBoot, turn>>

LEMMA AdvanceCases ==
  ASSUME AdvanceClock
  PROVE  \E e \in heap : turn = 0 /\ e.in > 0 /\ Head(e) /\ AdvanceBy(e.in)
BY DEF AdvanceClock, AdvanceBy, Later, Aged

\* A drain has an event, a plan and backlogs.
LEMMA TurnOffCases ==
  ASSUME NEW s \in Servers, TurnOff(s)
  PROVE  /\ MayTurnOff(s)
         /\ \E e \in heap, work \in [Services -> Backlogs] : \E m \in MigrationPlans(s) :
              \E placed \in Packings(EffMips, m, Free) :
                Fires(e, DecisionTick) /\ TurnOffWith(s, e, m, work, placed)
BY DEF TurnOff, TurnOffWith, NewAt, OldAt, ReadyEvents

\* Each new replica of a drain goes to another active server that can host it.
LEMMA PlanTargets ==
  ASSUME NEW s \in Servers, NEW m \in MigrationPlans(s), NEW cpu, NEW room,
         NEW placed \in Packings(cpu, m, room)
  PROVE  /\ placed \in SUBSET SoleHosted(s) /\ placed \in SUBSET Services
         /\ \A v \in placed : m[v] \in Active \ {s} /\ CanHost(m[v], v)
<1>1. m \in MigrationTargets(SoleHosted(s), [v \in Services |-> {t \in Active \ {s} : CanHost(t, v)}])
  BY DEF MigrationPlans
<1>2. DOMAIN m = SoleHosted(s) /\ SoleHosted(s) \subseteq Services
  BY <1>1 DEF MigrationTargets, SoleHosted, HostedOn
<1>3. placed \in SUBSET SoleHosted(s) /\ \A v \in placed : m[v] # None
  BY <1>2 DEF Packings
<1>4. ASSUME NEW v \in placed
      PROVE  m[v] \in {t \in Active \ {s} : CanHost(t, v)}
  BY <1>1, <1>2, <1>3, <1>4 DEF MigrationTargets
<1> QED
  BY <1>2, <1>3, <1>4

\* The replicas after a placement and a drain, one by one.
LEMMA PlaceIs ==
  ASSUME NEW R, NEW at, NEW s \in Servers, NEW v \in Services
  PROVE  Place(R, at)[s][v] = IF <<s, v>> \in at THEN Created ELSE R[s][v]
BY DEF Place

LEMMA DrainingIs ==
  ASSUME NEW R, ReplicasOK(R), NEW at, NEW work, NEW s \in Servers, NEW v \in Services
  PROVE  LET r == Draining(R, at, work)[s][v]
         IN IF <<s, v>> \in at
              THEN r.state = "DRAINING" /\ r.left = Left(R[s][v], work[v])
              ELSE r = R[s][v]
BY DEF Draining, ReplicasOK, ReplicaRecord

----------------------------------------------------------------------------
(* Capacity: the effective demand of what a server hosts, in any state,    *)
(* fits.  A drain reserves the room of its plan's targets, and a scale-up  *)
(* asks for room.                                                          *)

\* What a server uses and what it has left.
LEMMA UsedType ==
  ASSUME NEW s \in Servers
  PROVE  /\ UsedCpu(s) \in Nat /\ Free[s] \in Int /\ Capacity[s] \in Nat
         /\ Free[s] = Capacity[s] - UsedCpu(s)
         /\ UsedCpu(s) = SumFunctionOnSet(EffMips[s], HostedOn(s))
<1>1. HostedOn(s) \in SUBSET Services /\ HostedOn(s) \in SUBSET HostedOn(s)
  BY DEF HostedOn
<1>2. UsedCpu(s) \in Nat
  BY <1>1, Reserved DEF UsedCpu
<1> QED
  BY <1>2, DemandAssumption DEF Free, UsedCpu

LEMMA UsedTypeNext ==
  ASSUME NEW s \in Servers
  PROVE  /\ Free'[s] = Capacity[s] - SumFunctionOnSet(EffMips[s], HostedOn(s)')
         /\ HostedOn(s)' \in SUBSET Services
BY DEF Free, UsedCpu, HostedOn

\* A server that hosts at most what it hosted, and new services that fit, still
\* has room.
LEMMA CapacityStep ==
  ASSUME CapacityRespected, NEW new \in [Servers -> SUBSET Services],
         \A s \in Servers :
           /\ HostedOn(s)' \subseteq HostedOn(s) \cup new[s]
           /\ new[s] # {} => /\ new[s] \cap HostedOn(s) = {}
                             /\ SumFunctionOnSet(EffMips[s], new[s]) <= Free[s]
  PROVE  CapacityRespected'
<1> SUFFICES ASSUME NEW s \in Servers
             PROVE  Free'[s] >= 0
  BY DEF CapacityRespected
<1> DEFINE Sum(W) == SumFunctionOnSet(EffMips[s], W)
           V == new[s]
           H == HostedOn(s)
           K == HostedOn(s)'
<1>1. /\ V \in SUBSET Services /\ K \in SUBSET (H \cup V)
      /\ V # {} => V \cap H = {} /\ Sum(V) <= Free[s]
  OBVIOUS
<1>2. H \in SUBSET Services /\ H \cup V \in SUBSET Services /\ K \in SUBSET Services
  BY <1>1, UsedTypeNext DEF HostedOn
<1>3. /\ Free[s] >= 0 /\ Free[s] \in Int /\ Capacity[s] \in Nat
      /\ Free[s] = Capacity[s] - Sum(H)
  BY UsedType DEF CapacityRespected
<1>4. Free'[s] = Capacity[s] - Sum(K)
  BY UsedTypeNext
<1> HIDE DEF V, H, K
<1>5. Sum(K) <= Sum(H \cup V) /\ Sum(H) \in Nat /\ Sum(V) \in Nat /\ Sum(H \cup V) \in Nat
  BY <1>1, <1>2, Reserved
<1>6. Sum(K) \in Nat
  BY <1>2, Reserved
<1>7. Sum(H \cup V) <= Capacity[s]
  <2>1. CASE V = {}
    <3>1. H \cup V = H
      BY <2>1
    <3>2. Sum(H \cup V) = Sum(H)
      BY <3>1
    <3> HIDE DEF Sum
    <3> QED  BY <1>3, <1>5, <3>2
  <2>2. CASE V # {}
    <3>1. H \in SUBSET (H \cup V) /\ (H \cup V) \ H = V
      BY <1>1, <2>2
    <3>2. Sum(H \cup V) = Sum(H) + Sum((H \cup V) \ H)
      BY <1>2, <3>1, Reserved
    <3>3. Sum(H \cup V) = Sum(H) + Sum(V)
      BY <3>1, <3>2
    <3>4. Sum(V) <= Free[s]
      BY <1>1, <2>2
    <3> HIDE DEF Sum
    <3> QED  BY <1>3, <1>5, <3>3, <3>4
  <2> QED  BY <2>1, <2>2
<1> HIDE DEF Sum
<1> QED
  BY <1>3, <1>4, <1>5, <1>6, <1>7

\* Nothing new is hosted.
LEMMA FewerHosts ==
  ASSUME CapacityRespected,
         \A s \in Servers, v \in Services :
           replica'[s][v].state # "NONE" => replica[s][v].state # "NONE"
  PROVE  CapacityRespected'
<1> DEFINE new == [s \in Servers |-> {}]
<1>1. new \in [Servers -> SUBSET Services]
  OBVIOUS
<1>2. \A s \in Servers : HostedOn(s)' \subseteq HostedOn(s) \cup new[s] /\ new[s] = {}
  BY DEF HostedOn, Hosts
<1> HIDE DEF new
<1> QED
  BY <1>1, <1>2, CapacityStep

\* _start_server_drain: what the plan places fits its targets.
LEMMA TurnOffCapacity ==
  ASSUME TypeOK, CapacityRespected, NEW s \in Servers, TurnOff(s)
  PROVE  CapacityRespected'
<1>1. PICK e \in heap, work \in [Services -> Backlogs] : \E m \in MigrationPlans(s) :
        \E placed \in Packings(EffMips, m, Free) : TurnOffWith(s, e, m, work, placed)
  BY TurnOffCases
<1>2. PICK m \in MigrationPlans(s) :
        \E placed \in Packings(EffMips, m, Free) : TurnOffWith(s, e, m, work, placed)
  BY <1>1
<1>3. PICK placed \in Packings(EffMips, m, Free) : TurnOffWith(s, e, m, work, placed)
  BY <1>2
<1>4. /\ placed \in SUBSET Services
      /\ \A v \in placed : m[v] \in Active \ {s} /\ CanHost(m[v], v)
  BY PlanTargets
<1> DEFINE new == [t \in Servers |-> {v \in placed : m[v] = t}]
<1>5. new \in [Servers -> SUBSET Services]
  BY <1>4
<1>6. ASSUME NEW t \in Servers
      PROVE  HostedOn(t)' \subseteq HostedOn(t) \cup new[t]
  <2> SUFFICES ASSUME NEW v \in Services, replica'[t][v].state # "NONE",
                      replica[t][v].state = "NONE"
               PROVE  v \in new[t]
    BY DEF HostedOn, Hosts
  <2>1. ReplicasOK(replica) /\ replica' = Draining(Place(replica, NewAt(m, placed)), OldAt(s), work)
    BY <1>3, TypePartsOK DEF TypeParts, TurnOffWith
  <2>2. ReplicasOK(Place(replica, NewAt(m, placed)))
    BY <2>1, PlaceType
  <2>3. <<t, v>> \notin OldAt(s)
    BY DEF OldAt, DrainedAtOnce, HostedOn, Hosts
  <2>4. replica'[t][v] = Place(replica, NewAt(m, placed))[t][v]
    BY <2>1, <2>2, <2>3, DrainingIs
  <2>5. <<t, v>> \in NewAt(m, placed)
    BY <2>4, PlaceIs
  <2> QED  BY <1>4, <2>5 DEF NewAt
<1>7. ASSUME NEW t \in Servers, new[t] # {}
      PROVE  new[t] \cap HostedOn(t) = {} /\ SumFunctionOnSet(EffMips[t], new[t]) <= Free[t]
  <2>1. PICK v \in placed : m[v] = t
    BY <1>7
  <2>2. Load(EffMips, m, placed, m[v]) <= Free[m[v]]
    BY <2>1 DEF Packings
  <2>3. \A u \in new[t] : u \notin HostedOn(t)
    BY <1>4 DEF CanHost, HostedOn
  <2>4. new[t] = {u \in placed : m[u] = t}
    OBVIOUS
  <2> HIDE DEF new
  <2> QED  BY <2>1, <2>2, <2>3, <2>4 DEF Load
<1> HIDE DEF new
<1> QED
  BY <1>5, <1>6, <1>7, CapacityStep

\* select_placement_server answers with a server that has room.
LEMMA ScaleUpCapacity ==
  ASSUME TypeOK, CapacityRespected, NEW v \in Services, NEW t \in Servers, ScaleUp(v, t)
  PROVE  CapacityRespected'
<1> DEFINE new == [s \in Servers |-> IF s = t THEN {v} ELSE {}]
<1>1. ~Hosts(t, v) /\ Free[t] >= EffMips[t][v] /\ replica' = Place(replica, {<<t, v>>})
  BY DEF ScaleUp, CanHost
<1>2. new \in [Servers -> SUBSET Services]
  OBVIOUS
<1>3. ASSUME NEW s \in Servers
      PROVE  HostedOn(s)' \subseteq HostedOn(s) \cup new[s]
  <2>1. ASSUME NEW u \in Services, ~(s = t /\ u = v)
        PROVE  replica'[s][u] = replica[s][u]
    BY <1>1, <2>1 DEF Place
  <2> QED  BY <2>1 DEF HostedOn, Hosts
<1>4. SumFunctionOnSet(EffMips[t], {v}) = EffMips[t][v]
  <2>1. {} \in SUBSET Services /\ {} \in SUBSET {} /\ v \in Services \ {} /\ {} \cup {v} = {v}
    OBVIOUS
  <2>2. /\ SumFunctionOnSet(EffMips[t], {}) = 0
        /\ SumFunctionOnSet(EffMips[t], {} \cup {v}) =
             SumFunctionOnSet(EffMips[t], {}) + EffMips[t][v]
    BY <2>1, Reserved
  <2>3. EffMips[t][v] \in Nat
    BY DemandAssumption
  <2> QED  BY <2>1, <2>2, <2>3
<1>5. ASSUME NEW s \in Servers, new[s] # {}
      PROVE  new[s] \cap HostedOn(s) = {} /\ SumFunctionOnSet(EffMips[s], new[s]) <= Free[s]
  <2>1. s = t /\ new[s] = {v} /\ v \notin HostedOn(t)
    BY <1>1, <1>5 DEF HostedOn
  <2>2. Free[t] \in Int /\ EffMips[t][v] \in Nat
    BY UsedType, DemandAssumption
  <2> HIDE DEF new
  <2>3. SumFunctionOnSet(EffMips[s], new[s]) <= Free[s]
    BY <1>1, <1>4, <2>1, <2>2
  <2> QED  BY <2>1, <2>3
<1> HIDE DEF new
<1> QED
  BY <1>2, <1>3, <1>5, CapacityStep

\* _initial_placement: what is placed fits.
LEMMA InitCapacity == Init => CapacityRespected
<1> SUFFICES ASSUME Init, NEW s \in Servers
             PROVE  Free[s] >= 0
  BY DEF CapacityRespected
<1>1. PICK selected \in (SUBSET Servers) \ {{}} : \E m \in InitialPlacements(selected) :
        replica = [t \in Servers |-> [v \in Services |-> IF m[v] = t THEN Created ELSE Absent]]
  BY DEF Init
<1>2. PICK m \in InitialPlacements(selected) :
        replica = [t \in Servers |-> [v \in Services |-> IF m[v] = t THEN Created ELSE Absent]]
  BY <1>1
<1>3. HostedOn(s) = {v \in Services : m[v] = s}
  BY <1>2 DEF HostedOn, Hosts, Created, Absent
<1>4. UsedCpu(s) <= Capacity[s]
  <2>1. CASE s \in selected
    BY <1>3, <2>1, InitialFits DEF UsedCpu
  <2>2. CASE s \notin selected
    <3>1. HostedOn(s) = {}
      BY <1>3, <2>2, ServersAssumption DEF InitialPlacements
    <3>2. {} \in SUBSET Services /\ {} \in SUBSET {}
      OBVIOUS
    <3>3. SumFunctionOnSet(EffMips[s], {}) = 0
      BY <3>2, Reserved
    <3>4. UsedCpu(s) = 0
      BY <3>1, <3>3 DEF UsedCpu
    <3> QED  BY <3>4, DemandAssumption
  <2> QED  BY <2>1, <2>2
<1> QED
  BY <1>4, UsedType

\* No step gives a server more than it has room for.
LEMMA NextCapacity == TypeOK /\ CapacityRespected /\ [Next]_vars => CapacityRespected'
<1> SUFFICES ASSUME TypeOK, CapacityRespected, [Next]_vars
             PROVE  CapacityRespected'
  OBVIOUS
<1>0. ReplicasOK(replica)
  BY TypePartsOK DEF TypeParts
<1>1. CASE AdvanceClock
  <2>1. PICK new : replica' = [s \in Servers |-> [v \in Services |->
                     IF Hosts(s, v) THEN new[s][v] ELSE Absent]]
    <3>1. PICK e \in heap : AdvanceBy(e.in)
      BY <1>1, AdvanceCases
    <3> QED  BY <3>1 DEF AdvanceBy
  <2>2. ASSUME NEW s \in Servers, NEW v \in Services, replica[s][v].state = "NONE"
        PROVE  replica'[s][v].state = "NONE"
    BY <2>1, <2>2 DEF Hosts, Absent
  <2> QED  BY <2>2, FewerHosts
<1>2. ASSUME NEW s \in Servers, NEW v \in Services, HandleReplicaReady(s, v)
      PROVE  CapacityRespected'
  <2> DEFINE live  == replica[s][v].state = "STARTING"
             ready == [replica EXCEPT ![s][v].state = IF live THEN "READY" ELSE @]
  <2>1. PICK at, work :
          /\ replica' = Draining(ready, at, work)
          /\ \A p \in at : Hosts(p[1], p[2])
    <3>1. PICK w \in Backlogs :
            LET source == pending[s][v]
                old    == IF live /\ source # None /\ Hosts(source, v)
                               /\ replica[source][v].state # "DRAINING"
                            THEN {<<source, v>>} ELSE {}
            IN replica' = Draining(ready, old, [u \in Services |-> w])
      BY <1>2 DEF HandleReplicaReady
    <3> QED  BY <3>1
  <2>2. ReplicasOK(ready)
    BY <1>0 DEF ReplicasOK, ReplicaRecord
  <2>3. \A t \in Servers, u \in Services :
          ready[t][u].state # "NONE" => replica[t][u].state # "NONE"
    BY <1>0 DEF ReplicasOK, ReplicaRecord
  <2> HIDE DEF ready
  <2>4. ASSUME NEW t \in Servers, NEW u \in Services, replica[t][u].state = "NONE"
        PROVE  replica'[t][u].state = "NONE"
    <3>1. <<t, u>> \notin at
      BY <2>1, <2>4 DEF Hosts
    <3> QED  BY <2>1, <2>2, <2>3, <2>4, <3>1, DrainingIs
  <2> QED  BY <2>4, FewerHosts
<1>3. ASSUME NEW s \in Servers, NEW v \in Services, HandleReplicaTerminated(s, v)
      PROVE  CapacityRespected'
  BY <1>0, <1>3, FewerHosts DEF HandleReplicaTerminated, Absent, ReplicasOK
<1>4. ASSUME NEW v \in Services, NEW s \in Servers, ScaleDown(v, s)
      PROVE  CapacityRespected'
  <2> DEFINE at == {<<s, v>>}
  <2>1. PICK work : replica' = Draining(replica, at, work)
    BY <1>4 DEF ScaleDown
  <2>2. replica[s][v].state = "READY"
    BY <1>4 DEF ScaleDown, ReadyOf
  <2>3. ASSUME NEW t \in Servers, NEW u \in Services, replica[t][u].state = "NONE"
        PROVE  replica'[t][u].state = "NONE"
    <3>1. <<t, u>> \notin at
      BY <2>2, <2>3
    <3> HIDE DEF at
    <3> QED  BY <1>0, <2>1, <2>3, <3>1, DrainingIs
  <2> QED  BY <2>3, FewerHosts
<1>5. ASSUME UNCHANGED replica
      PROVE  CapacityRespected'
  BY <1>5, FewerHosts
<1>6. CASE HandleEvent
  BY <1>2, <1>3, <1>5, <1>6
     DEF HandleEvent, HandleBootDone, HandleDrainNotDone, HandleDrainDone
<1>7. CASE Provision
  BY <1>5, <1>7, TurnOffCapacity DEF Provision, NoProvisioning, TurnOn, AbortTurnOff
<1>8. CASE Scale
  BY <1>4, <1>5, <1>8, ScaleUpCapacity DEF Scale, NoScale
<1> QED
  BY <1>1, <1>5, <1>6, <1>7, <1>8 DEF Next, vars

----------------------------------------------------------------------------
(* The heap, as a set of events with their due times.                      *)

\* No two kinds of events are equal, and an event names its target.
LEMMA EventsDiffer ==
  /\ \A s, t : /\ BootDone(s) # DrainDone(t) /\ BootDone(s) # DecisionTick
               /\ DrainDone(s) # DecisionTick
               /\ BootDone(s) = BootDone(t) => s = t
               /\ DrainDone(s) = DrainDone(t) => s = t
  /\ \A s, t, v, u : /\ Ready(s, v) # Terminated(t, u)
                     /\ Ready(s, v) # BootDone(t) /\ Ready(s, v) # DrainDone(t)
                     /\ Terminated(s, v) # BootDone(t) /\ Terminated(s, v) # DrainDone(t)
                     /\ Ready(s, v) # DecisionTick /\ Terminated(s, v) # DecisionTick
                     /\ Ready(s, v) = Ready(t, u) => s = t /\ v = u
                     /\ Terminated(s, v) = Terminated(t, u) => s = t /\ v = u
BY DEF BootDone, DrainDone, DecisionTick, Ready, Terminated, Event

\* k is h with the events of batch B, each once, at its delay.
Adds(h, k, B) ==
  /\ h \subseteq k
  /\ \A e \in k \ h : <<e.in, e.ev>> \in B
  /\ \A b \in B : \E e \in k : e.in = b[1] /\ e.ev = b[2]
  /\ \A e, f \in k \ h : e.in = f.in /\ e.ev = f.ev => e = f

\* _push schedules a batch.
LEMMA PushAdds ==
  ASSUME NEW h, NEW B, \A b \in B : b = <<b[1], b[2]>>
  PROVE  Adds(h, Push(h, B), B)
<1> DEFINE rank(d) == Cardinality({x \in h : x.in = d})
           new(b) == [in |-> b[1], rank |-> rank(b[1]), ev |-> b[2]]
           k == Push(h, B)
<1>1. k = h \cup {new(b) : b \in B}
  BY DEF Push
<1>2. \A b \in B : new(b).in = b[1] /\ new(b).ev = b[2] /\ new(b).rank = rank(b[1])
  OBVIOUS
<1>3. \A b, c \in B : new(b).in = new(c).in /\ new(b).ev = new(c).ev => new(b) = new(c)
  BY <1>2
<1> HIDE DEF new, k
<1>4. \A e \in k \ h : \E b \in B : e = new(b)
  BY <1>1
<1>5. ASSUME NEW e \in k \ h
      PROVE  <<e.in, e.ev>> \in B
  <2>1. PICK b \in B : e = new(b)
    BY <1>4
  <2>2. e.in = b[1] /\ e.ev = b[2] /\ b = <<b[1], b[2]>>
    BY <1>2, <2>1
  <2> QED  BY <2>2
<1>6. ASSUME NEW b \in B
      PROVE  new(b) \in k
  <2>1. new(b) \in {new(c) : c \in B}
    OBVIOUS
  <2> QED  BY <1>1, <2>1
<1>7. \A e, f \in k \ h : e.in = f.in /\ e.ev = f.ev => e = f
  BY <1>3, <1>4
<1>8. Adds(h, k, B)
  BY <1>1, <1>2, <1>5, <1>6, <1>7 DEF Adds
<1> QED
  BY <1>8 DEF k

\* Two pushes of different events.
LEMMA AddsTwice ==
  ASSUME NEW h, NEW k, NEW l, NEW B, NEW C, Adds(h, k, B), Adds(k, l, C),
         \A b \in B, c \in C : b[2] # c[2]
  PROVE  Adds(h, l, B \cup C)
<1>1. h \subseteq l /\ k \subseteq l
  BY DEF Adds
<1>2. \A e \in l \ h : <<e.in, e.ev>> \in B \cup C
  BY DEF Adds
<1>3. \A b \in B \cup C : \E e \in l : e.in = b[1] /\ e.ev = b[2]
  BY <1>1 DEF Adds
<1>4. ASSUME NEW e \in l \ h, NEW f \in l \ h, e.in = f.in, e.ev = f.ev
      PROVE  e = f
  <2>1. CASE e \in k /\ f \in k
    BY <1>4, <2>1 DEF Adds
  <2>2. CASE e \notin k /\ f \notin k
    BY <1>4, <2>2 DEF Adds
  <2>3. ~(e \in k /\ f \notin k) /\ ~(e \notin k /\ f \in k)
    <3>1. \A x \in k \ h : \E b \in B : b = <<x.in, x.ev>>
      BY DEF Adds
    <3>2. \A x \in l \ k : \E c \in C : c = <<x.in, x.ev>>
      BY DEF Adds
    <3>3. \A x \in k \ h, y \in l \ k : x.ev # y.ev
      <4> SUFFICES ASSUME NEW x \in k \ h, NEW y \in l \ k PROVE x.ev # y.ev
        OBVIOUS
      <4>1. <<x.in, x.ev>> \in B /\ <<y.in, y.ev>> \in C
        BY <3>1, <3>2
      <4>2. <<x.in, x.ev>>[2] # <<y.in, y.ev>>[2]
        BY <4>1
      <4> QED  BY <4>2
    <3> QED  BY <1>4, <3>3
  <2> QED  BY <2>1, <2>2, <2>3
<1> QED
  BY <1>1, <1>2, <1>3, <1>4 DEF Adds

----------------------------------------------------------------------------
(* The inductive invariant: which events the heap holds, when they are     *)
(* due, and what they find.                                                *)

Events ==
  {DecisionTick} \cup {BootDone(s) : s \in Servers} \cup {DrainDone(s) : s \in Servers}
    \cup {Ready(s, v) : s \in Servers, v \in Services}
    \cup {Terminated(s, v) : s \in Servers, v \in Services}

\* The heap holds events of the engine, and one decision tick between ticks.
TickOK ==
  /\ \A e \in heap : e.ev \in Events
  /\ \A e, k \in heap : e.ev = DecisionTick /\ k.ev = DecisionTick => turn = 0 /\ e = k
  /\ turn = 0 => \E k \in heap : k.ev = DecisionTick

\* Whatever boots or drains has the event that ends it.
ServersDue ==
  \A s \in Servers :
    /\ state[s] = "BOOTING" => \E e \in heap : e.ev = BootDone(s)
    /\ state[s] = "DRAINING" => \E e \in heap : e.ev = DrainDone(s)

\* Boots and start-ups are over when the next decision tick fires, except that
\* the first tick fires at time 0, when no server is ACTIVE.
Timely ==
  \A e \in heap, s \in Servers :
    /\ e.ev = BootDone(s) =>
         /\ e.in <= BootDelay
         /\ \A k \in heap : k.ev = DecisionTick =>
              \/ e.in + PodStartup < k.in
              \/ k.in = 0 /\ e.in > 0 /\ Active = {}
    /\ \A v \in Services : e.ev = Ready(s, v) =>
         /\ e.in <= PodStartup
         /\ \A k \in heap : k.ev = DecisionTick => e.in < k.in

\* A start-up on an ACTIVE server has its one event.
StartingOK ==
  /\ \A e \in heap, s \in Servers, v \in Services :
       e.ev = Ready(s, v) =>
         /\ state[s] = "ACTIVE" /\ replica[s][v].state = "STARTING"
         /\ \A f \in heap : f.ev = Ready(s, v) => f = e
  /\ \A s \in Servers, v \in Services :
       replica[s][v].state = "STARTING" =>
         \/ state[s] = "BOOTING"
         \/ state[s] = "ACTIVE" /\ \E e \in heap : e.ev = Ready(s, v)

Soon(f) == IF turn = 0 THEN \E k \in heap : k.ev = DecisionTick /\ f.in < k.in
                       ELSE f.in <= Graceful

\* A termination whose replica is gone is over before its server is ACTIVE again.
Stale(f, s) ==
  /\ state[s] # "ACTIVE"
  /\ \/ f.in = 0
     \/ turn = 0 /\ state[s] # "BOOTING" /\ Soon(f)
  /\ \A b \in heap : b.ev = BootDone(s) => b.in > 0

TerminationsOK ==
  \A s \in Servers, v \in Services :
    /\ \A f \in heap : f.ev = Terminated(s, v) =>
         \/ /\ replica[s][v].state = "DRAINING"
            /\ replica[s][v].left <= f.in
            /\ f.in = replica[s][v].left \/ f.in <= Graceful
            /\ \A g \in heap : g.ev = Terminated(s, v) /\ g # f =>
                 state[s] = "DRAINING" /\ (f.in = g.in \/ Soon(f))
         \/ replica[s][v].state = "NONE" /\ Stale(f, s)
    /\ replica[s][v].state = "DRAINING" => \E f \in heap : f.ev = Terminated(s, v)

PendingOK ==
  \A t \in Servers, v \in Services : pending[t][v] # None =>
    /\ replica[t][v].state = "STARTING" /\ state[t] = "ACTIVE"
    /\ state[pending[t][v]] = "DRAINING"
    /\ \A u \in Servers : pending[u][v] = pending[t][v] => u = t
    /\ turn # 0 => \A o \in Servers : replica[o][v].state = "READY" => o = pending[t][v]
    /\ \A e, f \in heap : e.ev = Ready(t, v) /\ f.ev = DrainDone(pending[t][v]) => e.in < f.in

FleetOK == /\ TickOK /\ ServersDue /\ Timely /\ StartingOK /\ TerminationsOK
           /\ PendingOK /\ IdleServersHostNothing
SimInv == Inv /\ FleetOK

\* The types the proofs below need, and who a server event is about.
Basics ==
  /\ \A e \in heap : e.in \in Nat /\ e.in >= 0
  /\ state \in [Servers -> ServerStates]
  /\ \A s \in Servers, v \in Services :
       /\ replica[s][v].state \in {"NONE", "STARTING", "READY", "DRAINING"}
       /\ replica[s][v].left \in Nat
       /\ pending[s][v] \in Servers \cup {None}
  /\ turn \in 0..NServices
  /\ \A e \in heap, s \in Servers :
       /\ e.ev = BootDone(s) => state[s] = "BOOTING" /\ \A f \in heap : f.ev = e.ev => f = e
       /\ e.ev = DrainDone(s) => state[s] = "DRAINING" /\ \A f \in heap : f.ev = e.ev => f = e

LEMMA BasicsHold == Inv => Basics
<1> SUFFICES ASSUME Inv PROVE Basics
  OBVIOUS
<1>1. /\ \A e \in heap : e.in \in Nat /\ e.in >= 0
      /\ state \in [Servers -> ServerStates]
      /\ turn \in 0..NServices
  BY DEF Inv, TypeOK, EventRecord, ServerStates
<1>2. ASSUME NEW s \in Servers, NEW v \in Services
      PROVE  /\ replica[s][v].state \in {"NONE", "STARTING", "READY", "DRAINING"}
             /\ replica[s][v].left \in Nat
             /\ pending[s][v] \in Servers \cup {None}
  BY DEF Inv, TypeOK, ReplicaRecord
<1>3. ASSUME NEW e \in heap, NEW s \in Servers, e.ev \in {BootDone(s), DrainDone(s)}
      PROVE  /\ e.ev.type \in ServerEventTypes
             /\ e.ev = BootDone(s) => e.ev.type = "SERVER_BOOT_DONE"
             /\ e.ev = DrainDone(s) => e.ev.type = "SERVER_DRAIN_DONE"
  BY <1>3 DEF BootDone, DrainDone, Event, ServerEventTypes
<1>4. ASSUME NEW e \in heap, NEW s \in Servers
      PROVE  /\ e.ev = BootDone(s) => state[s] = "BOOTING"
             /\ e.ev = DrainDone(s) => state[s] = "DRAINING"
             /\ e.ev \in {BootDone(s), DrainDone(s)} => \A f \in heap : f.ev = e.ev => f = e
  BY <1>3, EventsDiffer DEF Inv, ServerEventsOK, ServerEventsDue, ServerEventsOnce
<1> QED
  BY <1>1, <1>2, <1>4 DEF Basics

\* When a decision tick fires, nothing starts on an ACTIVE server, no migration
\* is pending, and no server boots unless none is ACTIVE.
Settled(k) ==
  /\ turn = 0 /\ k \in heap /\ k.in = 0 /\ k.ev = DecisionTick
  /\ \A e \in heap : e.ev = DecisionTick => e = k
  /\ \A e \in heap, s \in Servers, v \in Services : e.ev # Ready(s, v)
  /\ \A s \in Servers, v \in Services :
       /\ replica[s][v].state = "STARTING" => state[s] = "BOOTING"
       /\ pending[s][v] = None
  /\ Active # {} => \A s \in Servers : state[s] # "BOOTING"
  /\ \A f \in heap : Soon(f) => FALSE

LEMMA TickSettled ==
  ASSUME SimInv, NEW k \in heap, Fires(k, DecisionTick)
  PROVE  Settled(k)
<1>0. Basics /\ FleetOK
  BY BasicsHold DEF SimInv
<1>1. turn = 0 /\ k.in = 0 /\ k.ev = DecisionTick /\ \A e \in heap : e.ev = DecisionTick => e = k
  BY <1>0 DEF Fires, FleetOK, TickOK
<1>2. \A e \in heap, s \in Servers, v \in Services : e.ev # Ready(s, v)
  BY <1>0, <1>1 DEF Basics, FleetOK, Timely
<1>3. \A s \in Servers, v \in Services : replica[s][v].state = "STARTING" => state[s] = "BOOTING"
  BY <1>0, <1>2 DEF FleetOK, StartingOK
<1>4. \A s \in Servers, v \in Services : pending[s][v] = None
  BY <1>0, <1>3 DEF FleetOK, PendingOK
<1>5. ASSUME NEW s \in Servers, state[s] = "BOOTING", Active # {}
      PROVE  FALSE
  <2>1. PICK e \in heap : e.ev = BootDone(s)
    BY <1>0, <1>5 DEF FleetOK, ServersDue
  <2>2. e.in + PodStartup < k.in \/ Active = {}
    BY <1>0, <1>1, <2>1 DEF FleetOK, Timely
  <2>3. e.in \in Nat /\ PodStartup \in Nat
    BY <1>0, DelaysType DEF Basics
  <2> QED  BY <1>1, <1>5, <2>2, <2>3
<1>6. ASSUME NEW f \in heap, Soon(f)
      PROVE  FALSE
  BY <1>0, <1>1, <1>6 DEF Soon, Basics
<1> QED
  BY <1>1, <1>2, <1>3, <1>4, <1>5, <1>6 DEF Settled

\* The same facts after a step.
LEMMA BasicsNext == Inv' => Basics'
BY BasicsHold, PTL

\* prime(): the first tick is due, and the selected servers boot.
LEMMA InitFleet == Init => SimInv
<1> SUFFICES ASSUME Init PROVE SimInv
  OBVIOUS
<1>1. PICK selected \in (SUBSET Servers) \ {{}} : \E m \in InitialPlacements(selected) :
        /\ heap = Push(Push({}, Boots(selected)), {<<0, DecisionTick>>})
        /\ state = [s \in Servers |-> IF s \in selected THEN "BOOTING" ELSE "OFF"]
        /\ replica = [s \in Servers |-> [v \in Services |->
                        IF m[v] = s THEN Created ELSE Absent]]
  BY DEF Init, Boots
<1>2. PICK m \in InitialPlacements(selected) :
        /\ heap = Push(Push({}, Boots(selected)), {<<0, DecisionTick>>})
        /\ state = [s \in Servers |-> IF s \in selected THEN "BOOTING" ELSE "OFF"]
        /\ replica = [s \in Servers |-> [v \in Services |->
                        IF m[v] = s THEN Created ELSE Absent]]
  BY <1>1
<1>3. turn = 0 /\ pending = [s \in Servers |-> [v \in Services |-> None]]
  BY DEF Init
<1>4. Inv /\ Basics
  BY InitInv, BasicsHold
<1>5. Adds({}, heap, Boots(selected) \cup {<<0, DecisionTick>>})
  <2> DEFINE B == Boots(selected)
             C == {<<0, DecisionTick>>}
  <2>1. /\ \A b \in B : b = <<b[1], b[2]>> /\ \E s \in selected : b[2] = BootDone(s)
        /\ \A c \in C : c = <<c[1], c[2]>> /\ c[2] = DecisionTick
    BY DEF Boots
  <2>2. heap = Push(Push({}, B), C)
    BY <1>2
  <2> HIDE DEF B, C
  <2>3. Adds({}, Push({}, B), B) /\ Adds(Push({}, B), heap, C)
    BY <2>1, <2>2, PushAdds
  <2>4. \A b \in B, c \in C : b[2] # c[2]
    BY <2>1, EventsDiffer
  <2>5. Adds({}, heap, B \cup C)
    BY <2>3, <2>4, AddsTwice
  <2> QED  BY <2>5 DEF B, C
<1>6. /\ \A e \in heap : \/ e.in = 0 /\ e.ev = DecisionTick
                         \/ \E s \in selected : e.in = BootDelay /\ e.ev = BootDone(s)
      /\ \A s \in selected : \E e \in heap : e.ev = BootDone(s)
      /\ \E k \in heap : k.ev = DecisionTick
      /\ \A e, f \in heap : e.in = f.in /\ e.ev = f.ev => e = f
  <2>1. \A b \in Boots(selected) \cup {<<0, DecisionTick>>} :
          \/ b = <<0, DecisionTick>>
          \/ \E s \in selected : b = <<BootDelay, BootDone(s)>>
    BY DEF Boots
  <2>2. \A s \in selected : <<BootDelay, BootDone(s)>> \in Boots(selected) \cup {<<0, DecisionTick>>}
    BY DEF Boots
  <2>3. \A e \in heap : <<e.in, e.ev>> \in Boots(selected) \cup {<<0, DecisionTick>>}
    BY <1>5 DEF Adds
  <2>4. \A s \in selected : \E e \in heap : e.ev = BootDone(s)
    <3> SUFFICES ASSUME NEW s \in selected PROVE \E e \in heap : e.ev = BootDone(s)
      OBVIOUS
    <3>1. PICK e \in heap : /\ e.in = <<BootDelay, BootDone(s)>>[1]
                            /\ e.ev = <<BootDelay, BootDone(s)>>[2]
      BY <1>5, <2>2 DEF Adds
    <3> QED  BY <3>1
  <2>5. \E k \in heap : k.ev = DecisionTick
    <3>1. PICK k \in heap : k.ev = <<0, DecisionTick>>[2]
      BY <1>5 DEF Adds
    <3> QED  BY <3>1
  <2>6. \A e, f \in heap : e.in = f.in /\ e.ev = f.ev => e = f
    BY <1>5 DEF Adds
  <2>7. ASSUME NEW e \in heap
        PROVE  \/ e.in = 0 /\ e.ev = DecisionTick
               \/ \E s \in selected : e.in = BootDelay /\ e.ev = BootDone(s)
    <3>1. CASE <<e.in, e.ev>> = <<0, DecisionTick>>
      BY <3>1
    <3>2. ASSUME NEW s \in selected, <<e.in, e.ev>> = <<BootDelay, BootDone(s)>>
          PROVE  e.in = BootDelay /\ e.ev = BootDone(s)
      BY <3>2
    <3> QED  BY <2>1, <2>3, <3>1, <3>2
  <2> QED  BY <2>4, <2>5, <2>6, <2>7
<1>7. \A s \in Servers, v \in Services :
        /\ replica[s][v].state \in {"NONE", "STARTING"}
        /\ replica[s][v].state # "NONE" => state[s] = "BOOTING"
  <2>1. \A v \in Services : m[v] \in selected \cup {None}
    BY DEF InitialPlacements
  <2> QED  BY <1>2, <2>1, ServersAssumption DEF Created, Absent
<1>13. \A e \in heap, s \in Servers, v \in Services :
         e.ev # Ready(s, v) /\ e.ev # Terminated(s, v)
  <2> SUFFICES ASSUME NEW e \in heap, NEW s \in Servers, NEW v \in Services
               PROVE  e.ev # Ready(s, v) /\ e.ev # Terminated(s, v)
    OBVIOUS
  <2>1. CASE e.ev = DecisionTick
    BY <2>1, EventsDiffer
  <2>2. ASSUME NEW t \in selected, e.ev = BootDone(t)
        PROVE  e.ev # Ready(s, v) /\ e.ev # Terminated(s, v)
    BY <2>2, EventsDiffer
  <2> QED  BY <1>6, <2>1, <2>2
<1>8. TickOK
  BY <1>3, <1>6, EventsDiffer DEF TickOK, Events
<1>9. ServersDue
  BY <1>2, <1>6 DEF ServersDue
<1>10. Timely
  <2>1. Active = {}
    BY <1>2 DEF Active
  <2>2. BootDelay \in Nat \ {0}
    BY DelaysAssumption
  <2>3. \A e \in heap, s \in Servers : e.ev = BootDone(s) => e.in = BootDelay
    BY <1>6, EventsDiffer
  <2>4. \A k \in heap : k.ev = DecisionTick => k.in = 0
    BY <1>6, EventsDiffer
  <2> QED  BY <1>13, <2>1, <2>2, <2>3, <2>4 DEF Timely
<1>11. StartingOK /\ TerminationsOK
  BY <1>7, <1>13 DEF StartingOK, TerminationsOK
<1>12. PendingOK /\ IdleServersHostNothing
  BY <1>2, <1>3, <1>7 DEF PendingOK, IdleServersHostNothing, Hosts
<1> QED
  BY <1>4, <1>8, <1>9, <1>10, <1>11, <1>12 DEF SimInv, FleetOK

\* The clock: all events come nearer, and none is passed by.
LEMMA AdvanceFleet ==
  ASSUME SimInv, Inv', AdvanceClock
  PROVE  FleetOK'
<1>0. Basics /\ Basics' /\ FleetOK
  BY BasicsHold, BasicsNext DEF SimInv
<1>1. PICK now \in heap : turn = 0 /\ now.in > 0 /\ Head(now) /\ AdvanceBy(now.in)
  BY AdvanceCases
<1> DEFINE d == now.in
<1>2. d \in Nat /\ d > 0 /\ \A e \in heap : e.in \in Nat /\ d <= e.in
  BY <1>0, <1>1 DEF Basics, Head, Earlier
<1> DEFINE later(f) == Later(f, d)
<1>3. /\ heap' = {later(f) : f \in heap}
      /\ UNCHANGED <<state, pending, turn>>
  BY <1>1 DEF AdvanceBy
<1>4. \A f \in heap : later(f).ev = f.ev /\ later(f).in = f.in - d
  BY DEF Later, SimInv, Inv, TypeOK, EventRecord
<1>5. ASSUME NEW s \in Servers, NEW v \in Services
      PROVE  /\ replica'[s][v].state = replica[s][v].state
             /\ replica[s][v].state # "NONE" =>
                  replica'[s][v].left = IF replica[s][v].left > d
                                          THEN replica[s][v].left - d ELSE 0
  <2>1. replica[s][v] \in ReplicaRecord
    BY DEF SimInv, Inv, TypeOK
  <2>2. replica'[s][v] = IF Hosts(s, v) THEN Aged(replica[s][v], d) ELSE Absent
    BY <1>1 DEF AdvanceBy
  <2> QED  BY <2>1, <2>2 DEF Aged, Absent, Hosts, ReplicaRecord
<1> HIDE DEF d, later
<1>6. TickOK'
  BY <1>0, <1>3, <1>4 DEF FleetOK, TickOK
<1>7. ServersDue'
  BY <1>0, <1>3, <1>4 DEF FleetOK, ServersDue
<1>8. Timely'
  <2>1. BootDelay \in Nat /\ PodStartup \in Nat /\ Active' = Active
    BY <1>3, DelaysType DEF Active
  <2>2. turn = 0 /\ \A k \in heap : k.ev = DecisionTick => k.in > 0
    BY <1>1, <1>2
  <2> QED  BY <1>0, <1>2, <1>3, <1>4, <2>1, <2>2 DEF FleetOK, Timely
<1>9. StartingOK'
  BY <1>0, <1>3, <1>4, <1>5 DEF FleetOK, StartingOK
<1>10. \A f \in heap : Soon(f) => Soon(later(f))'
  BY <1>2, <1>3, <1>4, <1>1 DEF Soon
<1>11. TerminationsOK'
  <2>1. ASSUME NEW s \in Servers, NEW v \in Services, NEW f \in heap, f.ev = Terminated(s, v),
               replica[s][v].state = "DRAINING"
        PROVE  /\ replica'[s][v].state = "DRAINING"
               /\ replica'[s][v].left <= later(f).in
               /\ later(f).in = replica'[s][v].left \/ later(f).in <= Graceful
               /\ \A g \in heap : g.ev = Terminated(s, v) /\ later(g) # later(f) =>
                    state'[s] = "DRAINING" /\ (later(f).in = later(g).in \/ Soon(later(f))')
    <3>1. /\ replica[s][v].left <= f.in
          /\ f.in = replica[s][v].left \/ f.in <= Graceful
          /\ \A g \in heap : g.ev = Terminated(s, v) /\ g # f =>
               state[s] = "DRAINING" /\ (f.in = g.in \/ Soon(f))
      BY <1>0, <2>1 DEF FleetOK, TerminationsOK
    <3>2. replica[s][v].left \in Nat /\ Graceful \in Nat
      BY <1>0, DelaysType DEF Basics
    <3>3. /\ replica'[s][v].left <= later(f).in
          /\ later(f).in = replica'[s][v].left \/ later(f).in <= Graceful
      BY <1>2, <1>4, <1>5, <2>1, <3>1, <3>2
    <3> QED  BY <1>3, <1>4, <1>5, <1>10, <2>1, <3>1, <3>3
  <2>2. ASSUME NEW s \in Servers, NEW f \in heap, Stale(f, s)
        PROVE  Stale(later(f), s)'
    <3>1. f.in > 0
      BY <1>2
    <3>2. turn = 0 /\ state[s] # "BOOTING" /\ Soon(f)
      BY <1>2, <2>2, <3>1 DEF Stale
    <3>3. \A b \in heap : b.ev # BootDone(s)
      BY <1>0, <3>2 DEF Basics
    <3> QED  BY <1>3, <1>4, <1>10, <2>2, <3>2, <3>3 DEF Stale
  <2>3. \A s \in Servers, v \in Services :
          replica'[s][v].state = "DRAINING" => \E f \in heap' : f.ev = Terminated(s, v)
    BY <1>0, <1>3, <1>4, <1>5 DEF FleetOK, TerminationsOK
  <2> QED  BY <1>0, <1>3, <1>4, <1>5, <2>1, <2>2, <2>3 DEF FleetOK, TerminationsOK
<1>12. PendingOK'
  BY <1>0, <1>2, <1>3, <1>4, <1>5 DEF FleetOK, PendingOK
<1>13. IdleServersHostNothing'
  BY <1>0, <1>3, <1>5 DEF FleetOK, IdleServersHostNothing, Hosts
<1> QED
  BY <1>6, <1>7, <1>8, <1>9, <1>11, <1>12, <1>13 DEF FleetOK

----------------------------------------------------------------------------
(* Each handler keeps the invariant.                                       *)

\* Between two ticks, a handler that leaves the tick alone.
LEMMA LoopStep ==
  ASSUME FleetOK, turn = 0, turn' = 0, \A f \in heap' : f.ev \in Events,
         \A k : k.ev = DecisionTick => (k \in heap <=> k \in heap')
  PROVE  TickOK' /\ \A f : Soon(f) => Soon(f)'
<1>1. TickOK'
  BY DEF FleetOK, TickOK, Events, DecisionTick, BootDone, DrainDone, Ready, Terminated, Event
<1>2. \A f : Soon(f) => Soon(f)'
  BY DEF Soon
<1> QED
  BY <1>1, <1>2

\* _handle_boot_done: what waits on s starts.
LEMMA BootDoneFleet ==
  ASSUME SimInv, Inv', NEW s \in Servers, HandleBootDone(s)
  PROVE  FleetOK'
<1>0. Basics /\ Basics' /\ FleetOK
  BY BasicsHold, BasicsNext DEF SimInv
<1>1. PICK e \in heap :
        /\ Fires(e, BootDone(s))
        /\ Enter(s, "ACTIVE")
        /\ heap' = Push(heap \ {e}, {<<PodStartup, Ready(s, v)>> : v \in WaitingForBoot(s)})
        /\ UNCHANGED <<replica, pending, turn>>
  BY DEF HandleBootDone
<1>2. /\ turn = 0 /\ e.in = 0 /\ e.ev = BootDone(s)
      /\ state[s] = "BOOTING" /\ state' = [state EXCEPT ![s] = "ACTIVE"]
      /\ replica' = replica /\ pending' = pending /\ turn' = 0
  BY <1>0, <1>1 DEF Fires, Enter, Basics
<1>3. \A t \in Servers : state'[t] = IF t = s THEN "ACTIVE" ELSE state[t]
  BY <1>0, <1>2 DEF Basics
<1>4. /\ heap \ {e} \subseteq heap'
      /\ \A f \in heap' : \/ f \in heap /\ f # e
                          \/ \E v \in WaitingForBoot(s) : f.in = PodStartup /\ f.ev = Ready(s, v)
      /\ \A v \in WaitingForBoot(s) : \E f \in heap' : f.ev = Ready(s, v)
      /\ \A f, g \in heap' \ (heap \ {e}) : f.in = g.in /\ f.ev = g.ev => f = g
  <2> DEFINE B == {<<PodStartup, Ready(s, v)>> : v \in WaitingForBoot(s)}
  <2>1. \A b \in B : \E v \in WaitingForBoot(s) : b[1] = PodStartup /\ b[2] = Ready(s, v) /\ b = <<b[1], b[2]>>
    OBVIOUS
  <2>2. \A v \in WaitingForBoot(s) : <<PodStartup, Ready(s, v)>> \in B
    OBVIOUS
  <2>3. heap' = Push(heap \ {e}, B)
    BY <1>1
  <2> HIDE DEF B
  <2>4. Adds(heap \ {e}, heap', B)
    BY <2>1, <2>3, PushAdds
  <2>5. ASSUME NEW f \in heap', f \notin heap \ {e}
        PROVE  \E v \in WaitingForBoot(s) : f.in = PodStartup /\ f.ev = Ready(s, v)
    <3>1. <<f.in, f.ev>> \in B
      BY <2>4, <2>5 DEF Adds
    <3>2. PICK v \in WaitingForBoot(s) : <<f.in, f.ev>>[1] = PodStartup /\ <<f.in, f.ev>>[2] = Ready(s, v)
      BY <2>1, <3>1
    <3> QED  BY <3>2
  <2>6. ASSUME NEW v \in WaitingForBoot(s) PROVE \E f \in heap' : f.ev = Ready(s, v)
    <3>1. PICK f \in heap' : f.ev = <<PodStartup, Ready(s, v)>>[2]
      BY <2>2, <2>4 DEF Adds
    <3> QED  BY <3>1
  <2> QED  BY <2>4, <2>5, <2>6 DEF Adds
<1>5. \A v \in Services : v \in WaitingForBoot(s) <=> replica[s][v].state = "STARTING"
  BY DEF WaitingForBoot
<1>6. WaitingForBoot(s) \subseteq Services
  BY DEF WaitingForBoot
<1>7. ASSUME NEW f \in heap', f \notin heap \ {e}
      PROVE  /\ f.ev \in Events /\ f.ev # DecisionTick
             /\ \A t \in Servers : f.ev # BootDone(t) /\ f.ev # DrainDone(t)
             /\ \A t \in Servers, u \in Services :
                  /\ f.ev # Terminated(t, u)
                  /\ f.ev = Ready(t, u) => t = s /\ u \in WaitingForBoot(s) /\ f.in = PodStartup
  <2>1. PICK v \in WaitingForBoot(s) : f.in = PodStartup /\ f.ev = Ready(s, v)
    BY <1>4, <1>7
  <2>2. v \in Services
    BY <1>6
  <2> QED  BY <2>1, <2>2, EventsDiffer DEF Events
<1>8. /\ e.ev # DecisionTick
      /\ \A t \in Servers : e.ev # DrainDone(t) /\ (e.ev = BootDone(t) => t = s)
      /\ \A t \in Servers, u \in Services : e.ev # Ready(t, u) /\ e.ev # Terminated(t, u)
  BY <1>2, EventsDiffer
<1>9. TickOK' /\ \A f : Soon(f) => Soon(f)'
  <2>1. \A f \in heap' : f.ev \in Events
    BY <1>0, <1>7 DEF FleetOK, TickOK
  <2>2. \A k : k.ev = DecisionTick => (k \in heap <=> k \in heap')
    BY <1>4, <1>7, <1>8
  <2> QED  BY <1>0, <1>2, <2>1, <2>2, LoopStep
<1>10. ServersDue'
  BY <1>0, <1>3, <1>4, <1>8 DEF FleetOK, ServersDue
<1>11. \A k \in heap : k.ev = DecisionTick => PodStartup < k.in
  <2>1. PodStartup \in Nat
    BY DelaysType
  <2> QED  BY <1>0, <1>2, <2>1 DEF FleetOK, Timely, Basics
<1>12. Timely'
  <2>1. PodStartup \in Nat /\ BootDelay \in Nat
    BY DelaysType
  <2>2. \A k \in heap' : k.ev = DecisionTick => k \in heap /\ PodStartup < k.in /\ k.in # 0
    BY <1>0, <1>7, <1>11, <2>1 DEF Basics
  <2>3. ASSUME NEW f \in heap', NEW t \in Servers, f.ev = BootDone(t), NEW k \in heap', k.ev = DecisionTick
        PROVE  f.in <= BootDelay /\ f.in + PodStartup < k.in
    <3>1. f \in heap
      BY <1>7, <2>3
    <3> QED  BY <1>0, <2>2, <2>3, <3>1 DEF FleetOK, Timely
  <2>4. ASSUME NEW f \in heap', NEW t \in Servers, NEW v \in Services, f.ev = Ready(t, v)
        PROVE  f.in <= PodStartup /\ \A k \in heap' : k.ev = DecisionTick => f.in < k.in
    <3>1. CASE f \in heap
      BY <1>0, <2>2, <2>4, <3>1 DEF FleetOK, Timely
    <3>2. CASE f \notin heap
      BY <1>7, <2>1, <2>2, <2>4, <3>2
    <3> QED  BY <3>1, <3>2
  <2>5. \A f \in heap', t \in Servers : f.ev = BootDone(t) => f.in <= BootDelay
    BY <1>0, <1>7 DEF FleetOK, Timely
  <2> QED  BY <2>3, <2>4, <2>5 DEF Timely
<1>13. StartingOK'
  <2>1. ASSUME NEW f \in heap', NEW t \in Servers, NEW v \in Services, f.ev = Ready(t, v)
        PROVE  /\ state'[t] = "ACTIVE" /\ replica'[t][v].state = "STARTING"
               /\ \A g \in heap' : g.ev = Ready(t, v) => g = f
    <3>1. CASE t = s
      <4>1. \A g \in heap' : g.ev = Ready(s, v) => g \notin heap \ {e}
        BY <1>0, <1>2 DEF FleetOK, StartingOK
      <4> QED  BY <1>2, <1>3, <1>4, <1>5, <1>7, <2>1, <3>1, <4>1
    <3>2. CASE t # s
      <4>1. f \in heap
        BY <1>7, <2>1, <3>2
      <4> QED  BY <1>0, <1>2, <1>3, <1>7, <2>1, <3>2, <4>1 DEF FleetOK, StartingOK
    <3> QED  BY <3>1, <3>2
  <2>2. ASSUME NEW t \in Servers, NEW v \in Services, replica'[t][v].state = "STARTING"
        PROVE  \/ state'[t] = "BOOTING"
               \/ state'[t] = "ACTIVE" /\ \E f \in heap' : f.ev = Ready(t, v)
    <3>1. CASE t = s
      BY <1>2, <1>3, <1>4, <1>5, <2>2, <3>1
    <3>2. CASE t # s
      BY <1>0, <1>2, <1>3, <1>4, <1>8, <2>2, <3>2 DEF FleetOK, StartingOK
    <3> QED  BY <3>1, <3>2
  <2> QED  BY <2>1, <2>2 DEF StartingOK
<1>14. TerminationsOK'
  <2>1. \A f \in heap, v \in Services : f.ev # Terminated(s, v)
    <3> SUFFICES ASSUME NEW f \in heap, NEW v \in Services, f.ev = Terminated(s, v) PROVE FALSE
      OBVIOUS
    <3>1. replica[s][v].state \in {"NONE", "STARTING"}
      BY <1>0, <1>2 DEF FleetOK, IdleServersHostNothing
    <3>2. Stale(f, s)
      BY <1>0, <3>1 DEF FleetOK, TerminationsOK
    <3> QED  BY <1>2, <3>2 DEF Stale
  <2>2. ASSUME NEW f \in heap, NEW t \in Servers, t # s, Stale(f, t)
        PROVE  Stale(f, t)'
    <3>1. \A b \in heap' : b.ev = BootDone(t) => b \in heap
      BY <1>7
    <3> QED  BY <1>2, <1>3, <1>9, <2>2, <3>1 DEF Stale
  <2>3. ASSUME NEW f \in heap', NEW t \in Servers, NEW v \in Services, f.ev = Terminated(t, v)
        PROVE  f \in heap /\ t # s
    BY <1>7, <2>1, <2>3
  <2>4. ASSUME NEW t \in Servers, NEW v \in Services, replica'[t][v].state = "DRAINING"
        PROVE  \E f \in heap' : f.ev = Terminated(t, v)
    BY <1>0, <1>2, <1>4, <1>8, <2>4 DEF FleetOK, TerminationsOK
  <2>5. ASSUME NEW f \in heap', NEW t \in Servers, NEW v \in Services, f.ev = Terminated(t, v)
        PROVE  \/ /\ replica'[t][v].state = "DRAINING"
                  /\ replica'[t][v].left <= f.in
                  /\ f.in = replica'[t][v].left \/ f.in <= Graceful
                  /\ \A g \in heap' : g.ev = Terminated(t, v) /\ g # f =>
                       state'[t] = "DRAINING" /\ (f.in = g.in \/ Soon(f)')
               \/ replica'[t][v].state = "NONE" /\ Stale(f, t)'
    <3>1. f \in heap /\ t # s /\ \A g \in heap' : g.ev = Terminated(t, v) => g \in heap
      BY <2>3, <2>5
    <3> QED  BY <1>0, <1>2, <1>3, <1>9, <2>2, <2>5, <3>1 DEF FleetOK, TerminationsOK
  <2> QED  BY <2>4, <2>5 DEF TerminationsOK
<1>15. PendingOK'
  <2> SUFFICES ASSUME NEW t \in Servers, NEW v \in Services, pending[t][v] # None
               PROVE  /\ replica[t][v].state = "STARTING" /\ state'[t] = "ACTIVE"
                      /\ state'[pending[t][v]] = "DRAINING"
                      /\ \A u \in Servers : pending[u][v] = pending[t][v] => u = t
                      /\ \A f, g \in heap' : f.ev = Ready(t, v) /\ g.ev = DrainDone(pending[t][v]) => f.in < g.in
    BY <1>2 DEF PendingOK
  <2>1. pending[t][v] \in Servers /\ pending[t][v] # s /\ t # s
    BY <1>0, <1>2 DEF Basics, FleetOK, PendingOK
  <2> QED  BY <1>0, <1>3, <1>7, <2>1 DEF FleetOK, PendingOK
<1>16. IdleServersHostNothing'
  BY <1>0, <1>2, <1>3 DEF FleetOK, IdleServersHostNothing, Hosts
<1> QED
  BY <1>9, <1>10, <1>12, <1>13, <1>14, <1>15, <1>16 DEF FleetOK

\* _handle_drain_done, too early: it will look again, after any start-up.
LEMMA DrainNotDoneFleet ==
  ASSUME SimInv, Inv', NEW s \in Servers, HandleDrainNotDone(s)
  PROVE  FleetOK'
<1>0. Basics /\ Basics' /\ FleetOK
  BY BasicsHold, BasicsNext DEF SimInv
<1>1. PICK e \in heap :
        /\ Fires(e, DrainDone(s))
        /\ heap' = Push(heap \ {e}, {<<DrainGrace, DrainDone(s)>>})
        /\ UNCHANGED <<state, replica, pending, turn>>
  BY DEF HandleDrainNotDone
<1>2. /\ turn = 0 /\ e.ev = DrainDone(s)
      /\ state' = state /\ replica' = replica /\ pending' = pending /\ turn' = turn
  BY <1>1 DEF Fires
<1>3. /\ heap \ {e} \subseteq heap'
      /\ \A f \in heap' : f \notin heap \ {e} => f.in = DrainGrace /\ f.ev = DrainDone(s)
      /\ \E f \in heap' : f.ev = DrainDone(s)
  <2> DEFINE b == <<DrainGrace, DrainDone(s)>>
  <2>1. Adds(heap \ {e}, heap', {b})
    BY <1>1, PushAdds
  <2>2. \A f \in heap' : f \notin heap \ {e} => <<f.in, f.ev>> = b
    BY <2>1 DEF Adds
  <2>3. \E f \in heap' : f.ev = b[2]
    BY <2>1 DEF Adds
  <2> QED  BY <2>1, <2>2, <2>3 DEF Adds
<1>4. ASSUME NEW f \in {e} \cup (heap' \ (heap \ {e}))
      PROVE  /\ f.ev \in Events /\ f.ev # DecisionTick
             /\ \A t \in Servers : f.ev # BootDone(t) /\ (f.ev = DrainDone(t) => t = s)
             /\ \A t \in Servers, u \in Services :
                  f.ev # Terminated(t, u) /\ f.ev # Ready(t, u)
  <2>1. f.ev = DrainDone(s)
    BY <1>2, <1>3
  <2> QED  BY <2>1, EventsDiffer DEF Events
<1>5. TickOK' /\ \A f : Soon(f) => Soon(f)'
  <2>1. \A f \in heap' : f.ev \in Events
    BY <1>0, <1>4 DEF FleetOK, TickOK
  <2>2. \A k : k.ev = DecisionTick => (k \in heap <=> k \in heap')
    BY <1>3, <1>4
  <2> QED  BY <1>0, <1>2, <2>1, <2>2, LoopStep
<1>6. ServersDue'
  BY <1>0, <1>2, <1>3, <1>4 DEF FleetOK, ServersDue
<1>8. Timely'
  <2>1. Active' = Active
    BY <1>2 DEF Active
  <2> QED  BY <1>0, <1>4, <2>1 DEF FleetOK, Timely
<1>9. StartingOK'
  BY <1>0, <1>2, <1>3, <1>4 DEF FleetOK, StartingOK
<1>10. TerminationsOK'
  <2>1. ASSUME NEW f \in heap, NEW t \in Servers, Stale(f, t)
        PROVE  Stale(f, t)'
    BY <1>2, <1>4, <1>5, <2>1 DEF Stale
  <2>2. ASSUME NEW t \in Servers, NEW v \in Services, replica'[t][v].state = "DRAINING"
        PROVE  \E f \in heap' : f.ev = Terminated(t, v)
    BY <1>0, <1>2, <1>3, <1>4, <2>2 DEF FleetOK, TerminationsOK
  <2>3. ASSUME NEW f \in heap', NEW t \in Servers, NEW v \in Services, f.ev = Terminated(t, v)
        PROVE  \/ /\ replica'[t][v].state = "DRAINING"
                  /\ replica'[t][v].left <= f.in
                  /\ f.in = replica'[t][v].left \/ f.in <= Graceful
                  /\ \A g \in heap' : g.ev = Terminated(t, v) /\ g # f =>
                       state'[t] = "DRAINING" /\ (f.in = g.in \/ Soon(f)')
               \/ replica'[t][v].state = "NONE" /\ Stale(f, t)'
    <3>1. f \in heap /\ \A g \in heap' : g.ev = Terminated(t, v) => g \in heap
      BY <1>4, <2>3
    <3> QED  BY <1>0, <1>2, <1>5, <2>1, <2>3, <3>1 DEF FleetOK, TerminationsOK
  <2> QED  BY <2>2, <2>3 DEF TerminationsOK
<1>11. PendingOK'
  <2>1. PodStartup < DrainGrace /\ DrainGrace \in Nat /\ PodStartup \in Nat
    BY OrderAssumption, DelaysType
  <2>2. ASSUME NEW f \in heap', NEW g \in heap', NEW t \in Servers, NEW v \in Services,
               pending[t][v] # None, f.ev = Ready(t, v), g.ev = DrainDone(pending[t][v])
        PROVE  f.in < g.in
    <3>1. f \in heap /\ f.in <= PodStartup /\ f.in \in Nat
      BY <1>0, <1>4, <2>2 DEF FleetOK, Timely, Basics
    <3>2. CASE g \in heap \ {e}
      BY <1>0, <2>2, <3>1, <3>2 DEF FleetOK, PendingOK
    <3>3. CASE g \notin heap \ {e}
      BY <1>3, <2>1, <3>1, <3>3
    <3> QED  BY <3>2, <3>3
  <2> QED  BY <1>0, <1>2, <2>2 DEF FleetOK, PendingOK
<1>12. IdleServersHostNothing'
  BY <1>0, <1>2 DEF FleetOK, IdleServersHostNothing, Hosts
<1> QED
  BY <1>5, <1>6, <1>8, <1>9, <1>10, <1>11, <1>12 DEF FleetOK

\* _handle_drain_done: the server goes off with nothing on it.
LEMMA DrainDoneFleet ==
  ASSUME SimInv, Inv', NEW s \in Servers, HandleDrainDone(s)
  PROVE  FleetOK'
<1>0. Basics /\ Basics' /\ FleetOK
  BY BasicsHold, BasicsNext DEF SimInv
<1>1. PICK e \in heap :
        /\ Fires(e, DrainDone(s))
        /\ NoReplicaLeft(s)
        /\ Enter(s, "OFF")
        /\ heap' = heap \ {e}
        /\ UNCHANGED <<replica, pending, turn>>
  BY DEF HandleDrainDone
<1>2. /\ turn = 0 /\ turn' = 0 /\ e.in = 0 /\ e.ev = DrainDone(s) /\ state[s] = "DRAINING"
      /\ replica' = replica /\ pending' = pending /\ heap' = heap \ {e}
      /\ \A v \in Services : replica[s][v].state = "NONE"
      /\ \A t \in Servers : state'[t] = IF t = s THEN "OFF" ELSE state[t]
  BY <1>0, <1>1 DEF Fires, Enter, NoReplicaLeft, HostedOn, Hosts, Basics
<1>3. /\ e.ev # DecisionTick
      /\ \A t \in Servers : e.ev # BootDone(t) /\ (e.ev = DrainDone(t) => t = s)
      /\ \A t \in Servers, u \in Services : e.ev # Ready(t, u) /\ e.ev # Terminated(t, u)
  BY <1>2, EventsDiffer
<1>4. TickOK' /\ \A f : Soon(f) => Soon(f)'
  <2>1. \A f \in heap' : f.ev \in Events
    BY <1>0, <1>2 DEF FleetOK, TickOK
  <2>2. \A k : k.ev = DecisionTick => (k \in heap <=> k \in heap')
    BY <1>2, <1>3
  <2> QED  BY <1>0, <1>2, <2>1, <2>2, LoopStep
<1>5. ServersDue'
  BY <1>0, <1>2, <1>3 DEF FleetOK, ServersDue
<1>6. Timely'
  <2>1. Active' = Active
    BY <1>2 DEF Active
  <2> QED  BY <1>0, <1>2, <2>1 DEF FleetOK, Timely
<1>7. StartingOK'
  BY <1>0, <1>2, <1>3 DEF FleetOK, StartingOK
<1>8. TerminationsOK'
  <2>1. ASSUME NEW f \in heap, NEW t \in Servers, Stale(f, t)
        PROVE  Stale(f, t)'
    BY <1>2, <1>4, <2>1 DEF Stale
  <2> QED  BY <1>0, <1>2, <1>3, <1>4, <2>1 DEF FleetOK, TerminationsOK
<1>9. PendingOK'
  <2> SUFFICES ASSUME NEW t \in Servers, NEW v \in Services, pending[t][v] # None
               PROVE  state'[t] = "ACTIVE" /\ state'[pending[t][v]] = "DRAINING"
    BY <1>0, <1>2 DEF FleetOK, PendingOK
  <2>1. /\ pending[t][v] \in Servers /\ state[pending[t][v]] = "DRAINING"
        /\ state[t] = "ACTIVE" /\ replica[t][v].state = "STARTING"
    BY <1>0 DEF Basics, FleetOK, PendingOK
  <2>2. PICK f \in heap : f.ev = Ready(t, v)
    BY <1>0, <2>1 DEF FleetOK, StartingOK
  <2>3. pending[t][v] # s
    <3> SUFFICES ASSUME pending[t][v] = s PROVE FALSE
      OBVIOUS
    <3>1. f.in < e.in
      BY <1>0, <1>2, <2>2 DEF FleetOK, PendingOK
    <3> QED  BY <1>0, <1>2, <3>1 DEF Basics
  <2> QED  BY <1>2, <2>1, <2>3
<1>10. IdleServersHostNothing'
  BY <1>0, <1>2 DEF FleetOK, IdleServersHostNothing, Hosts
<1> QED
  BY <1>4, <1>5, <1>6, <1>7, <1>8, <1>9, <1>10 DEF FleetOK

\* _handle_replica_terminated: a drained replica goes, or a late event finds none.
LEMMA TerminatedFleet ==
  ASSUME SimInv, Inv', NEW s \in Servers, NEW v \in Services, HandleReplicaTerminated(s, v)
  PROVE  FleetOK'
<1>0. Basics /\ Basics' /\ FleetOK
  BY BasicsHold, BasicsNext DEF SimInv
<1>1. PICK e \in heap :
        /\ Fires(e, Terminated(s, v))
        /\ replica' = [replica EXCEPT ![s][v] = Absent]
        /\ heap' = heap \ {e}
        /\ UNCHANGED <<state, pending, turn>>
  BY DEF HandleReplicaTerminated
<1>2. /\ turn = 0 /\ turn' = 0 /\ e.in = 0 /\ e.ev = Terminated(s, v)
      /\ state' = state /\ pending' = pending /\ heap' = heap \ {e}
  BY <1>1 DEF Fires
<1>3. /\ replica'[s][v].state = "NONE"
      /\ \A t \in Servers, u \in Services : ~(t = s /\ u = v) => replica'[t][u] = replica[t][u]
  BY <1>1 DEF SimInv, Inv, TypeOK, Absent
<1>4. /\ e.ev # DecisionTick
      /\ \A t \in Servers : e.ev # BootDone(t) /\ e.ev # DrainDone(t)
      /\ \A t \in Servers, u \in Services :
           e.ev # Ready(t, u) /\ (e.ev = Terminated(t, u) => t = s /\ u = v)
  BY <1>2, EventsDiffer
<1>5. replica[s][v].state \in {"DRAINING", "NONE"}
  BY <1>0, <1>2 DEF FleetOK, TerminationsOK
<1>6. TickOK' /\ \A f : Soon(f) => Soon(f)'
  <2>1. \A f \in heap' : f.ev \in Events
    BY <1>0, <1>2 DEF FleetOK, TickOK
  <2>2. \A k : k.ev = DecisionTick => (k \in heap <=> k \in heap')
    BY <1>2, <1>4
  <2> QED  BY <1>0, <1>2, <2>1, <2>2, LoopStep
<1>7. ServersDue'
  BY <1>0, <1>2, <1>4 DEF FleetOK, ServersDue
<1>8. Timely'
  <2>1. Active' = Active
    BY <1>2 DEF Active
  <2> QED  BY <1>0, <1>2, <2>1 DEF FleetOK, Timely
<1>9. StartingOK'
  <2>1. ASSUME NEW f \in heap', NEW t \in Servers, NEW u \in Services, f.ev = Ready(t, u)
        PROVE  /\ state'[t] = "ACTIVE" /\ replica'[t][u].state = "STARTING"
               /\ \A g \in heap' : g.ev = Ready(t, u) => g = f
    <3>1. state[t] = "ACTIVE" /\ replica[t][u].state = "STARTING"
          /\ \A g \in heap : g.ev = Ready(t, u) => g = f
      BY <1>0, <1>2, <2>1 DEF FleetOK, StartingOK
    <3> QED  BY <1>2, <1>3, <1>5, <3>1
  <2>2. ASSUME NEW t \in Servers, NEW u \in Services, replica'[t][u].state = "STARTING"
        PROVE  \/ state'[t] = "BOOTING"
               \/ state'[t] = "ACTIVE" /\ \E f \in heap' : f.ev = Ready(t, u)
    <3>1. replica[t][u].state = "STARTING"
      BY <1>3, <2>2
    <3> QED  BY <1>0, <1>2, <1>4, <3>1 DEF FleetOK, StartingOK
  <2> QED  BY <2>1, <2>2 DEF StartingOK
<1>10. TerminationsOK'
  <2>1. ASSUME NEW f \in heap, NEW t \in Servers, Stale(f, t)
        PROVE  Stale(f, t)'
    BY <1>2, <1>6, <2>1 DEF Stale
  <2>2. ASSUME NEW f \in heap, f # e, f.ev = Terminated(s, v)
        PROVE  Stale(f, s)'
    <3>1. CASE replica[s][v].state = "NONE"
      BY <1>0, <2>1, <2>2, <3>1 DEF FleetOK, TerminationsOK
    <3>2. CASE replica[s][v].state = "DRAINING"
      <4>1. state[s] = "DRAINING" /\ (f.in = e.in \/ Soon(f))
        BY <1>0, <1>2, <2>2, <3>2 DEF FleetOK, TerminationsOK
      <4>2. \A b \in heap : b.ev # BootDone(s)
        BY <1>0, <4>1 DEF Basics
      <4>3. Stale(f, s)
        BY <1>2, <4>1, <4>2 DEF Stale
      <4> QED  BY <2>1, <4>3
    <3> QED  BY <1>5, <3>1, <3>2
  <2>3. ASSUME NEW f \in heap', NEW t \in Servers, NEW u \in Services, f.ev = Terminated(t, u)
        PROVE  \/ /\ replica'[t][u].state = "DRAINING"
                  /\ replica'[t][u].left <= f.in
                  /\ f.in = replica'[t][u].left \/ f.in <= Graceful
                  /\ \A g \in heap' : g.ev = Terminated(t, u) /\ g # f =>
                       state'[t] = "DRAINING" /\ (f.in = g.in \/ Soon(f)')
               \/ replica'[t][u].state = "NONE" /\ Stale(f, t)'
    <3>1. CASE t = s /\ u = v
      BY <1>2, <1>3, <2>2, <2>3, <3>1
    <3>2. CASE ~(t = s /\ u = v)
      <4>1. replica'[t][u] = replica[t][u] /\ f \in heap
        BY <1>2, <1>3, <3>2
      <4> QED  BY <1>0, <1>2, <1>6, <2>1, <2>3, <4>1 DEF FleetOK, TerminationsOK
    <3> QED  BY <3>1, <3>2
  <2>4. ASSUME NEW t \in Servers, NEW u \in Services, replica'[t][u].state = "DRAINING"
        PROVE  \E f \in heap' : f.ev = Terminated(t, u)
    <3>1. ~(t = s /\ u = v)
      BY <1>3, <2>4
    <3> QED  BY <1>0, <1>2, <1>3, <1>4, <2>4, <3>1 DEF FleetOK, TerminationsOK
  <2> QED  BY <2>3, <2>4 DEF TerminationsOK
<1>11. PendingOK'
  <2> SUFFICES ASSUME NEW t \in Servers, NEW u \in Services, pending[t][u] # None
               PROVE  replica'[t][u].state = "STARTING"
    BY <1>0, <1>2 DEF FleetOK, PendingOK
  <2>1. replica[t][u].state = "STARTING"
    BY <1>0 DEF FleetOK, PendingOK
  <2> QED  BY <1>3, <1>5, <2>1
<1>12. IdleServersHostNothing'
  <2>1. ASSUME NEW t \in Servers, NEW u \in Services
        PROVE  replica'[t][u].state \in {"NONE", replica[t][u].state}
    BY <1>3
  <2> QED  BY <1>0, <1>2, <2>1 DEF FleetOK, IdleServersHostNothing, Hosts
<1> QED
  BY <1>6, <1>7, <1>8, <1>9, <1>10, <1>11, <1>12 DEF FleetOK

\* k is h with the terminations of a drain, once each, at what is left of the
\* queue or at the graceful delay.
AddsTerminations(h, k, at, work) ==
  /\ h \subseteq k
  /\ \A f \in k \ h : \E s \in Servers, v \in Services :
       <<s, v>> \in at /\ f.in = DrainWait(replica[s][v], work[v]) /\ f.ev = Terminated(s, v)
  /\ \A s \in Servers, v \in Services : <<s, v>> \in at => \E f \in k : f.ev = Terminated(s, v)
  /\ \A f, g \in k \ h : f.in = g.in /\ f.ev = g.ev => f = g

LEMMA TerminationsAre ==
  ASSUME NEW h, NEW at \in SUBSET (Servers \X Services), NEW work
  PROVE  AddsTerminations(h, Push(h, TerminationsOf(at, work)), at, work)
<1> DEFINE B == TerminationsOf(at, work)
           k == Push(h, B)
<1>1. \A b \in B : \E s \in Servers, v \in Services :
        <<s, v>> \in at /\ b = <<DrainWait(replica[s][v], work[v]), Terminated(s, v)>>
  BY DEF TerminationsOf
<1>2. \A s \in Servers, v \in Services : <<s, v>> \in at =>
        <<DrainWait(replica[s][v], work[v]), Terminated(s, v)>> \in B
  BY DEF TerminationsOf
<1>3. \A b \in B : b = <<b[1], b[2]>>
  BY DEF TerminationsOf
<1>4. Adds(h, k, B)
  <2> HIDE DEF B
  <2> QED  BY <1>3, PushAdds
<1> HIDE DEF B, k
<1>5. ASSUME NEW f \in k \ h
      PROVE  \E s \in Servers, v \in Services :
               <<s, v>> \in at /\ f.in = DrainWait(replica[s][v], work[v]) /\ f.ev = Terminated(s, v)
  <2>1. <<f.in, f.ev>> \in B
    BY <1>4 DEF Adds
  <2>2. PICK s \in Servers, v \in Services :
          <<s, v>> \in at /\ <<f.in, f.ev>> = <<DrainWait(replica[s][v], work[v]), Terminated(s, v)>>
    BY <1>1, <2>1
  <2> QED  BY <2>2
<1>6. ASSUME NEW s \in Servers, NEW v \in Services, <<s, v>> \in at
      PROVE  \E f \in k : f.ev = Terminated(s, v)
  <2>1. PICK f \in k : f.ev = <<DrainWait(replica[s][v], work[v]), Terminated(s, v)>>[2]
    BY <1>2, <1>4, <1>6 DEF Adds
  <2> QED  BY <2>1
<1>7. AddsTerminations(h, k, at, work)
  BY <1>4, <1>5, <1>6 DEF Adds, AddsTerminations
<1> QED
  BY <1>7 DEF B, k

\* A termination waits for the queue, and at least the graceful delay.
LEMMA DrainWaitIs ==
  ASSUME NEW r, NEW w, Left(r, w) \in Nat
  PROVE  /\ Left(r, w) <= DrainWait(r, w)
         /\ DrainWait(r, w) = Left(r, w) \/ DrainWait(r, w) <= Graceful
BY DelaysType DEF DrainWait

\* _handle_replica_ready: the replica serves, and the source of its migration
\* drains.
ReadyWith(s, v, e, w, old) ==
  /\ old = {} \/ /\ old = {<<pending[s][v], v>>} /\ pending[s][v] # None
                 /\ replica[pending[s][v]][v].state \notin {"NONE", "DRAINING"}
  /\ pending[s][v] # None /\ replica[pending[s][v]][v].state \notin {"NONE", "DRAINING"} =>
       old = {<<pending[s][v], v>>}
  /\ replica' = Draining([replica EXCEPT ![s][v].state = "READY"], old, [u \in Services |-> w])
  /\ pending' = [pending EXCEPT ![s][v] = None]
  /\ heap' = Push(heap \ {e}, TerminationsOf(old, [u \in Services |-> w]))
  /\ turn = 0 /\ e.in = 0 /\ e.ev = Ready(s, v) /\ Head(e)
  /\ UNCHANGED <<state, turn>>

LEMMA ReadyCases ==
  ASSUME SimInv, NEW s \in Servers, NEW v \in Services, HandleReplicaReady(s, v)
  PROVE  \E e \in heap : \E w \in Backlogs : \E old : ReadyWith(s, v, e, w, old)
<1>1. PICK e \in heap, w \in Backlogs :
        /\ Fires(e, Ready(s, v))
        /\ LET live   == replica[s][v].state = "STARTING"
               source == pending[s][v]
               old    == IF live /\ source # None /\ Hosts(source, v)
                              /\ replica[source][v].state # "DRAINING"
                           THEN {<<source, v>>} ELSE {}
               ready  == [replica EXCEPT ![s][v].state = IF live THEN "READY" ELSE @]
               work   == [u \in Services |-> w]
           IN /\ replica' = Draining(ready, old, work)
              /\ pending' = IF live THEN PopPending(s, v) ELSE pending
              /\ heap' = Push(heap \ {e}, TerminationsOf(old, work))
        /\ UNCHANGED <<state, sinceTransition, isEmergency, emergencyBoot, sinceScale, turn>>
  BY DEF HandleReplicaReady
<1>2. turn = 0 /\ e.in = 0 /\ e.ev = Ready(s, v) /\ Head(e)
  BY <1>1 DEF Fires
<1>3. replica[s][v].state = "STARTING"
  BY <1>2 DEF SimInv, FleetOK, StartingOK
<1> DEFINE old == IF pending[s][v] # None /\ Hosts(pending[s][v], v)
                       /\ replica[pending[s][v]][v].state # "DRAINING"
                    THEN {<<pending[s][v], v>>} ELSE {}
<1>4. ReadyWith(s, v, e, w, old)
  BY <1>1, <1>2, <1>3 DEF ReadyWith, PopPending, Hosts
<1> QED
  BY <1>4

LEMMA ReadyFleet ==
  ASSUME SimInv, Inv', NEW s \in Servers, NEW v \in Services, HandleReplicaReady(s, v)
  PROVE  FleetOK'
<1>0. Basics /\ Basics' /\ FleetOK /\ ReplicasOK(replica)
  BY BasicsHold, BasicsNext, TypePartsOK DEF SimInv, Inv, TypeParts
<1>1. PICK e \in heap : \E w \in Backlogs : \E old : ReadyWith(s, v, e, w, old)
  BY ReadyCases
<1>2. PICK w \in Backlogs : \E old : ReadyWith(s, v, e, w, old)
  BY <1>1
<1>3. PICK old : ReadyWith(s, v, e, w, old)
  BY <1>2
<1> DEFINE src == pending[s][v]
           work == [u \in Services |-> w]
           ready == [replica EXCEPT ![s][v].state = "READY"]
<1>4. /\ turn = 0 /\ turn' = 0 /\ e.in = 0 /\ e.ev = Ready(s, v)
      /\ state' = state /\ pending' = [pending EXCEPT ![s][v] = None]
      /\ w \in Nat
  BY <1>3, DelaysAssumption DEF ReadyWith
<1>5. /\ state[s] = "ACTIVE" /\ replica[s][v].state = "STARTING"
      /\ \A f \in heap : f.ev = Ready(s, v) => f = e
  BY <1>0, <1>4 DEF FleetOK, StartingOK
<1>6. ASSUME src # None
      PROVE  src \in Servers /\ state[src] = "DRAINING" /\ src # s /\ replica[src][v].state # "STARTING"
  BY <1>0, <1>5, <1>6 DEF Basics, FleetOK, PendingOK, StartingOK
<1>7. \/ old = {}
      \/ /\ old = {<<src, v>>} /\ src \in Servers /\ state[src] = "DRAINING" /\ src # s
         /\ replica[src][v].state = "READY"
  <2>1. old = {} \/ /\ old = {<<src, v>>} /\ src # None
                    /\ replica[src][v].state \notin {"NONE", "DRAINING"}
    BY <1>3 DEF ReadyWith
  <2> QED  BY <1>0, <1>6, <2>1 DEF Basics
<1>8. ReplicasOK(ready)
  BY <1>0 DEF ReplicasOK, ReplicaRecord
<1>9. \A t \in Servers, u \in Services :
        ready[t][u] = IF t = s /\ u = v THEN [replica[s][v] EXCEPT !.state = "READY"] ELSE replica[t][u]
  BY <1>0 DEF ReplicasOK
<1>10. [replica[s][v] EXCEPT !.state = "READY"].state = "READY"
  BY <1>0 DEF ReplicasOK, ReplicaRecord
<1>11. replica' = Draining(ready, old, work)
  BY <1>3 DEF ReadyWith
<1> HIDE DEF ready, work
<1>12. ASSUME NEW t \in Servers, NEW u \in Services
       PROVE  LET r == replica'[t][u]
              IN IF <<t, u>> \in old
                   THEN r.state = "DRAINING" /\ r.left = Left(ready[t][u], work[u])
                   ELSE r = ready[t][u]
  BY <1>8, <1>11, DrainingIs
<1>13. replica'[s][v].state = "READY"
  BY <1>7, <1>9, <1>10, <1>12
<1>14. ASSUME NEW t \in Servers, NEW u \in Services, ~(t = s /\ u = v), <<t, u>> \notin old
       PROVE  replica'[t][u] = replica[t][u]
  BY <1>9, <1>12, <1>14
<1>15. ASSUME NEW t \in Servers, NEW u \in Services, <<t, u>> \in old
       PROVE  /\ t = src /\ u = v /\ state[t] = "DRAINING" /\ t # s /\ replica[t][u].state = "READY"
              /\ replica'[t][u].state = "DRAINING" /\ replica'[t][u].left = w
              /\ Left(replica[t][u], work[u]) = w
  <2>1. t = src /\ u = v /\ state[t] = "DRAINING" /\ t # s /\ replica[t][u].state = "READY"
    BY <1>7, <1>15
  <2>2. ready[t][u] = replica[t][u] /\ work[u] = w
    BY <1>9, <2>1 DEF work
  <2> QED  BY <1>12, <1>15, <2>1, <2>2 DEF Left
<1>16. old \in SUBSET (Servers \X Services)
  BY <1>7
<1>17. heap' = Push(heap \ {e}, TerminationsOf(old, work))
  BY <1>3 DEF ReadyWith, work
<1>18. /\ heap \ {e} \subseteq heap'
       /\ \A f \in heap' \ (heap \ {e}) : \E t \in Servers, u \in Services :
            <<t, u>> \in old /\ f.in = DrainWait(replica[t][u], work[u]) /\ f.ev = Terminated(t, u)
       /\ \A t \in Servers, u \in Services : <<t, u>> \in old => \E f \in heap' : f.ev = Terminated(t, u)
       /\ \A f, g \in heap' \ (heap \ {e}) : f.in = g.in /\ f.ev = g.ev => f = g
  <2>1. AddsTerminations(heap \ {e}, heap', old, work)
    BY <1>16, <1>17, TerminationsAre
  <2> QED  BY <2>1 DEF AddsTerminations
<1>19. ASSUME NEW f \in heap', f \notin heap \ {e}
       PROVE  /\ f.ev \in Events /\ f.ev # DecisionTick
              /\ \A t \in Servers : f.ev # BootDone(t) /\ f.ev # DrainDone(t)
              /\ \A t \in Servers, u \in Services :
                   /\ f.ev # Ready(t, u)
                   /\ f.ev = Terminated(t, u) =>
                        <<t, u>> \in old /\ w <= f.in /\ (f.in = w \/ f.in <= Graceful)
  <2>1. PICK t \in Servers, u \in Services :
          <<t, u>> \in old /\ f.in = DrainWait(replica[t][u], work[u]) /\ f.ev = Terminated(t, u)
    BY <1>18, <1>19
  <2>2. Left(replica[t][u], work[u]) = w
    BY <1>15, <2>1
  <2>3. w <= f.in /\ (f.in = w \/ f.in <= Graceful)
    BY <1>4, <2>1, <2>2, DrainWaitIs
  <2> QED  BY <2>1, <2>3, EventsDiffer DEF Events
<1>20. /\ e.ev # DecisionTick
       /\ \A t \in Servers : e.ev # BootDone(t) /\ e.ev # DrainDone(t)
       /\ \A t \in Servers, u \in Services :
            e.ev # Terminated(t, u) /\ (e.ev = Ready(t, u) => t = s /\ u = v)
  BY <1>4, EventsDiffer
<1>21. TickOK' /\ \A f : Soon(f) => Soon(f)'
  <2>1. \A f \in heap' : f.ev \in Events
    BY <1>0, <1>19 DEF FleetOK, TickOK
  <2>2. \A k : k.ev = DecisionTick => (k \in heap <=> k \in heap')
    BY <1>18, <1>19, <1>20
  <2> QED  BY <1>0, <1>4, <2>1, <2>2, LoopStep
<1>22. ServersDue'
  BY <1>0, <1>4, <1>18, <1>20 DEF FleetOK, ServersDue
<1>23. Timely'
  <2>1. Active' = Active
    BY <1>4 DEF Active
  <2> QED  BY <1>0, <1>19, <2>1 DEF FleetOK, Timely
<1>24. StartingOK'
  <2>1. ASSUME NEW f \in heap', NEW t \in Servers, NEW u \in Services, f.ev = Ready(t, u)
        PROVE  /\ state'[t] = "ACTIVE" /\ replica'[t][u].state = "STARTING"
               /\ \A g \in heap' : g.ev = Ready(t, u) => g = f
    <3>1. f \in heap /\ f # e /\ \A g \in heap' : g.ev = Ready(t, u) => g \in heap
      BY <1>19, <2>1
    <3>2. /\ state[t] = "ACTIVE" /\ replica[t][u].state = "STARTING"
          /\ \A g \in heap : g.ev = Ready(t, u) => g = f
      BY <1>0, <2>1, <3>1 DEF FleetOK, StartingOK
    <3>3. ~(t = s /\ u = v) /\ <<t, u>> \notin old
      BY <1>4, <1>15, <3>1, <3>2
    <3> QED  BY <1>4, <1>14, <3>1, <3>2, <3>3
  <2>2. ASSUME NEW t \in Servers, NEW u \in Services, replica'[t][u].state = "STARTING"
        PROVE  \/ state'[t] = "BOOTING"
               \/ state'[t] = "ACTIVE" /\ \E f \in heap' : f.ev = Ready(t, u)
    <3>1. ~(t = s /\ u = v)
      BY <1>13, <2>2
    <3>2. <<t, u>> \notin old
      <4>1. <<t, u>> \in old => replica'[t][u].state = "DRAINING"
        BY <1>15
      <4> QED  BY <2>2, <4>1
    <3>3. replica[t][u].state = "STARTING"
      BY <1>14, <2>2, <3>1, <3>2
    <3> QED  BY <1>0, <1>4, <1>18, <1>20, <3>1, <3>3 DEF FleetOK, StartingOK
  <2> QED  BY <2>1, <2>2 DEF StartingOK
<1>25. TerminationsOK'
  <2>1. ASSUME NEW f \in heap, NEW t \in Servers, Stale(f, t)
        PROVE  Stale(f, t)'
    BY <1>4, <1>19, <1>21, <2>1 DEF Stale
  <2>2. ASSUME NEW f \in heap', NEW t \in Servers, NEW u \in Services, f.ev = Terminated(t, u)
        PROVE  \/ /\ replica'[t][u].state = "DRAINING"
                  /\ replica'[t][u].left <= f.in
                  /\ f.in = replica'[t][u].left \/ f.in <= Graceful
                  /\ \A g \in heap' : g.ev = Terminated(t, u) /\ g # f =>
                       state'[t] = "DRAINING" /\ (f.in = g.in \/ Soon(f)')
               \/ replica'[t][u].state = "NONE" /\ Stale(f, t)'
    <3>1. CASE <<t, u>> \in old
      <4>1. \A g \in heap : g.ev # Terminated(t, u)
        BY <1>0, <1>15, <3>1 DEF FleetOK, TerminationsOK
      <4>2. w <= f.in /\ (f.in = w \/ f.in <= Graceful)
        BY <1>19, <2>2, <4>1
      <4>3. \A g \in heap' : g.ev = Terminated(t, u) => g = f
        <5>1. \A g \in heap' \ (heap \ {e}) : g.ev = Terminated(t, u) =>
                g.in = DrainWait(replica[t][u], work[u])
          <6> SUFFICES ASSUME NEW g \in heap' \ (heap \ {e}), g.ev = Terminated(t, u)
                       PROVE  g.in = DrainWait(replica[t][u], work[u])
            OBVIOUS
          <6>1. PICK q \in Servers, x \in Services :
                  g.in = DrainWait(replica[q][x], work[x]) /\ g.ev = Terminated(q, x)
            BY <1>18
          <6>2. Terminated(q, x) = Terminated(t, u)
            BY <6>1
          <6>3. q = t /\ x = u
            BY <6>2, EventsDiffer
          <6> QED  BY <6>1, <6>3
        <5> QED  BY <1>18, <2>2, <4>1, <5>1
      <4> QED  BY <1>15, <3>1, <4>2, <4>3
    <3>2. CASE t = s /\ u = v
      <4>1. \A g \in heap : g.ev # Terminated(s, v)
        BY <1>0, <1>5 DEF FleetOK, TerminationsOK
      <4> QED  BY <1>15, <1>19, <2>2, <3>2, <4>1
    <3>3. CASE ~(t = s /\ u = v) /\ <<t, u>> \notin old
      <4>1. replica'[t][u] = replica[t][u]
        BY <1>14, <3>3
      <4>2. f \in heap /\ \A g \in heap' : g.ev = Terminated(t, u) => g \in heap
        BY <1>19, <2>2, <3>3
      <4> QED  BY <1>0, <1>4, <1>21, <2>1, <2>2, <4>1, <4>2 DEF FleetOK, TerminationsOK
    <3> QED  BY <3>1, <3>2, <3>3
  <2>3. ASSUME NEW t \in Servers, NEW u \in Services, replica'[t][u].state = "DRAINING"
        PROVE  \E f \in heap' : f.ev = Terminated(t, u)
    <3>1. CASE <<t, u>> \in old
      BY <1>18, <3>1
    <3>2. CASE <<t, u>> \notin old
      <4>1. replica[t][u].state = "DRAINING"
        BY <1>13, <1>14, <2>3, <3>2
      <4> QED  BY <1>0, <1>18, <1>20, <4>1 DEF FleetOK, TerminationsOK
    <3> QED  BY <3>1, <3>2
  <2> QED  BY <2>2, <2>3 DEF TerminationsOK
<1>26. PendingOK'
  <2>1. \A t \in Servers, u \in Services :
          pending'[t][u] = IF t = s /\ u = v THEN None ELSE pending[t][u]
    BY <1>4 DEF SimInv, Inv, TypeOK
  <2> SUFFICES ASSUME NEW t \in Servers, NEW u \in Services, pending'[t][u] # None
               PROVE  /\ replica'[t][u].state = "STARTING" /\ state'[t] = "ACTIVE"
                      /\ state'[pending'[t][u]] = "DRAINING"
                      /\ \A q \in Servers : pending'[q][u] = pending'[t][u] => q = t
                      /\ \A f, g \in heap' : f.ev = Ready(t, u) /\ g.ev = DrainDone(pending'[t][u]) => f.in < g.in
    BY <1>4 DEF PendingOK
  <2>2. ~(t = s /\ u = v) /\ pending'[t][u] = pending[t][u] /\ pending[t][u] # None
    BY <2>1
  <2>3. pending[t][u] \in Servers /\ state[t] = "ACTIVE" /\ replica[t][u].state = "STARTING"
    BY <1>0, <2>2 DEF Basics, FleetOK, PendingOK
  <2>7. <<t, u>> \notin old
    BY <1>15, <2>3
  <2>4. replica'[t][u] = replica[t][u]
    BY <1>14, <2>2, <2>7
  <2>5. ASSUME NEW q \in Servers, pending'[q][u] = pending'[t][u]
        PROVE  q = t
    BY <1>0, <2>1, <2>2, <2>5 DEF FleetOK, PendingOK
  <2>6. \A f, g \in heap' : f.ev = Ready(t, u) /\ g.ev = DrainDone(pending[t][u]) => f \in heap /\ g \in heap
    BY <1>19, <2>3
  <2> QED  BY <1>0, <1>4, <2>2, <2>3, <2>4, <2>5, <2>6 DEF FleetOK, PendingOK
<1>27. IdleServersHostNothing'
  <2> SUFFICES ASSUME NEW t \in Servers, NEW u \in Services, state[t] \in {"OFF", "BOOTING"}
               PROVE  replica'[t][u].state = replica[t][u].state
    BY <1>0, <1>4 DEF FleetOK, IdleServersHostNothing, Hosts
  <2> QED  BY <1>5, <1>14, <1>15
<1> QED
  BY <1>21, <1>22, <1>23, <1>24, <1>25, <1>26, <1>27 DEF FleetOK

----------------------------------------------------------------------------
(* The provisioning decision, in the settled fleet of a tick.              *)

\* The tick's own event is taken, and no other tick is due until the last service.
LEMMA TickTaken ==
  ASSUME FleetOK, NEW e, Settled(e), turn' = 1,
         \A f \in heap' : f.ev \in Events /\ (f.ev = DecisionTick => f \in heap \ {e})
  PROVE  TickOK' /\ \A f \in heap' : f.ev # DecisionTick
<1>1. \A f \in heap' : f.ev # DecisionTick
  BY DEF Settled
<1>2. Events' = Events
  BY DEF Events, DecisionTick, BootDone, DrainDone, Ready, Terminated, Event
<1> QED
  BY <1>1, <1>2 DEF TickOK

\* Servers that are off begin to boot, or none do.
LEMMA BootFleet ==
  ASSUME SimInv, Inv', NEW e \in heap, Fires(e, DecisionTick), NEW S \in SUBSET Servers,
         \A s \in S : state[s] = "OFF", Adds(heap \ {e}, heap', Boots(S)), turn' = 1,
         state' = [s \in Servers |-> IF s \in S THEN "BOOTING" ELSE state[s]],
         UNCHANGED <<replica, pending>>
  PROVE  FleetOK'
<1>0. Basics /\ Basics' /\ FleetOK /\ Settled(e)
  BY BasicsHold, BasicsNext, TickSettled DEF SimInv
<1>1. turn = 0 /\ replica' = replica /\ pending' = pending
  BY DEF Fires
<1>2. \A s \in Servers : state'[s] = IF s \in S THEN "BOOTING" ELSE state[s]
  OBVIOUS
<1>3. ASSUME NEW f \in heap', f \notin heap \ {e}
      PROVE  \E s \in S : f.in = BootDelay /\ f.ev = BootDone(s)
  <2>1. <<f.in, f.ev>> \in Boots(S)
    BY <1>3 DEF Adds
  <2>2. PICK s \in S : <<f.in, f.ev>> = <<BootDelay, BootDone(s)>>
    BY <2>1 DEF Boots
  <2> QED  BY <2>2
<1>4. ASSUME NEW s \in S
      PROVE  \E f \in heap' : f.ev = BootDone(s)
  <2>1. <<BootDelay, BootDone(s)>> \in Boots(S)
    BY DEF Boots
  <2>2. PICK f \in heap' : f.ev = <<BootDelay, BootDone(s)>>[2]
    BY <2>1 DEF Adds
  <2> QED  BY <2>2
<1>5. ASSUME NEW f \in heap', f \notin heap \ {e}
      PROVE  /\ f.ev \in Events /\ f.ev # DecisionTick
             /\ \A t \in Servers : f.ev # DrainDone(t) /\ (f.ev = BootDone(t) => t \in S /\ f.in = BootDelay)
             /\ \A t \in Servers, u \in Services : f.ev # Ready(t, u) /\ f.ev # Terminated(t, u)
  <2>1. PICK s \in S : f.in = BootDelay /\ f.ev = BootDone(s)
    BY <1>3, <1>5
  <2> QED  BY <2>1, EventsDiffer DEF Events
<1>6. heap \ {e} \subseteq heap' /\ e.ev = DecisionTick
  BY <1>0 DEF Adds, Settled
<1>7. /\ \A t \in Servers : e.ev # BootDone(t) /\ e.ev # DrainDone(t)
      /\ \A t \in Servers, u \in Services : e.ev # Ready(t, u) /\ e.ev # Terminated(t, u)
  BY <1>6, EventsDiffer
<1>8. TickOK' /\ \A f \in heap' : f.ev # DecisionTick
  <2>1. \A f \in heap' : f.ev \in Events /\ (f.ev = DecisionTick => f \in heap \ {e})
    BY <1>0, <1>5 DEF FleetOK, TickOK
  <2> QED  BY <1>0, <2>1, TickTaken
<1>9. ServersDue'
  BY <1>0, <1>2, <1>4, <1>6, <1>7 DEF FleetOK, ServersDue
<1>10. Timely'
  <2>1. ASSUME NEW f \in heap', NEW t \in Servers, f.ev = BootDone(t)
        PROVE  f.in <= BootDelay
    <3>1. CASE f \in heap
      BY <1>0, <2>1, <3>1 DEF FleetOK, Timely
    <3>2. CASE f \notin heap
      BY <1>5, <2>1, <3>2, DelaysType
    <3> QED  BY <3>1, <3>2
  <2>2. ASSUME NEW f \in heap', NEW t \in Servers, NEW u \in Services, f.ev = Ready(t, u)
        PROVE  f.in <= PodStartup
    <3>1. f \in heap
      BY <1>5, <2>2
    <3> QED  BY <1>0, <2>2, <3>1 DEF FleetOK, Timely
  <2> QED  BY <1>8, <2>1, <2>2 DEF Timely
<1>11. StartingOK'
  BY <1>0, <1>1, <1>2, <1>5 DEF Settled, StartingOK
<1>12. TerminationsOK'
  <2>1. ASSUME NEW f \in heap, NEW t \in Servers, Stale(f, t)
        PROVE  Stale(f, t)'
    <3>1. f.in = 0 /\ state[t] # "ACTIVE" /\ \A b \in heap : b.ev = BootDone(t) => b.in > 0
      BY <1>0, <2>1 DEF Stale, Settled
    <3>2. BootDelay > 0 /\ BootDelay \in Nat
      BY DelaysAssumption
    <3>3. \A b \in heap' : b.ev = BootDone(t) => b.in > 0
      BY <1>5, <3>1, <3>2
    <3> QED  BY <1>2, <3>1, <3>3 DEF Stale
  <2>2. ASSUME NEW f \in heap', NEW t \in Servers, NEW u \in Services, f.ev = Terminated(t, u)
        PROVE  \/ /\ replica'[t][u].state = "DRAINING"
                  /\ replica'[t][u].left <= f.in
                  /\ f.in = replica'[t][u].left \/ f.in <= Graceful
                  /\ \A g \in heap' : g.ev = Terminated(t, u) /\ g # f =>
                       state'[t] = "DRAINING" /\ (f.in = g.in \/ Soon(f)')
               \/ replica'[t][u].state = "NONE" /\ Stale(f, t)'
    <3>1. f \in heap /\ \A g \in heap' : g.ev = Terminated(t, u) => g \in heap
      BY <1>5, <2>2
    <3>2. ~Soon(f) /\ (state[t] = "DRAINING" => state'[t] = "DRAINING")
      BY <1>0, <1>2, <3>1 DEF Settled
    <3> QED  BY <1>0, <1>1, <2>1, <2>2, <3>1, <3>2 DEF FleetOK, TerminationsOK
  <2>3. ASSUME NEW t \in Servers, NEW u \in Services, replica'[t][u].state = "DRAINING"
        PROVE  \E f \in heap' : f.ev = Terminated(t, u)
    BY <1>0, <1>1, <1>6, <1>7, <2>3 DEF FleetOK, TerminationsOK
  <2> QED  BY <2>2, <2>3 DEF TerminationsOK
<1>13. PendingOK'
  BY <1>0, <1>1 DEF Settled, PendingOK
<1>14. IdleServersHostNothing'
  BY <1>0, <1>1, <1>2 DEF FleetOK, IdleServersHostNothing, Hosts
<1> QED
  BY <1>8, <1>9, <1>10, <1>11, <1>12, <1>13, <1>14 DEF FleetOK

\* NoProvisioning, TURN_ON, and a TURN_OFF that asks for emergency boots instead.
LEMMA BootsAdd ==
  ASSUME NEW h, NEW S
  PROVE  Adds(h, Push(h, Boots(S)), Boots(S))
<1>1. \A b \in Boots(S) : b = <<b[1], b[2]>>
  BY DEF Boots
<1> QED
  BY <1>1, PushAdds

LEMMA NoProvisioningFleet ==
  ASSUME SimInv, Inv', NoProvisioning
  PROVE  FleetOK'
<1>1. PICK e \in heap :
        /\ Fires(e, DecisionTick)
        /\ heap' = heap \ {e} /\ turn' = 1 /\ UNCHANGED <<state, replica, pending>>
  BY DEF NoProvisioning
<1>2. Adds(heap \ {e}, heap', Boots({}))
  BY <1>1 DEF Adds, Boots
<1>3. state' = [s \in Servers |-> IF s \in {} THEN "BOOTING" ELSE state[s]]
  BY <1>1 DEF SimInv, Inv, TypeOK
<1> QED
  BY <1>1, <1>2, <1>3, BootFleet

LEMMA TurnOnFleet ==
  ASSUME SimInv, Inv', NEW s \in Servers, TurnOn(s)
  PROVE  FleetOK'
<1>1. PICK e \in heap :
        /\ Fires(e, DecisionTick)
        /\ MayTurnOn(s)
        /\ StartBoot({s}, FALSE)
        /\ heap' = Push(heap \ {e}, Boots({s})) /\ turn' = 1
        /\ UNCHANGED <<replica, pending>>
  BY DEF TurnOn
<1>2. Adds(heap \ {e}, heap', Boots({s}))
  BY <1>1, BootsAdd
<1>3. state' = [t \in Servers |-> IF t \in {s} THEN "BOOTING" ELSE state[t]]
      /\ \A t \in {s} : state[t] = "OFF"
  BY <1>1 DEF StartBoot, MayTurnOn
<1> QED
  BY <1>1, <1>2, <1>3, BootFleet

LEMMA AbortTurnOffFleet ==
  ASSUME SimInv, Inv', NEW s \in Servers, AbortTurnOff(s)
  PROVE  FleetOK'
<1>1. PICK e \in heap, m \in MigrationPlans(s) :
        /\ Fires(e, DecisionTick)
        /\ \E moved \in Packings(RawMips, m, Free) :
             LET unmigrated == SoleHosted(s) \ moved
                 waiting == {v \in unmigrated : emergencyBoot[v] = None}
             IN \E p \in EmergencyPlans(waiting) :
                  LET targets == {p[v] : v \in waiting} \ {None}
                  IN StartBoot(targets, TRUE) /\ heap' = Push(heap \ {e}, Boots(targets))
        /\ turn' = 1
        /\ UNCHANGED <<replica, pending>>
  BY DEF AbortTurnOff
<1>2. PICK moved \in Packings(RawMips, m, Free) :
        LET waiting == {v \in SoleHosted(s) \ moved : emergencyBoot[v] = None}
        IN \E p \in EmergencyPlans(waiting) :
             LET targets == {p[v] : v \in waiting} \ {None}
             IN StartBoot(targets, TRUE) /\ heap' = Push(heap \ {e}, Boots(targets))
  BY <1>1
<1> DEFINE waiting == {v \in SoleHosted(s) \ moved : emergencyBoot[v] = None}
<1>3. PICK p \in EmergencyPlans(waiting) :
        LET targets == {p[v] : v \in waiting} \ {None}
        IN StartBoot(targets, TRUE) /\ heap' = Push(heap \ {e}, Boots(targets))
  BY <1>2
<1> DEFINE targets == {p[v] : v \in waiting} \ {None}
<1>4. targets \in SUBSET Servers /\ \A t \in targets : state[t] = "OFF"
  <2> SUFFICES ASSUME NEW v \in waiting, p[v] # None
               PROVE  p[v] \in Servers /\ state[p[v]] = "OFF"
    OBVIOUS
  <2> HIDE DEF waiting
  <2>1. p \in EmergencyTargets(waiting, {t \in Servers : state[t] = "OFF"})
    BY DEF EmergencyPlans
  <2>2. p \in [waiting -> {t \in Servers : state[t] = "OFF"} \cup {None}]
    BY <2>1 DEF EmergencyTargets
  <2>3. p[v] \in {t \in Servers : state[t] = "OFF"} \cup {None}
    BY <2>2
  <2> QED  BY <2>3
<1>5. StartBoot(targets, TRUE) /\ heap' = Push(heap \ {e}, Boots(targets))
  BY <1>3
<1> HIDE DEF targets
<1>6. Adds(heap \ {e}, heap', Boots(targets))
  BY <1>5, BootsAdd
<1>7. state' = [t \in Servers |-> IF t \in targets THEN "BOOTING" ELSE state[t]]
  BY <1>5 DEF StartBoot
<1> QED
  BY <1>1, <1>4, <1>6, <1>7, BootFleet

\* k is h with the events of a drain: start-ups, terminations, and the look at
\* its end.
AddsDrain(h, k, s, new, old, work) ==
  /\ h \subseteq k
  /\ \A f \in k \ h :
       \/ f.in = DrainGrace /\ f.ev = DrainDone(s)
       \/ \E t \in Servers, u \in Services :
            \/ <<t, u>> \in new /\ f.in = PodStartup /\ f.ev = Ready(t, u)
            \/ <<t, u>> \in old /\ f.in = DrainWait(replica[t][u], work[u]) /\ f.ev = Terminated(t, u)
  /\ \E f \in k : f.ev = DrainDone(s)
  /\ \A t \in Servers, u \in Services :
       /\ <<t, u>> \in new => \E f \in k : f.ev = Ready(t, u)
       /\ <<t, u>> \in old => \E f \in k : f.ev = Terminated(t, u)
  /\ \A f, g \in k \ h : f.in = g.in /\ f.ev = g.ev => f = g

LEMMA DrainEvents ==
  ASSUME NEW h, NEW s \in Servers, NEW new \in SUBSET (Servers \X Services),
         NEW old \in SUBSET (Servers \X Services), NEW work, NEW k,
         k = Push(Push(Push(h, ReadyEvents(new)), TerminationsOf(old, work)),
                  {<<DrainGrace, DrainDone(s)>>})
  PROVE  AddsDrain(h, k, s, new, old, work)
<1> DEFINE B == ReadyEvents(new)
           C == TerminationsOf(old, work)
           D == {<<DrainGrace, DrainDone(s)>>}
           h1 == Push(h, B)
           h2 == Push(h1, C)
<1>1. \A b \in B : /\ b = <<b[1], b[2]>>
                   /\ \E t \in Servers, u \in Services :
                        <<t, u>> \in new /\ b[1] = PodStartup /\ b[2] = Ready(t, u)
  BY DEF ReadyEvents
<1>2. \A c \in C : /\ c = <<c[1], c[2]>>
                   /\ \E t \in Servers, u \in Services :
                        <<t, u>> \in old /\ c[1] = DrainWait(replica[t][u], work[u]) /\ c[2] = Terminated(t, u)
  BY DEF TerminationsOf
<1>3. \A d \in D : d = <<d[1], d[2]>> /\ d[1] = DrainGrace /\ d[2] = DrainDone(s)
  OBVIOUS
<1>4. /\ \A t \in Servers, u \in Services : <<t, u>> \in new => <<PodStartup, Ready(t, u)>> \in B
      /\ \A t \in Servers, u \in Services : <<t, u>> \in old =>
           <<DrainWait(replica[t][u], work[u]), Terminated(t, u)>> \in C
      /\ <<DrainGrace, DrainDone(s)>> \in D
  BY DEF ReadyEvents, TerminationsOf
<1>5. k = Push(h2, D)
  OBVIOUS
<1>6. Adds(h, h1, B) /\ Adds(h1, h2, C) /\ Adds(h2, k, D)
  <2> HIDE DEF B, C, D
  <2> QED  BY <1>1, <1>2, <1>3, <1>5, PushAdds
<1> HIDE DEF B, C, D, h1, h2
<1>7. \A b \in B, c \in C : b[2] # c[2]
  <2> SUFFICES ASSUME NEW b \in B, NEW c \in C PROVE b[2] # c[2]
    OBVIOUS
  <2>1. PICK t \in Servers, u \in Services : b[2] = Ready(t, u)
    BY <1>1
  <2>2. PICK p \in Servers, q \in Services : c[2] = Terminated(p, q)
    BY <1>2
  <2> QED  BY <2>1, <2>2 DEF Ready, Terminated, Event
<1>8. \A b \in B \cup C, d \in D : b[2] # d[2]
  <2> SUFFICES ASSUME NEW b \in B \cup C, NEW d \in D PROVE b[2] # d[2]
    OBVIOUS
  <2>1. d[2] = DrainDone(s)
    BY <1>3
  <2>2. PICK t \in Servers, u \in Services : b[2] = Ready(t, u) \/ b[2] = Terminated(t, u)
    BY <1>1, <1>2
  <2> QED  BY <2>1, <2>2 DEF Ready, Terminated, DrainDone, Event
<1>9. Adds(h, k, (B \cup C) \cup D)
  <2>1. Adds(h, h2, B \cup C)
    BY <1>6, <1>7, AddsTwice
  <2> QED  BY <1>6, <1>8, <2>1, AddsTwice
<1>10. ASSUME NEW f \in k \ h
       PROVE  \/ f.in = DrainGrace /\ f.ev = DrainDone(s)
              \/ \E t \in Servers, u \in Services :
                   \/ <<t, u>> \in new /\ f.in = PodStartup /\ f.ev = Ready(t, u)
                   \/ <<t, u>> \in old /\ f.in = DrainWait(replica[t][u], work[u]) /\ f.ev = Terminated(t, u)
  <2> DEFINE b == <<f.in, f.ev>>
  <2>1. b \in (B \cup C) \cup D /\ b[1] = f.in /\ b[2] = f.ev
    BY <1>9 DEF Adds
  <2> HIDE DEF b
  <2>2. CASE b \in B
    BY <1>1, <2>1, <2>2
  <2>3. CASE b \in C
    BY <1>2, <2>1, <2>3
  <2>4. CASE b \in D
    BY <1>3, <2>1, <2>4
  <2> QED  BY <2>1, <2>2, <2>3, <2>4
<1>11. \E f \in k : f.ev = DrainDone(s)
  <2>1. PICK f \in k : f.ev = <<DrainGrace, DrainDone(s)>>[2]
    BY <1>4, <1>9 DEF Adds
  <2> QED  BY <2>1
<1>12. ASSUME NEW t \in Servers, NEW u \in Services, <<t, u>> \in new
       PROVE  \E f \in k : f.ev = Ready(t, u)
  <2>1. PICK f \in k : f.ev = <<PodStartup, Ready(t, u)>>[2]
    BY <1>4, <1>9, <1>12 DEF Adds
  <2> QED  BY <2>1
<1>13. ASSUME NEW t \in Servers, NEW u \in Services, <<t, u>> \in old
       PROVE  \E f \in k : f.ev = Terminated(t, u)
  <2>1. PICK f \in k : f.ev = <<DrainWait(replica[t][u], work[u]), Terminated(t, u)>>[2]
    BY <1>4, <1>9, <1>13 DEF Adds
  <2> QED  BY <2>1
<1> QED
  BY <1>9, <1>10, <1>11, <1>12, <1>13 DEF Adds, AddsDrain

\* What _start_server_drain does to the replicas: new ones start where there was
\* none, on other active servers; those of s that are hosted elsewhere drain.
DrainBegun(s, e, work, new, old) ==
  /\ Fires(e, DecisionTick) /\ state[s] = "ACTIVE" /\ work \in [Services -> Nat]
  /\ new \in SUBSET (Servers \X Services) /\ old \in SUBSET (Servers \X Services)
  /\ \A t \in Servers, u \in Services :
       /\ <<t, u>> \in new => /\ t # s /\ state[t] = "ACTIVE" /\ replica[t][u].state = "NONE"
                              /\ \A o \in Servers \ {s} : replica[o][u].state = "NONE"
                              /\ \A o \in Servers : <<o, u>> \in new => o = t
       /\ <<t, u>> \in old => /\ t = s /\ replica[t][u].state # "NONE"
                              /\ \E o \in Servers \ {s} : replica[o][u].state # "NONE"
       /\ IF <<t, u>> \in old
            THEN replica'[t][u].state = "DRAINING" /\ replica'[t][u].left = Left(replica[t][u], work[u])
          ELSE IF <<t, u>> \in new THEN replica'[t][u].state = "STARTING"
          ELSE replica'[t][u] = replica[t][u]
       /\ pending'[t][u] = IF <<t, u>> \in new THEN s ELSE pending[t][u]
  /\ \A t \in Servers : state'[t] = IF t = s THEN "DRAINING" ELSE state[t]
  /\ heap' = Push(Push(Push(heap \ {e}, ReadyEvents(new)), TerminationsOf(old, work)),
                  {<<DrainGrace, DrainDone(s)>>})
  /\ turn' = 1

LEMMA TurnOffDoes ==
  ASSUME SimInv, NEW s \in Servers, TurnOff(s)
  PROVE  \E e \in heap : \E work, new, old : DrainBegun(s, e, work, new, old)
<1>0. Basics /\ ReplicasOK(replica)
  BY BasicsHold, TypePartsOK DEF SimInv, Inv, TypeParts
<1>1. PICK e \in heap, work \in [Services -> Backlogs] : \E m \in MigrationPlans(s) :
        \E placed \in Packings(EffMips, m, Free) :
          Fires(e, DecisionTick) /\ TurnOffWith(s, e, m, work, placed)
  BY TurnOffCases
<1>2. PICK m \in MigrationPlans(s) : \E placed \in Packings(EffMips, m, Free) :
        Fires(e, DecisionTick) /\ TurnOffWith(s, e, m, work, placed)
  BY <1>1
<1>3. PICK placed \in Packings(EffMips, m, Free) :
        Fires(e, DecisionTick) /\ TurnOffWith(s, e, m, work, placed)
  BY <1>2
<1> DEFINE new == NewAt(m, placed)
           old == OldAt(s)
<1>4. /\ placed \in SUBSET SoleHosted(s) /\ placed \in SUBSET Services
      /\ \A v \in placed : m[v] \in Active \ {s} /\ CanHost(m[v], v)
  BY PlanTargets
<1>5. \A t \in Servers, u \in Services : <<t, u>> \in new <=> u \in placed /\ t = m[u]
  BY DEF NewAt
<1>6. \A t \in Servers, u \in Services : <<t, u>> \in old =>
        /\ t = s /\ replica[t][u].state # "NONE"
        /\ \E o \in Servers \ {s} : replica[o][u].state # "NONE"
  BY DEF OldAt, DrainedAtOnce, SoleHosted, HostedOn, Hosts
<1>7. new \in SUBSET (Servers \X Services) /\ old \in SUBSET (Servers \X Services)
  BY <1>4 DEF NewAt, OldAt, DrainedAtOnce, HostedOn, Active
<1>8. state[s] = "ACTIVE"
  BY TurnOffCases DEF MayTurnOff
<1>9. /\ \A t \in Servers : state'[t] = IF t = s THEN "DRAINING" ELSE state[t]
      /\ turn' = 1 /\ work \in [Services -> Nat]
  BY <1>0, <1>3, DelaysAssumption DEF TurnOffWith, Enter, Basics
<1>10. \A t \in Servers, u \in Services : pending'[t][u] = IF <<t, u>> \in new THEN s ELSE pending[t][u]
  BY <1>3 DEF TurnOffWith
<1>11. heap' = Push(Push(Push(heap \ {e}, ReadyEvents(new)), TerminationsOf(old, work)),
                    {<<DrainGrace, DrainDone(s)>>})
  BY <1>3 DEF TurnOffWith
<1>12. ASSUME NEW t \in Servers, NEW u \in Services, <<t, u>> \in new
       PROVE  /\ t # s /\ state[t] = "ACTIVE" /\ replica[t][u].state = "NONE"
              /\ \A o \in Servers \ {s} : replica[o][u].state = "NONE"
              /\ \A o \in Servers : <<o, u>> \in new => o = t
  <2>1. u \in placed /\ t = m[u]
    BY <1>5, <1>12
  <2>2. t \in Active \ {s} /\ u \in SoleHosted(s)
    BY <1>4, <2>1
  <2>3. \A o \in Servers \ {s} : replica[o][u].state = "NONE"
    BY <2>2 DEF SoleHosted, Hosts
  <2> HIDE DEF new
  <2> QED  BY <1>5, <2>1, <2>2, <2>3 DEF Active
<1>13. ASSUME NEW t \in Servers, NEW u \in Services
       PROVE  IF <<t, u>> \in old
                THEN replica'[t][u].state = "DRAINING" /\ replica'[t][u].left = Left(replica[t][u], work[u])
              ELSE IF <<t, u>> \in new THEN replica'[t][u].state = "STARTING"
              ELSE replica'[t][u] = replica[t][u]
  <2> DEFINE mid == Place(replica, new)
  <2>1. replica' = Draining(mid, old, work)
    BY <1>3 DEF TurnOffWith
  <2>2. ReplicasOK(mid)
    BY <1>0, PlaceType
  <2>3. mid[t][u] = IF <<t, u>> \in new THEN Created ELSE replica[t][u]
    BY PlaceIs
  <2> HIDE DEF mid
  <2>4. IF <<t, u>> \in old
          THEN replica'[t][u].state = "DRAINING" /\ replica'[t][u].left = Left(mid[t][u], work[u])
          ELSE replica'[t][u] = mid[t][u]
    BY <2>1, <2>2, DrainingIs
  <2> HIDE DEF new, old
  <2>5. <<t, u>> \in old => <<t, u>> \notin new
    BY <1>6, <1>12
  <2> QED  BY <2>3, <2>4, <2>5 DEF Created
<1> HIDE DEF new, old
<1>14. DrainBegun(s, e, work, new, old)
  BY <1>3, <1>6, <1>7, <1>8, <1>9, <1>10, <1>11, <1>12, <1>13 DEF DrainBegun
<1> QED
  BY <1>14

\* _start_server_drain: nothing else is under way, so a second termination of a
\* replica comes with the first or within the graceful delay.
LEMMA TurnOffFleet ==
  ASSUME SimInv, Inv', NEW s \in Servers, TurnOff(s)
  PROVE  FleetOK'
<1>0. Basics /\ Basics' /\ FleetOK
  BY BasicsHold, BasicsNext DEF SimInv
<1>1. PICK e \in heap : \E work, new, old : DrainBegun(s, e, work, new, old)
  BY TurnOffDoes
<1>2. PICK work, new, old : DrainBegun(s, e, work, new, old)
  BY <1>1
<1>3. Settled(e) /\ e.ev = DecisionTick
  BY <1>2, TickSettled DEF DrainBegun, Fires
<1>4. /\ turn' = 1 /\ state[s] = "ACTIVE" /\ work \in [Services -> Nat]
      /\ new \in SUBSET (Servers \X Services) /\ old \in SUBSET (Servers \X Services)
      /\ \A t \in Servers : state'[t] = IF t = s THEN "DRAINING" ELSE state[t]
      /\ \A t \in Servers : state[t] # "BOOTING"
      /\ \A t \in Servers, u \in Services : replica[t][u].state # "STARTING" /\ pending[t][u] = None
  <2>1. /\ turn' = 1 /\ state[s] = "ACTIVE" /\ work \in [Services -> Nat]
        /\ new \in SUBSET (Servers \X Services) /\ old \in SUBSET (Servers \X Services)
        /\ \A t \in Servers : state'[t] = IF t = s THEN "DRAINING" ELSE state[t]
    BY <1>2 DEF DrainBegun
  <2>2. Active # {}
    BY <2>1 DEF Active
  <2> QED  BY <1>3, <2>1, <2>2 DEF Settled
<1>5. ASSUME NEW t \in Servers, NEW u \in Services
      PROVE  /\ <<t, u>> \in new => /\ t # s /\ state[t] = "ACTIVE" /\ replica[t][u].state = "NONE"
                                    /\ \A o \in Servers \ {s} : replica[o][u].state = "NONE"
                                    /\ \A o \in Servers : <<o, u>> \in new => o = t
             /\ <<t, u>> \in old => t = s /\ replica[t][u].state # "NONE"
             /\ <<t, u>> \in old => replica'[t][u].state = "DRAINING"
                                    /\ replica'[t][u].left = Left(replica[t][u], work[u])
             /\ <<t, u>> \in new => <<t, u>> \notin old /\ replica'[t][u].state = "STARTING"
             /\ <<t, u>> \notin old /\ <<t, u>> \notin new => replica'[t][u] = replica[t][u]
             /\ pending'[t][u] = IF <<t, u>> \in new THEN s ELSE None
  BY <1>2, <1>4 DEF DrainBegun
<1>6. /\ heap \ {e} \subseteq heap'
      /\ \A f \in heap' \ (heap \ {e}) :
           \/ f.in = DrainGrace /\ f.ev = DrainDone(s)
           \/ \E t \in Servers, u \in Services :
                \/ <<t, u>> \in new /\ f.in = PodStartup /\ f.ev = Ready(t, u)
                \/ <<t, u>> \in old /\ f.in = DrainWait(replica[t][u], work[u]) /\ f.ev = Terminated(t, u)
      /\ \E f \in heap' : f.ev = DrainDone(s)
      /\ \A t \in Servers, u \in Services :
           /\ <<t, u>> \in new => \E f \in heap' : f.ev = Ready(t, u)
           /\ <<t, u>> \in old => \E f \in heap' : f.ev = Terminated(t, u)
      /\ \A f, g \in heap' \ (heap \ {e}) : f.in = g.in /\ f.ev = g.ev => f = g
  <2>1. heap' = Push(Push(Push(heap \ {e}, ReadyEvents(new)), TerminationsOf(old, work)),
                     {<<DrainGrace, DrainDone(s)>>})
    BY <1>2 DEF DrainBegun
  <2>2. AddsDrain(heap \ {e}, heap', s, new, old, work)
    BY <1>4, <2>1, DrainEvents
  <2> QED  BY <2>2 DEF AddsDrain
<1> DEFINE Known(f) ==
             /\ f.ev \in Events /\ f.ev # DecisionTick
             /\ \A t \in Servers : f.ev # BootDone(t) /\ (f.ev = DrainDone(t) => t = s /\ f.in = DrainGrace)
             /\ \A t \in Servers, u \in Services :
                  /\ f.ev = Ready(t, u) => <<t, u>> \in new /\ f.in = PodStartup
                  /\ f.ev = Terminated(t, u) =>
                       <<t, u>> \in old /\ f.in = DrainWait(replica[t][u], work[u])
<1>7. ASSUME NEW f \in heap', f \notin heap \ {e}
      PROVE  Known(f)
  <2>1. CASE f.in = DrainGrace /\ f.ev = DrainDone(s)
    BY <2>1, EventsDiffer DEF Events
  <2>2. ASSUME NEW t \in Servers, NEW u \in Services,
               <<t, u>> \in new /\ f.in = PodStartup /\ f.ev = Ready(t, u)
        PROVE  Known(f)
    BY <2>2, EventsDiffer DEF Events
  <2>3. ASSUME NEW t \in Servers, NEW u \in Services,
               <<t, u>> \in old /\ f.in = DrainWait(replica[t][u], work[u]) /\ f.ev = Terminated(t, u)
        PROVE  Known(f)
    BY <2>3, EventsDiffer DEF Events
  <2> HIDE DEF Known
  <2> QED  BY <1>6, <1>7, <2>1, <2>2, <2>3
<1>8. /\ \A t \in Servers : e.ev # BootDone(t) /\ e.ev # DrainDone(t)
      /\ \A t \in Servers, u \in Services : e.ev # Ready(t, u) /\ e.ev # Terminated(t, u)
      /\ \A f \in heap, t \in Servers, u \in Services : f.ev # Ready(t, u)
  BY <1>3, EventsDiffer DEF Settled
<1>9. TickOK' /\ \A f \in heap' : f.ev # DecisionTick
  <2>1. \A f \in heap' : f.ev \in Events /\ (f.ev = DecisionTick => f \in heap \ {e})
    BY <1>0, <1>7 DEF FleetOK, TickOK
  <2> QED  BY <1>0, <1>3, <1>4, <2>1, TickTaken
<1>10. ServersDue'
  BY <1>0, <1>4, <1>6, <1>8 DEF FleetOK, ServersDue
<1>11. Timely'
  <2>1. ASSUME NEW f \in heap', NEW t \in Servers, f.ev = BootDone(t)
        PROVE  f.in <= BootDelay
    BY <1>0, <1>7, <2>1 DEF FleetOK, Timely
  <2>2. ASSUME NEW f \in heap', NEW t \in Servers, NEW u \in Services, f.ev = Ready(t, u)
        PROVE  f.in <= PodStartup
    <3>1. PodStartup \in Nat /\ f \notin heap
      BY <1>8, <2>2, DelaysType
    <3>2. f.in = PodStartup
      BY <1>7, <2>2, <3>1
    <3> QED  BY <3>1, <3>2
  <2> QED  BY <1>9, <2>1, <2>2 DEF Timely
<1>12. StartingOK'
  <2>1. ASSUME NEW f \in heap', NEW t \in Servers, NEW u \in Services, f.ev = Ready(t, u)
        PROVE  /\ state'[t] = "ACTIVE" /\ replica'[t][u].state = "STARTING"
               /\ \A g \in heap' : g.ev = Ready(t, u) => g = f
    <3>1. f \notin heap \ {e} /\ \A g \in heap' : g.ev = Ready(t, u) => g \notin heap \ {e}
      BY <1>8, <2>1
    <3>2. <<t, u>> \in new /\ f.in = PodStartup /\ \A g \in heap' : g.ev = Ready(t, u) => g.in = PodStartup
      BY <1>7, <2>1, <3>1
    <3> QED  BY <1>4, <1>5, <1>6, <2>1, <3>1, <3>2
  <2>2. ASSUME NEW t \in Servers, NEW u \in Services, replica'[t][u].state = "STARTING"
        PROVE  state'[t] = "ACTIVE" /\ \E f \in heap' : f.ev = Ready(t, u)
    <3>1. <<t, u>> \in new
      BY <1>4, <1>5, <2>2
    <3> QED  BY <1>4, <1>5, <1>6, <3>1
  <2> QED  BY <2>1, <2>2 DEF StartingOK
<1>13. TerminationsOK'
  <2>1. ASSUME NEW f \in heap, NEW t \in Servers, Stale(f, t)
        PROVE  Stale(f, t)' /\ t # s
    <3>1. f.in = 0 /\ state[t] # "ACTIVE" /\ t # s
      BY <1>3, <1>4, <2>1 DEF Stale, Settled
    <3>2. \A b \in heap' : b.ev = BootDone(t) => b.in > 0
      BY <1>7, <2>1 DEF Stale
    <3> QED  BY <1>4, <3>1, <3>2 DEF Stale
  <2>2. ASSUME NEW f \in heap, NEW t \in Servers, NEW u \in Services, f.ev = Terminated(t, u)
        PROVE  \/ /\ replica[t][u].state = "DRAINING" /\ replica[t][u].left <= f.in
                  /\ f.in = replica[t][u].left \/ f.in <= Graceful
                  /\ \A g \in heap : g.ev = Terminated(t, u) /\ g # f =>
                       state[t] = "DRAINING" /\ f.in = g.in
               \/ replica[t][u].state = "NONE" /\ Stale(f, t)'  /\ t # s
    <3>1. ~Soon(f)
      BY <1>3 DEF Settled
    <3> QED  BY <1>0, <2>1, <2>2, <3>1 DEF FleetOK, TerminationsOK
  <2>3. ASSUME NEW f \in heap', NEW t \in Servers, NEW u \in Services, f.ev = Terminated(t, u)
        PROVE  \/ /\ replica'[t][u].state = "DRAINING"
                  /\ replica'[t][u].left <= f.in
                  /\ f.in = replica'[t][u].left \/ f.in <= Graceful
                  /\ \A g \in heap' : g.ev = Terminated(t, u) /\ g # f =>
                       state'[t] = "DRAINING" /\ (f.in = g.in \/ Soon(f)')
               \/ replica'[t][u].state = "NONE" /\ Stale(f, t)'
    <3>1. CASE <<t, u>> \in old
      <4> DEFINE left == Left(replica[t][u], work[u])
                 wait == DrainWait(replica[t][u], work[u])
      <4>1. /\ t = s /\ replica[t][u].state # "NONE" /\ state'[t] = "DRAINING"
            /\ replica'[t][u].state = "DRAINING" /\ replica'[t][u].left = left
        BY <1>4, <1>5, <3>1
      <4>2. left \in Nat /\ replica[t][u].left \in Nat /\ Graceful \in Nat
        BY <1>0, <1>4, DelaysType DEF Left, Basics
      <4>3. wait = IF left > Graceful THEN left ELSE Graceful
        BY DEF DrainWait
      <4>a. ASSUME NEW g \in heap', g.ev = Terminated(t, u), g \notin heap \ {e}
            PROVE  g.in = wait
        BY <1>7, <4>a
      <4>4. ASSUME NEW g \in heap', g.ev = Terminated(t, u)
            PROVE  \/ g \notin heap \ {e} /\ g.in = wait
                   \/ /\ g \in heap /\ left <= g.in /\ (g.in = left \/ g.in <= Graceful)
                      /\ \A x \in heap : x.ev = Terminated(t, u) => x = g
        <5>1. CASE g \notin heap \ {e}
          BY <4>4, <4>a, <5>1
        <5>2. CASE g \in heap \ {e}
          <6>1. /\ replica[t][u].state = "DRAINING" /\ replica[t][u].left <= g.in
                /\ g.in = replica[t][u].left \/ g.in <= Graceful
                /\ \A x \in heap : x.ev = Terminated(t, u) => x = g
            BY <1>4, <2>2, <4>1, <4>4, <5>2
          <6>2. left = replica[t][u].left
            BY <6>1 DEF Left
          <6> QED  BY <5>2, <6>1, <6>2
        <5> QED  BY <5>1, <5>2
      <4>5. \A g \in heap' : g.ev = Terminated(t, u) => g.in \in Nat
        BY <1>0 DEF Basics
      <4>6. Soon(f)' <=> f.in <= Graceful
        BY <1>4 DEF Soon
      <4> HIDE DEF left, wait
      <4>7. left <= f.in /\ (f.in = left \/ f.in <= Graceful)
        BY <2>3, <4>2, <4>3, <4>4, <4>5
      <4>8. ASSUME NEW g \in heap', g.ev = Terminated(t, u), g # f
            PROVE  f.in = g.in \/ f.in <= Graceful
        <5>1. f.in \in Nat /\ g.in \in Nat
          BY <2>3, <4>5, <4>8
        <5>2. CASE f \notin heap \ {e} /\ g \notin heap \ {e}
          BY <2>3, <4>8, <4>a, <5>2
        <5>a. f.ev = Terminated(t, u) /\ f \in heap' /\ g \in heap'
          BY <2>3, <4>8
        <5>b. ASSUME f \in heap, g \in heap, g \in heap \ {e}
              PROVE  f = g
          <6>1. \A x \in heap : x.ev = Terminated(t, u) => x = g
            BY <4>4, <4>8, <5>a, <5>b
          <6> QED  BY <5>a, <5>b, <6>1
        <5>3. ~(f \in heap \ {e} /\ g \in heap \ {e})
          BY <4>8, <5>b
        <5>4. CASE f \in heap \ {e} /\ g \notin heap \ {e}
          BY <2>3, <4>2, <4>3, <4>4, <4>8, <5>1, <5>4
        <5>5. CASE f \notin heap \ {e} /\ g \in heap \ {e}
          BY <2>3, <4>2, <4>3, <4>4, <4>8, <5>1, <5>5
        <5> QED  BY <5>2, <5>3, <5>4, <5>5
      <4> QED  BY <4>1, <4>6, <4>7, <4>8
    <3>2. CASE <<t, u>> \in new
      <4>1. f \in heap
        BY <1>5, <1>7, <2>3, <3>2
      <4>2. state[t] = "ACTIVE" /\ replica[t][u].state = "NONE"
        BY <1>5, <3>2
      <4>3. Stale(f, t)
        BY <1>0, <2>3, <4>1, <4>2 DEF FleetOK, TerminationsOK
      <4> QED  BY <4>2, <4>3 DEF Stale
    <3>3. CASE <<t, u>> \notin old /\ <<t, u>> \notin new
      <4>1. replica'[t][u] = replica[t][u] /\ f \in heap
            /\ \A g \in heap' : g.ev = Terminated(t, u) => g \in heap
        BY <1>5, <1>7, <2>3, <3>3
      <4>2. state[t] = "DRAINING" => state'[t] = "DRAINING"
        BY <1>4
      <4> QED  BY <2>2, <2>3, <4>1, <4>2
    <3> QED  BY <3>1, <3>2, <3>3
  <2>4. ASSUME NEW t \in Servers, NEW u \in Services, replica'[t][u].state = "DRAINING"
        PROVE  \E f \in heap' : f.ev = Terminated(t, u)
    <3>1. CASE <<t, u>> \in old
      BY <1>6, <3>1
    <3>2. CASE <<t, u>> \notin old
      <4>1. replica[t][u].state = "DRAINING"
        BY <1>5, <2>4, <3>2
      <4> QED  BY <1>0, <1>6, <1>8, <4>1 DEF FleetOK, TerminationsOK
    <3> QED  BY <3>1, <3>2
  <2> QED  BY <2>3, <2>4 DEF TerminationsOK
<1>14. PendingOK'
  <2> SUFFICES ASSUME NEW t \in Servers, NEW u \in Services, pending'[t][u] # None
               PROVE  /\ replica'[t][u].state = "STARTING" /\ state'[t] = "ACTIVE"
                      /\ state'[pending'[t][u]] = "DRAINING"
                      /\ \A o \in Servers : pending'[o][u] = pending'[t][u] => o = t
                      /\ \A o \in Servers : replica'[o][u].state = "READY" => o = pending'[t][u]
                      /\ \A f, g \in heap' : f.ev = Ready(t, u) /\ g.ev = DrainDone(pending'[t][u]) => f.in < g.in
    BY DEF PendingOK
  <2>1. <<t, u>> \in new /\ pending'[t][u] = s
    BY <1>5
  <2>2. replica'[t][u].state = "STARTING" /\ state'[t] = "ACTIVE" /\ state'[s] = "DRAINING"
    BY <1>4, <1>5, <2>1
  <2>3. \A o \in Servers : pending'[o][u] = s => o = t
    <3>1. None # s
      BY ServersAssumption
    <3> QED  BY <1>5, <2>1, <3>1
  <2>4. ASSUME NEW o \in Servers, o # s, replica'[o][u].state = "READY"
        PROVE  FALSE
    <3>1. replica[o][u].state = "NONE"
      BY <1>5, <2>1, <2>4
    <3> QED  BY <1>5, <2>4, <3>1
  <2>5. ASSUME NEW f \in heap', NEW g \in heap', f.ev = Ready(t, u), g.ev = DrainDone(s)
        PROVE  f.in < g.in
    <3>1. f.in = PodStartup
      BY <1>7, <1>8, <2>5
    <3>2. g \notin heap
      BY <1>0, <1>4, <2>5 DEF Basics
    <3>3. g.in = DrainGrace
      BY <1>7, <2>5, <3>2
    <3> QED  BY <3>1, <3>3, OrderAssumption, DelaysType
  <2> QED  BY <2>1, <2>2, <2>3, <2>4, <2>5
<1>15. IdleServersHostNothing'
  <2>1. ASSUME NEW t \in Servers, NEW u \in Services, state'[t] \in {"OFF", "BOOTING"}
        PROVE  replica'[t][u] = replica[t][u] /\ state'[t] = state[t]
    <3>1. state'[t] = state[t] /\ t # s /\ state[t] # "ACTIVE"
      BY <1>4, <2>1
    <3> QED  BY <1>5, <3>1
  <2> QED  BY <1>0, <2>1 DEF FleetOK, IdleServersHostNothing, Hosts
<1> QED
  BY <1>9, <1>10, <1>11, <1>12, <1>13, <1>14, <1>15 DEF FleetOK

----------------------------------------------------------------------------
(* The scale decisions, and the tick that the last one schedules.          *)

\* The heap after service v: h, and after the last service the next tick, later
\* than anything that is about to happen.
LEMMA EndsTurn ==
  ASSUME SimInv, NEW v \in Services, turn = v, NEW h, EndScale(v, h), heap \subseteq h,
         \A f \in h \ heap : f.ev \in Events \ {DecisionTick}
  PROVE  /\ TickOK' /\ h \subseteq heap' /\ turn # 0
         /\ \A f \in heap' : f \in h \/ (f.ev = DecisionTick /\ f.in = DecisionInterval)
         /\ \A f \in h : f.ev # DecisionTick
         /\ \A f \in h : f.in \in Nat /\ f.in <= Graceful => Soon(f)'
<1>0. FleetOK /\ turn # 0 /\ v \in Nat
  BY ServicesAssumption DEF SimInv, Services
<1>1. \A f \in h : f.ev \in Events /\ f.ev # DecisionTick
  BY <1>0 DEF FleetOK, TickOK
<1>2. CASE v # NServices
  <2>1. heap' = h /\ turn' = v + 1
    BY <1>2 DEF EndScale
  <2>2. turn' # 0
    BY <1>0, <2>1
  <2>3. Events' = Events
    BY DEF Events, DecisionTick, BootDone, DrainDone, Ready, Terminated, Event
  <2>4. TickOK'
    BY <1>1, <2>1, <2>2, <2>3 DEF TickOK
  <2>5. \A f \in h : f.in <= Graceful => Soon(f)'
    BY <2>1, <2>2 DEF Soon
  <2> QED  BY <1>0, <1>1, <2>1, <2>4, <2>5
<1>3. CASE v = NServices
  <2>1. heap' = Push(h, {<<DecisionInterval, DecisionTick>>}) /\ turn' = 0
    BY <1>3 DEF EndScale
  <2> DEFINE b == <<DecisionInterval, DecisionTick>>
  <2>2. Adds(h, heap', {b})
    BY <2>1, PushAdds
  <2>3. \A f \in heap' : f \in h \/ <<f.in, f.ev>> = b
    BY <2>2 DEF Adds
  <2>4. ASSUME NEW f \in heap', f \notin h
        PROVE  f.ev = DecisionTick /\ f.in = DecisionInterval
    <3>1. <<f.in, f.ev>> = <<DecisionInterval, DecisionTick>>
      BY <2>3, <2>4
    <3> QED  BY <3>1
  <2>5. \E k \in heap' : k.in = b[1] /\ k.ev = b[2]
    BY <2>2 DEF Adds
  <2>6. PICK k \in heap' : k.in = DecisionInterval /\ k.ev = DecisionTick
    BY <2>5
  <2>7. \A f \in heap' : f.ev = DecisionTick => f = k
    BY <1>1, <2>2, <2>4, <2>6 DEF Adds
  <2>8. TickOK'
    <3>1. Events' = Events /\ DecisionTick \in Events
      BY DEF Events, DecisionTick, BootDone, DrainDone, Ready, Terminated, Event
    <3> QED  BY <1>1, <2>1, <2>4, <2>6, <2>7, <3>1 DEF TickOK
  <2>9. ASSUME NEW f \in h, f.in \in Nat, f.in <= Graceful
        PROVE  Soon(f)'
    <3>1. f.in < k.in
      BY <2>6, <2>9, OrderAssumption, DelaysType
    <3> QED  BY <2>1, <2>6, <3>1 DEF Soon
  <2> QED  BY <1>0, <1>1, <2>2, <2>4, <2>8, <2>9 DEF Adds
<1> QED
  BY <1>2, <1>3

\* What a scale decision leaves alone: the servers, their events and what is due.
LEMMA EndsServers ==
  ASSUME SimInv, Inv', NEW v \in Services, turn = v, NEW h, EndScale(v, h), heap \subseteq h,
         \A f \in h \ heap : /\ f.ev \in Events \ {DecisionTick}
                             /\ \A t \in Servers : f.ev # BootDone(t) /\ f.ev # DrainDone(t)
                             /\ \A t \in Servers, u \in Services : f.ev = Ready(t, u) => f.in = PodStartup,
         state' = state
  PROVE  ServersDue' /\ Timely' /\ \A f \in heap, t \in Servers : Stale(f, t) => Stale(f, t)'
<1>0. Basics /\ Basics' /\ FleetOK
  BY BasicsHold, BasicsNext DEF SimInv
<1>1. /\ TickOK' /\ h \subseteq heap' /\ turn # 0
      /\ \A f \in heap' : f \in h \/ (f.ev = DecisionTick /\ f.in = DecisionInterval)
      /\ \A f \in h : f.ev # DecisionTick
  BY EndsTurn
<1>2. ServersDue'
  BY <1>0, <1>1 DEF FleetOK, ServersDue
<1>3. ASSUME NEW f \in heap', NEW t \in Servers
      PROVE  /\ f.ev = BootDone(t) \/ f.ev = DrainDone(t) => f \in heap
             /\ \A u \in Services : f.ev = Ready(t, u) => f \in h /\ (f \in heap \/ f.in = PodStartup)
  <2>1. DecisionTick # BootDone(t) /\ DecisionTick # DrainDone(t)
        /\ \A u \in Services : DecisionTick # Ready(t, u)
    BY EventsDiffer
  <2> QED  BY <1>1, <2>1
<1>4. Timely'
  <2>1. /\ BootDelay \in Nat /\ PodStartup \in Nat /\ DecisionInterval \in Nat
        /\ BootDelay + PodStartup < DecisionInterval
    BY OrderAssumption, DelaysType
  <2>2. \A k \in heap' : k.ev = DecisionTick => k.in = DecisionInterval
    BY <1>1
  <2>3. ASSUME NEW f \in heap', NEW t \in Servers, f.ev = BootDone(t)
        PROVE  f.in <= BootDelay /\ f.in + PodStartup < DecisionInterval
    <3>1. f.in <= BootDelay /\ f.in \in Nat
      BY <1>0, <1>3, <2>3 DEF FleetOK, Timely, Basics
    <3> QED  BY <2>1, <3>1
  <2>4. ASSUME NEW f \in heap', NEW t \in Servers, NEW u \in Services, f.ev = Ready(t, u)
        PROVE  f.in <= PodStartup /\ f.in < DecisionInterval
    <3>1. f.in <= PodStartup /\ f.in \in Nat
      BY <1>0, <1>3, <2>1, <2>4 DEF FleetOK, Timely, Basics
    <3> QED  BY <2>1, <3>1
  <2> QED  BY <2>2, <2>3, <2>4 DEF Timely
<1>5. ASSUME NEW f \in heap, NEW t \in Servers, Stale(f, t)
      PROVE  Stale(f, t)'
  BY <1>1, <1>3, <1>5 DEF Stale
<1> QED
  BY <1>2, <1>4, <1>5

\* NO_CHANGE, or a decision that a gate skips.
LEMMA NoScaleFleet ==
  ASSUME SimInv, Inv', NEW v \in Services, NoScale(v)
  PROVE  FleetOK'
<1>0. Basics /\ Basics' /\ FleetOK
  BY BasicsHold, BasicsNext DEF SimInv
<1>1. turn = v /\ EndScale(v, heap) /\ state' = state /\ replica' = replica /\ pending' = pending
  BY DEF NoScale
<1>2. /\ TickOK' /\ heap \subseteq heap' /\ turn # 0
      /\ \A f \in heap' : f \in heap \/ (f.ev = DecisionTick /\ f.in = DecisionInterval)
      /\ \A f \in heap : f.ev # DecisionTick
      /\ \A f \in heap : f.in \in Nat /\ f.in <= Graceful => Soon(f)'
  BY <1>1, EndsTurn
<1>3. ServersDue' /\ Timely' /\ \A f \in heap, t \in Servers : Stale(f, t) => Stale(f, t)'
  BY <1>1, EndsServers
<1>4. ASSUME NEW f \in heap', NEW t \in Servers, NEW u \in Services
      PROVE  f.ev = Ready(t, u) \/ f.ev = Terminated(t, u) \/ f.ev = DrainDone(t) => f \in heap
  <2>1. DecisionTick # Ready(t, u) /\ DecisionTick # Terminated(t, u) /\ DecisionTick # DrainDone(t)
    BY EventsDiffer
  <2> QED  BY <1>2, <2>1
<1>5. StartingOK'
  BY <1>0, <1>1, <1>2, <1>4 DEF FleetOK, StartingOK
<1>6. TerminationsOK'
  <2>1. ASSUME NEW f \in heap, Soon(f)
        PROVE  Soon(f)'
    BY <1>0, <1>2, <2>1 DEF Soon, Basics
  <2> QED  BY <1>0, <1>1, <1>2, <1>3, <1>4, <2>1 DEF FleetOK, TerminationsOK
<1>7. PendingOK'
  <2> SUFFICES ASSUME NEW t \in Servers, NEW u \in Services, pending[t][u] # None
               PROVE  /\ \A o \in Servers : replica[o][u].state = "READY" => o = pending[t][u]
                      /\ \A f, g \in heap' : f.ev = Ready(t, u) /\ g.ev = DrainDone(pending[t][u]) => f.in < g.in
    BY <1>0, <1>1 DEF FleetOK, PendingOK
  <2>1. pending[t][u] \in Servers
    BY <1>0 DEF Basics
  <2> QED  BY <1>0, <1>2, <1>4, <2>1 DEF FleetOK, PendingOK
<1>8. IdleServersHostNothing'
  BY <1>0, <1>1 DEF FleetOK, IdleServersHostNothing, Hosts
<1> QED
  BY <1>2, <1>3, <1>5, <1>6, <1>7, <1>8 DEF FleetOK

\* SCALE_UP: the new replica has its one event, on an active server that hosted
\* none.
LEMMA ScaleUpFleet ==
  ASSUME SimInv, Inv', NEW v \in Services, NEW s \in Servers, ScaleUp(v, s)
  PROVE  FleetOK'
<1>0. Basics /\ Basics' /\ FleetOK
  BY BasicsHold, BasicsNext DEF SimInv
<1> DEFINE h == Push(heap, {<<PodStartup, Ready(s, v)>>})
           at == {<<s, v>>}
<1>1. /\ turn = v /\ EndScale(v, h) /\ state' = state /\ pending' = pending
      /\ replica' = Place(replica, at)
      /\ state[s] = "ACTIVE" /\ replica[s][v].state = "NONE"
  BY DEF ScaleUp, CanHost, Hosts
<1>2. Adds(heap, h, {<<PodStartup, Ready(s, v)>>})
  BY PushAdds
<1>13. \A t \in Servers, u \in Services : <<t, u>> \in at <=> t = s /\ u = v
  OBVIOUS
<1> HIDE DEF h, at
<1>3. /\ heap \subseteq h
      /\ \E f \in h : f.ev = Ready(s, v)
      /\ \A f \in h \ heap : f.in = PodStartup /\ f.ev = Ready(s, v)
      /\ \A f, g \in h \ heap : f = g
  <2>1. \A f \in h \ heap : <<f.in, f.ev>> = <<PodStartup, Ready(s, v)>>
    BY <1>2 DEF Adds
  <2>2. \E f \in h : f.ev = <<PodStartup, Ready(s, v)>>[2]
    BY <1>2 DEF Adds
  <2>3. ASSUME NEW f \in h \ heap
        PROVE  f.in = PodStartup /\ f.ev = Ready(s, v)
    <3>1. <<f.in, f.ev>> = <<PodStartup, Ready(s, v)>>
      BY <2>1
    <3> QED  BY <3>1
  <2> QED  BY <1>2, <2>2, <2>3 DEF Adds
<1>4. /\ replica'[s][v].state = "STARTING"
      /\ \A t \in Servers, u \in Services : ~(t = s /\ u = v) => replica'[t][u] = replica[t][u]
  <2>1. \A t \in Servers, u \in Services :
          replica'[t][u] = IF <<t, u>> \in at THEN Created ELSE replica[t][u]
    BY <1>1 DEF Place
  <2>2. replica'[s][v] = Created /\ Created.state = "STARTING"
    BY <1>13, <2>1 DEF Created
  <2>3. ASSUME NEW t \in Servers, NEW u \in Services, ~(t = s /\ u = v)
        PROVE  replica'[t][u] = replica[t][u]
    <3>1. <<t, u>> \notin at
      BY <1>13, <2>3
    <3> QED  BY <2>1, <3>1
  <2> QED  BY <2>2, <2>3
<1>5. ASSUME NEW f \in h \ heap
      PROVE  /\ f.ev \in Events \ {DecisionTick}
             /\ \A t \in Servers : f.ev # BootDone(t) /\ f.ev # DrainDone(t)
             /\ \A t \in Servers, u \in Services :
                  /\ f.ev # Terminated(t, u)
                  /\ f.ev = Ready(t, u) => f.in = PodStartup /\ t = s /\ u = v
  <2>1. f.in = PodStartup /\ f.ev = Ready(s, v)
    BY <1>3
  <2> QED  BY <2>1, EventsDiffer DEF Events
<1>6. /\ TickOK' /\ h \subseteq heap' /\ turn # 0
      /\ \A f \in heap' : f \in h \/ (f.ev = DecisionTick /\ f.in = DecisionInterval)
      /\ \A f \in h : f.ev # DecisionTick
      /\ \A f \in h : f.in \in Nat /\ f.in <= Graceful => Soon(f)'
  BY <1>1, <1>3, <1>5, EndsTurn
<1>7. ServersDue' /\ Timely' /\ \A f \in heap, t \in Servers : Stale(f, t) => Stale(f, t)'
  BY <1>1, <1>3, <1>5, EndsServers
<1>8. ASSUME NEW f \in heap', NEW t \in Servers, NEW u \in Services
      PROVE  /\ f.ev = Ready(t, u) => f \in h /\ (f \in heap \/ (t = s /\ u = v))
             /\ f.ev = Terminated(t, u) \/ f.ev = DrainDone(t) => f \in heap
  <2>1. DecisionTick # Ready(t, u) /\ DecisionTick # Terminated(t, u) /\ DecisionTick # DrainDone(t)
    BY EventsDiffer
  <2> QED  BY <1>5, <1>6, <2>1
<1>9. StartingOK'
  <2>1. ASSUME NEW f \in heap', NEW t \in Servers, NEW u \in Services, f.ev = Ready(t, u)
        PROVE  /\ state'[t] = "ACTIVE" /\ replica'[t][u].state = "STARTING"
               /\ \A g \in heap' : g.ev = Ready(t, u) => g = f
    <3>1. CASE t = s /\ u = v
      <4>1. \A g \in heap : g.ev # Ready(s, v)
        BY <1>0, <1>1 DEF FleetOK, StartingOK
      <4> QED  BY <1>1, <1>3, <1>4, <1>8, <2>1, <3>1, <4>1
    <3>2. CASE ~(t = s /\ u = v)
      BY <1>0, <1>1, <1>4, <1>8, <2>1, <3>2 DEF FleetOK, StartingOK
    <3> QED  BY <3>1, <3>2
  <2>2. ASSUME NEW t \in Servers, NEW u \in Services, replica'[t][u].state = "STARTING"
        PROVE  \/ state'[t] = "BOOTING"
               \/ state'[t] = "ACTIVE" /\ \E f \in heap' : f.ev = Ready(t, u)
    <3>1. CASE t = s /\ u = v
      BY <1>1, <1>3, <1>6, <3>1
    <3>2. CASE ~(t = s /\ u = v)
      BY <1>0, <1>1, <1>3, <1>4, <1>6, <2>2, <3>2 DEF FleetOK, StartingOK
    <3> QED  BY <3>1, <3>2
  <2> QED  BY <2>1, <2>2 DEF StartingOK
<1>10. TerminationsOK'
  <2>1. ASSUME NEW f \in heap, Soon(f)
        PROVE  Soon(f)'
    BY <1>0, <1>3, <1>6, <2>1 DEF Soon, Basics
  <2>2. \A f \in heap : f.ev # Terminated(s, v)
    <3> SUFFICES ASSUME NEW f \in heap, f.ev = Terminated(s, v) PROVE FALSE
      OBVIOUS
    <3>1. Stale(f, s)
      BY <1>0, <1>1 DEF FleetOK, TerminationsOK
    <3> QED  BY <1>1, <3>1 DEF Stale
  <2>3. ASSUME NEW f \in heap', NEW t \in Servers, NEW u \in Services, f.ev = Terminated(t, u)
        PROVE  f \in heap /\ replica'[t][u] = replica[t][u]
               /\ \A g \in heap' : g.ev = Terminated(t, u) => g \in heap
    BY <1>4, <1>8, <2>2, <2>3
  <2>4. ASSUME NEW t \in Servers, NEW u \in Services, replica'[t][u].state = "DRAINING"
        PROVE  \E f \in heap' : f.ev = Terminated(t, u)
    <3>1. replica[t][u].state = "DRAINING"
      BY <1>4, <2>4
    <3> QED  BY <1>0, <1>3, <1>6, <3>1 DEF FleetOK, TerminationsOK
  <2>5. ASSUME NEW f \in heap', NEW t \in Servers, NEW u \in Services, f.ev = Terminated(t, u)
        PROVE  \/ /\ replica'[t][u].state = "DRAINING"
                  /\ replica'[t][u].left <= f.in
                  /\ f.in = replica'[t][u].left \/ f.in <= Graceful
                  /\ \A g \in heap' : g.ev = Terminated(t, u) /\ g # f =>
                       state'[t] = "DRAINING" /\ (f.in = g.in \/ Soon(f)')
               \/ replica'[t][u].state = "NONE" /\ Stale(f, t)'
    BY <1>0, <1>1, <1>7, <2>1, <2>3, <2>5 DEF FleetOK, TerminationsOK
  <2> QED  BY <2>4, <2>5 DEF TerminationsOK
<1>11. PendingOK'
  <2> SUFFICES ASSUME NEW t \in Servers, NEW u \in Services, pending[t][u] # None
               PROVE  /\ replica'[t][u].state = "STARTING"
                      /\ \A o \in Servers : replica'[o][u].state = "READY" => o = pending[t][u]
                      /\ \A f, g \in heap' : f.ev = Ready(t, u) /\ g.ev = DrainDone(pending[t][u]) => f.in < g.in
    BY <1>0, <1>1 DEF FleetOK, PendingOK
  <2>1. pending[t][u] \in Servers /\ replica[t][u].state = "STARTING" /\ ~(t = s /\ u = v)
    BY <1>0, <1>1 DEF Basics, FleetOK, PendingOK
  <2>2. \A o \in Servers : replica'[o][u].state = "READY" => replica[o][u].state = "READY"
    BY <1>4
  <2> QED  BY <1>0, <1>4, <1>6, <1>8, <2>1, <2>2 DEF FleetOK, PendingOK
<1>12. IdleServersHostNothing'
  <2>1. ASSUME NEW t \in Servers, NEW u \in Services, state[t] \in {"OFF", "BOOTING"}
        PROVE  replica'[t][u] = replica[t][u]
    BY <1>1, <1>4, <2>1
  <2> QED  BY <1>0, <1>1, <2>1 DEF FleetOK, IdleServersHostNothing, Hosts
<1> QED
  BY <1>6, <1>7, <1>9, <1>10, <1>11, <1>12 DEF FleetOK

\* SCALE_DOWN: a READY replica drains, with its one event.
LEMMA ScaleDownFleet ==
  ASSUME SimInv, Inv', NEW v \in Services, NEW s \in Servers, ScaleDown(v, s)
  PROVE  FleetOK'
<1>0. Basics /\ Basics' /\ FleetOK /\ ReplicasOK(replica)
  BY BasicsHold, BasicsNext, TypePartsOK DEF SimInv, Inv, TypeParts
<1> DEFINE at == {<<s, v>>}
<1>1. PICK w \in Backlogs :
        LET work == [u \in Services |-> w]
        IN /\ turn = v /\ s \in ReadyOf(v)
           /\ replica' = Draining(replica, at, work)
           /\ EndScale(v, Push(heap, TerminationsOf(at, work)))
           /\ UNCHANGED <<state, pending>>
  BY DEF ScaleDown
<1> DEFINE work == [u \in Services |-> w]
           h == Push(heap, TerminationsOf(at, work))
<1>2. /\ turn = v /\ EndScale(v, h) /\ state' = state /\ pending' = pending
      /\ replica' = Draining(replica, at, work)
      /\ replica[s][v].state = "READY" /\ w \in Nat
      /\ work[v] = w /\ at \in SUBSET (Servers \X Services)
  BY <1>1, DelaysAssumption DEF ReadyOf
<1>3. \A t \in Servers, u \in Services : <<t, u>> \in at <=> t = s /\ u = v
  OBVIOUS
<1> HIDE DEF at, work
<1>4. AddsTerminations(heap, h, at, work)
  BY <1>2, TerminationsAre
<1> HIDE DEF h
<1> DEFINE wait == DrainWait(replica[s][v], work[v])
<1>5. /\ heap \subseteq h
      /\ \E f \in h : f.ev = Terminated(s, v)
      /\ \A f \in h \ heap : f.in = wait /\ f.ev = Terminated(s, v)
      /\ \A f, g \in h \ heap : f = g
  <2>1. ASSUME NEW f \in h \ heap
        PROVE  f.in = wait /\ f.ev = Terminated(s, v)
    <3>1. PICK t \in Servers, u \in Services :
            <<t, u>> \in at /\ f.in = DrainWait(replica[t][u], work[u]) /\ f.ev = Terminated(t, u)
      BY <1>4 DEF AddsTerminations
    <3>2. t = s /\ u = v
      BY <1>3, <3>1
    <3> QED  BY <3>1, <3>2
  <2>2. \E f \in h : f.ev = Terminated(s, v)
    BY <1>3, <1>4 DEF AddsTerminations
  <2> HIDE DEF wait
  <2> QED  BY <1>4, <2>1, <2>2 DEF AddsTerminations
<1>6. /\ replica'[s][v].state = "DRAINING" /\ replica'[s][v].left = w
      /\ \A t \in Servers, u \in Services : ~(t = s /\ u = v) => replica'[t][u] = replica[t][u]
  <2>1. ASSUME NEW t \in Servers, NEW u \in Services
        PROVE  IF <<t, u>> \in at
                 THEN replica'[t][u].state = "DRAINING" /\ replica'[t][u].left = Left(replica[t][u], work[u])
                 ELSE replica'[t][u] = replica[t][u]
    BY <1>0, <1>2, DrainingIs
  <2> QED  BY <1>2, <1>3, <2>1 DEF Left
<1>7. w <= wait /\ (wait = w \/ wait <= Graceful)
  <2>1. Left(replica[s][v], work[v]) = w
    BY <1>2 DEF Left
  <2> QED  BY <1>2, <2>1, DrainWaitIs
<1> HIDE DEF wait
<1>8. ASSUME NEW f \in h \ heap
      PROVE  /\ f.ev \in Events \ {DecisionTick}
             /\ \A t \in Servers : f.ev # BootDone(t) /\ f.ev # DrainDone(t)
             /\ \A t \in Servers, u \in Services :
                  f.ev # Ready(t, u) /\ (f.ev = Terminated(t, u) => t = s /\ u = v)
  <2>1. f.ev = Terminated(s, v)
    BY <1>5
  <2> QED  BY <2>1, EventsDiffer DEF Events
<1>9. /\ TickOK' /\ h \subseteq heap' /\ turn # 0
      /\ \A f \in heap' : f \in h \/ (f.ev = DecisionTick /\ f.in = DecisionInterval)
      /\ \A f \in h : f.ev # DecisionTick
      /\ \A f \in h : f.in \in Nat /\ f.in <= Graceful => Soon(f)'
  BY <1>2, <1>5, <1>8, EndsTurn
<1>10. ServersDue' /\ Timely' /\ \A f \in heap, t \in Servers : Stale(f, t) => Stale(f, t)'
  BY <1>2, <1>5, <1>8, EndsServers
<1>11. ASSUME NEW f \in heap', NEW t \in Servers, NEW u \in Services
       PROVE  /\ f.ev = Terminated(t, u) => f \in h /\ (f \in heap \/ (t = s /\ u = v))
              /\ f.ev = Ready(t, u) \/ f.ev = DrainDone(t) => f \in heap
  <2>1. DecisionTick # Ready(t, u) /\ DecisionTick # Terminated(t, u) /\ DecisionTick # DrainDone(t)
    BY EventsDiffer
  <2> QED  BY <1>8, <1>9, <2>1
<1>12. StartingOK'
  <2>1. ASSUME NEW t \in Servers, NEW u \in Services
        PROVE  replica'[t][u].state = "STARTING" <=> replica[t][u].state = "STARTING"
    BY <1>2, <1>6
  <2>2. ASSUME NEW f \in heap', NEW t \in Servers, NEW u \in Services, f.ev = Ready(t, u)
        PROVE  /\ state'[t] = "ACTIVE" /\ replica'[t][u].state = "STARTING"
               /\ \A g \in heap' : g.ev = Ready(t, u) => g = f
    BY <1>0, <1>2, <1>11, <2>1, <2>2 DEF FleetOK, StartingOK
  <2>3. ASSUME NEW t \in Servers, NEW u \in Services, replica'[t][u].state = "STARTING"
        PROVE  \/ state'[t] = "BOOTING"
               \/ state'[t] = "ACTIVE" /\ \E f \in heap' : f.ev = Ready(t, u)
    BY <1>0, <1>2, <1>5, <1>9, <2>1, <2>3 DEF FleetOK, StartingOK
  <2> QED  BY <2>2, <2>3 DEF StartingOK
<1>13. TerminationsOK'
  <2>1. ASSUME NEW f \in heap, Soon(f)
        PROVE  Soon(f)'
    BY <1>0, <1>5, <1>9, <2>1 DEF Soon, Basics
  <2>2. \A f \in heap : f.ev # Terminated(s, v)
    BY <1>0, <1>2 DEF FleetOK, TerminationsOK
  <2>3. ASSUME NEW f \in heap', NEW t \in Servers, NEW u \in Services, f.ev = Terminated(t, u)
        PROVE  \/ /\ replica'[t][u].state = "DRAINING"
                  /\ replica'[t][u].left <= f.in
                  /\ f.in = replica'[t][u].left \/ f.in <= Graceful
                  /\ \A g \in heap' : g.ev = Terminated(t, u) /\ g # f =>
                       state'[t] = "DRAINING" /\ (f.in = g.in \/ Soon(f)')
               \/ replica'[t][u].state = "NONE" /\ Stale(f, t)'
    <3>1. CASE t = s /\ u = v
      <4>1. \A g \in heap' : g.ev = Terminated(s, v) => g \in h \ heap
        BY <1>11, <2>2
      <4> QED  BY <1>5, <1>6, <1>7, <2>3, <3>1, <4>1
    <3>2. CASE ~(t = s /\ u = v)
      <4>1. f \in heap /\ replica'[t][u] = replica[t][u]
            /\ \A g \in heap' : g.ev = Terminated(t, u) => g \in heap
        BY <1>6, <1>11, <2>3, <3>2
      <4> QED  BY <1>0, <1>2, <1>10, <2>1, <2>3, <4>1 DEF FleetOK, TerminationsOK
    <3> QED  BY <3>1, <3>2
  <2>4. ASSUME NEW t \in Servers, NEW u \in Services, replica'[t][u].state = "DRAINING"
        PROVE  \E f \in heap' : f.ev = Terminated(t, u)
    <3>1. CASE t = s /\ u = v
      BY <1>5, <1>9, <3>1
    <3>2. CASE ~(t = s /\ u = v)
      BY <1>0, <1>5, <1>6, <1>9, <2>4, <3>2 DEF FleetOK, TerminationsOK
    <3> QED  BY <3>1, <3>2
  <2> QED  BY <2>3, <2>4 DEF TerminationsOK
<1>14. PendingOK'
  <2> SUFFICES ASSUME NEW t \in Servers, NEW u \in Services, pending[t][u] # None
               PROVE  /\ replica'[t][u].state = "STARTING"
                      /\ \A o \in Servers : replica'[o][u].state = "READY" => o = pending[t][u]
                      /\ \A f, g \in heap' : f.ev = Ready(t, u) /\ g.ev = DrainDone(pending[t][u]) => f.in < g.in
    BY <1>0, <1>2 DEF FleetOK, PendingOK
  <2>1. pending[t][u] \in Servers /\ replica[t][u].state = "STARTING" /\ ~(t = s /\ u = v)
    BY <1>0, <1>2 DEF Basics, FleetOK, PendingOK
  <2>2. \A o \in Servers : replica'[o][u].state = "READY" => replica[o][u].state = "READY"
    BY <1>6
  <2> QED  BY <1>0, <1>6, <1>9, <1>11, <2>1, <2>2 DEF FleetOK, PendingOK
<1>15. IdleServersHostNothing'
  <2>1. state[s] \notin {"OFF", "BOOTING"}
    BY <1>0, <1>2 DEF FleetOK, IdleServersHostNothing, Hosts
  <2>2. ASSUME NEW t \in Servers, NEW u \in Services, state[t] \in {"OFF", "BOOTING"}
        PROVE  replica'[t][u] = replica[t][u]
    BY <1>6, <2>1, <2>2
  <2> QED  BY <1>0, <1>2, <2>2 DEF FleetOK, IdleServersHostNothing, Hosts
<1> QED
  BY <1>9, <1>10, <1>12, <1>13, <1>14, <1>15 DEF FleetOK

\* Every step keeps the invariant.
LEMMA NextFleet == SimInv /\ [Next]_vars => SimInv'
<1> SUFFICES ASSUME SimInv, [Next]_vars PROVE SimInv'
  OBVIOUS
<1>1. Inv'
  BY NextInv DEF SimInv
<1> SUFFICES FleetOK'
  BY <1>1 DEF SimInv
<1>2. CASE AdvanceClock
  BY <1>1, <1>2, AdvanceFleet
<1>3. CASE HandleEvent
  BY <1>1, <1>3, BootDoneFleet, DrainNotDoneFleet, DrainDoneFleet, ReadyFleet, TerminatedFleet
     DEF HandleEvent
<1>4. CASE Provision
  BY <1>1, <1>4, NoProvisioningFleet, TurnOnFleet, TurnOffFleet, AbortTurnOffFleet DEF Provision
<1>5. CASE Scale
  BY <1>1, <1>5, NoScaleFleet, ScaleUpFleet, ScaleDownFleet DEF Scale
<1>6. CASE UNCHANGED vars
  <2>1. UNCHANGED <<heap, state, replica, pending, turn>>
    BY <1>6 DEF vars
  <2>2. Active' = Active /\ Events' = Events
    BY <2>1 DEF Active, Events, DecisionTick, BootDone, DrainDone, Ready, Terminated, Event
  <2>3. TickOK' /\ ServersDue' /\ Timely' /\ StartingOK'
    BY <2>1, <2>2 DEF SimInv, FleetOK, TickOK, ServersDue, Timely, StartingOK
  <2>4. TerminationsOK' /\ PendingOK' /\ IdleServersHostNothing'
    BY <2>1 DEF SimInv, FleetOK, TerminationsOK, Stale, Soon, PendingOK, IdleServersHostNothing, Hosts
  <2> QED  BY <2>3, <2>4 DEF FleetOK
<1> QED
  BY <1>2, <1>3, <1>4, <1>5, <1>6 DEF Next

LEMMA SimInvAlways == Spec => []SimInv
<1> QED
  BY InitFleet, NextFleet, PTL DEF Spec

----------------------------------------------------------------------------
(* What one step may do to one replica.                                    *)

\* A replica that serves begins to drain only when its migration's target is
\* READY, or when another replica of the service stays and no migration from this
\* one is pending.
MayBeginDrain(s, v) ==
  \/ \E t \in Servers : pending[t][v] = s /\ replica'[t][v].state = "READY"
  \/ /\ \A t \in Servers : pending[t][v] # s
     /\ \E o \in Servers \ {s} : /\ replica[o][v].state \in {"READY", "DRAINING"}
                                 /\ replica'[o][v].state = replica[o][v].state

\* The life of a replica: created, READY, DRAINING until its queue is empty, gone.
LifeCycle(s, v) ==
  \/ replica'[s][v].state = replica[s][v].state
  \/ replica[s][v].state = "NONE" /\ replica'[s][v].state = "STARTING"
  \/ replica[s][v].state = "STARTING" /\ replica'[s][v].state = "READY"
  \/ replica[s][v].state = "READY" /\ replica'[s][v].state = "DRAINING" /\ MayBeginDrain(s, v)
  \/ replica[s][v].state = "DRAINING" /\ replica[s][v].left = 0 /\ replica'[s][v].state = "NONE"

LEMMA AdvanceLife ==
  ASSUME SimInv, AdvanceClock, NEW s \in Servers, NEW v \in Services
  PROVE  replica'[s][v].state = replica[s][v].state
<1>1. PICK now \in heap : AdvanceBy(now.in)
  BY AdvanceCases
<1>2. replica'[s][v] = IF Hosts(s, v) THEN Aged(replica[s][v], now.in) ELSE Absent
  BY <1>1 DEF AdvanceBy
<1>3. replica[s][v] \in ReplicaRecord
  BY DEF SimInv, Inv, TypeOK
<1> QED
  BY <1>2, <1>3 DEF Aged, Absent, Hosts, ReplicaRecord

LEMMA ReadyLife ==
  ASSUME SimInv, NEW p \in Servers, NEW q \in Services, HandleReplicaReady(p, q),
         NEW s \in Servers, NEW v \in Services
  PROVE  LifeCycle(s, v)
<1>0. Basics /\ FleetOK /\ ReplicasOK(replica)
  BY BasicsHold, TypePartsOK DEF SimInv, Inv, TypeParts
<1>1. PICK e \in heap : \E w \in Backlogs : \E old : ReadyWith(p, q, e, w, old)
  BY ReadyCases
<1>2. PICK w \in Backlogs : \E old : ReadyWith(p, q, e, w, old)
  BY <1>1
<1>3. PICK old : ReadyWith(p, q, e, w, old)
  BY <1>2
<1> DEFINE work == [u \in Services |-> w]
           ready == [replica EXCEPT ![p][q].state = "READY"]
<1>4. /\ e.ev = Ready(p, q)
      /\ old = {} \/ /\ old = {<<pending[p][q], q>>} /\ pending[p][q] # None
                     /\ replica[pending[p][q]][q].state \notin {"NONE", "DRAINING"}
      /\ replica' = Draining(ready, old, work)
  BY <1>3 DEF ReadyWith
<1>5. state[p] = "ACTIVE" /\ replica[p][q].state = "STARTING"
  BY <1>0, <1>4 DEF FleetOK, StartingOK
<1>6. /\ ReplicasOK(ready) /\ ready[p][q].state = "READY"
      /\ \A t \in Servers, u \in Services : ~(t = p /\ u = q) => ready[t][u] = replica[t][u]
  BY <1>0 DEF ReplicasOK, ReplicaRecord
<1> HIDE DEF ready, work
<1>7. ASSUME NEW t \in Servers, NEW u \in Services
      PROVE  replica'[t][u].state = IF <<t, u>> \in old THEN "DRAINING" ELSE ready[t][u].state
  BY <1>4, <1>6, DrainingIs
<1>8. ASSUME NEW t \in Servers, NEW u \in Services, <<t, u>> \in old
      PROVE  /\ pending[p][q] = t /\ u = q /\ t # p /\ replica[t][u].state = "READY"
  <2>1. pending[p][q] = t /\ u = q /\ t # None /\ replica[t][u].state \notin {"NONE", "DRAINING"}
    BY <1>4, <1>8
  <2>2. state[t] = "DRAINING" /\ t # p
    BY <1>0, <1>5, <2>1 DEF FleetOK, PendingOK
  <2>3. replica[t][u].state # "STARTING"
    BY <1>0, <2>2 DEF FleetOK, StartingOK
  <2> QED  BY <1>0, <2>1, <2>2, <2>3 DEF Basics
<1>9. <<p, q>> \notin old
  BY <1>8
<1>10. replica'[p][q].state = "READY"
  BY <1>6, <1>7, <1>9
<1>11. CASE <<s, v>> \in old
  <2>1. pending[p][v] = s /\ v = q /\ replica[s][v].state = "READY" /\ replica'[s][v].state = "DRAINING"
    BY <1>7, <1>8, <1>11
  <2>2. MayBeginDrain(s, v)
    BY <1>10, <2>1 DEF MayBeginDrain
  <2> QED  BY <2>1, <2>2 DEF LifeCycle
<1>12. CASE s = p /\ v = q
  BY <1>5, <1>10, <1>12 DEF LifeCycle
<1>13. CASE ~(s = p /\ v = q) /\ <<s, v>> \notin old
  BY <1>6, <1>7, <1>13 DEF LifeCycle
<1> QED
  BY <1>11, <1>12, <1>13

LEMMA TerminatedLife ==
  ASSUME SimInv, NEW p \in Servers, NEW q \in Services, HandleReplicaTerminated(p, q),
         NEW s \in Servers, NEW v \in Services
  PROVE  LifeCycle(s, v)
<1>0. Basics /\ FleetOK
  BY BasicsHold DEF SimInv
<1>1. PICK e \in heap : Fires(e, Terminated(p, q)) /\ replica' = [replica EXCEPT ![p][q] = Absent]
  BY DEF HandleReplicaTerminated
<1>2. e.in = 0 /\ e.ev = Terminated(p, q)
  BY <1>1 DEF Fires
<1>3. /\ replica'[p][q].state = "NONE"
      /\ ~(s = p /\ v = q) => replica'[s][v] = replica[s][v]
  BY <1>1 DEF SimInv, Inv, TypeOK, Absent
<1>4. replica[p][q].state = "NONE" \/ (replica[p][q].state = "DRAINING" /\ replica[p][q].left <= 0)
  BY <1>0, <1>2 DEF FleetOK, TerminationsOK
<1>5. replica[p][q].left \in Nat
  BY <1>0 DEF Basics
<1> QED
  BY <1>3, <1>4, <1>5 DEF LifeCycle

LEMMA TurnOffLife ==
  ASSUME SimInv, NEW p \in Servers, TurnOff(p), NEW s \in Servers, NEW v \in Services
  PROVE  LifeCycle(s, v)
<1>0. Basics /\ FleetOK
  BY BasicsHold DEF SimInv
<1>1. PICK e \in heap : \E work, new, old : DrainBegun(p, e, work, new, old)
  BY TurnOffDoes
<1>2. PICK work, new, old : DrainBegun(p, e, work, new, old)
  BY <1>1
<1>3. Settled(e) /\ state[p] = "ACTIVE"
  BY <1>2, TickSettled DEF DrainBegun, Fires
<1>4. Active # {}
  BY <1>3 DEF Active
<1>5. \A t \in Servers, u \in Services : replica[t][u].state # "STARTING" /\ pending[t][u] = None
  BY <1>3, <1>4 DEF Settled
<1>6. ASSUME NEW t \in Servers
      PROVE  /\ <<t, v>> \in new => replica[t][v].state = "NONE"
             /\ <<t, v>> \in old => /\ t = p /\ replica[t][v].state # "NONE"
                                    /\ \E o \in Servers \ {p} : replica[o][v].state # "NONE"
             /\ IF <<t, v>> \in old THEN replica'[t][v].state = "DRAINING"
                ELSE IF <<t, v>> \in new THEN replica'[t][v].state = "STARTING"
                ELSE replica'[t][v] = replica[t][v]
  BY <1>2 DEF DrainBegun
<1>7. CASE <<s, v>> \in old /\ replica[s][v].state = "READY"
  <2>1. PICK o \in Servers \ {p} : replica[o][v].state # "NONE"
    BY <1>6, <1>7
  <2>2. replica[o][v].state \in {"READY", "DRAINING"}
    BY <1>0, <1>5, <2>1 DEF Basics
  <2>3. replica'[o][v] = replica[o][v]
    BY <1>6, <2>1
  <2>4. s = p /\ \A t \in Servers : pending[t][v] # s
    BY <1>5, <1>6, <1>7, ServersAssumption
  <2>5. MayBeginDrain(s, v)
    BY <2>1, <2>2, <2>3, <2>4 DEF MayBeginDrain
  <2> QED  BY <1>6, <1>7, <2>5 DEF LifeCycle
<1>8. CASE <<s, v>> \in old /\ replica[s][v].state # "READY"
  BY <1>0, <1>5, <1>6, <1>8 DEF Basics, LifeCycle
<1>9. CASE <<s, v>> \notin old
  BY <1>6, <1>9 DEF LifeCycle
<1> QED
  BY <1>7, <1>8, <1>9

LEMMA ScaleUpLife ==
  ASSUME NEW q \in Services, NEW p \in Servers, ScaleUp(q, p),
         NEW s \in Servers, NEW v \in Services
  PROVE  LifeCycle(s, v)
<1> DEFINE at == {<<p, q>>}
<1>1. replica' = Place(replica, at) /\ replica[p][q].state = "NONE"
  BY DEF ScaleUp, CanHost, Hosts
<1>2. <<s, v>> \in at <=> s = p /\ v = q
  OBVIOUS
<1> HIDE DEF at
<1>3. replica'[s][v] = IF <<s, v>> \in at THEN Created ELSE replica[s][v]
  BY <1>1 DEF Place
<1> QED
  BY <1>1, <1>2, <1>3 DEF LifeCycle, Created

LEMMA ScaleDownLife ==
  ASSUME SimInv, NEW q \in Services, NEW p \in Servers, ScaleDown(q, p),
         NEW s \in Servers, NEW v \in Services
  PROVE  LifeCycle(s, v)
<1>0. Basics /\ FleetOK /\ ReplicasOK(replica)
  BY BasicsHold, TypePartsOK DEF SimInv, Inv, TypeParts
<1> DEFINE at == {<<p, q>>}
<1>1. PICK w \in Backlogs :
        LET work == [u \in Services |-> w]
        IN /\ turn = q /\ OthersReady(q) /\ p \in ReadyOf(q)
           /\ replica' = Draining(replica, at, work)
  BY DEF ScaleDown
<1> DEFINE work == [u \in Services |-> w]
<1>2. turn = q /\ OthersReady(q) /\ replica[p][q].state = "READY" /\ replica' = Draining(replica, at, work)
  BY <1>1 DEF ReadyOf
<1>3. \A t \in Servers, u \in Services : <<t, u>> \in at <=> t = p /\ u = q
  OBVIOUS
<1> HIDE DEF at, work
<1>4. ASSUME NEW t \in Servers, NEW u \in Services
      PROVE  IF t = p /\ u = q THEN replica'[t][u].state = "DRAINING"
                               ELSE replica'[t][u] = replica[t][u]
  <2>1. IF <<t, u>> \in at THEN replica'[t][u].state = "DRAINING"
                           ELSE replica'[t][u] = replica[t][u]
    BY <1>0, <1>2, DrainingIs
  <2> QED  BY <1>3, <2>1
<1>5. PICK o \in Servers \ {p} : replica[o][q].state = "READY"
  <2> SUFFICES ASSUME \A o \in Servers \ {p} : replica[o][q].state # "READY"
               PROVE  FALSE
    OBVIOUS
  <2>1. ReadyOf(q) = {p}
    BY <1>2 DEF ReadyOf
  <2>2. Cardinality(ReadyOf(q)) = 1
    BY <2>1, FS_Singleton
  <2> QED  BY <1>2, <2>2 DEF OthersReady
<1>6. \A t \in Servers : pending[t][q] # p
  <2>1. turn # 0 /\ p # None
    BY <1>2, ServersAssumption, ServicesAssumption DEF Services
  <2> QED  BY <1>0, <1>5, <2>1 DEF FleetOK, PendingOK
<1>7. replica'[o][q] = replica[o][q]
  BY <1>4, <1>5
<1>8. MayBeginDrain(p, q)
  BY <1>5, <1>6, <1>7 DEF MayBeginDrain
<1> QED
  BY <1>2, <1>4, <1>8 DEF LifeCycle

LEMMA EveryLife ==
  ASSUME SimInv, [Next]_vars, NEW s \in Servers, NEW v \in Services
  PROVE  LifeCycle(s, v)
<1>1. CASE AdvanceClock
  BY <1>1, AdvanceLife DEF LifeCycle
<1>2. CASE HandleEvent
  <2>1. ASSUME NEW p \in Servers, NEW q \in Services, HandleReplicaReady(p, q)
        PROVE  LifeCycle(s, v)
    BY <2>1, ReadyLife
  <2>2. ASSUME NEW p \in Servers, NEW q \in Services, HandleReplicaTerminated(p, q)
        PROVE  LifeCycle(s, v)
    BY <2>2, TerminatedLife
  <2>3. ASSUME NEW p \in Servers, HandleBootDone(p) \/ HandleDrainNotDone(p) \/ HandleDrainDone(p)
        PROVE  LifeCycle(s, v)
    BY <2>3 DEF HandleBootDone, HandleDrainNotDone, HandleDrainDone, LifeCycle
  <2> QED  BY <1>2, <2>1, <2>2, <2>3 DEF HandleEvent
<1>3. CASE Provision
  <2>1. ASSUME NEW p \in Servers, TurnOn(p) \/ AbortTurnOff(p)
        PROVE  LifeCycle(s, v)
    BY <2>1 DEF TurnOn, AbortTurnOff, LifeCycle
  <2>2. ASSUME NEW p \in Servers, TurnOff(p)
        PROVE  LifeCycle(s, v)
    BY <2>2, TurnOffLife
  <2>3. ASSUME NoProvisioning PROVE LifeCycle(s, v)
    BY <2>3 DEF NoProvisioning, LifeCycle
  <2> QED  BY <1>3, <2>1, <2>2, <2>3 DEF Provision
<1>4. CASE Scale
  <2>1. ASSUME NEW q \in Services, NoScale(q)
        PROVE  LifeCycle(s, v)
    BY <2>1 DEF NoScale, LifeCycle
  <2>2. ASSUME NEW q \in Services, NEW p \in Servers, ScaleUp(q, p)
        PROVE  LifeCycle(s, v)
    BY <2>2, ScaleUpLife
  <2>3. ASSUME NEW q \in Services, NEW p \in Servers, ScaleDown(q, p)
        PROVE  LifeCycle(s, v)
    BY <2>3, ScaleDownLife
  <2> QED  BY <1>4, <2>1, <2>2, <2>3 DEF Scale
<1>5. CASE UNCHANGED vars
  BY <1>5 DEF vars, LifeCycle
<1> QED
  BY <1>1, <1>2, <1>3, <1>4, <1>5 DEF Next

----------------------------------------------------------------------------
(* Counting events.                                                        *)

\* How many events of the heap are event.
Scheduled(event) == Cardinality({e \in heap : e.ev = event})

LEMMA ScheduledOnce ==
  ASSUME NEW event, NEW e \in heap, e.ev = event, \A f \in heap : f.ev = event => f = e
  PROVE  Scheduled(event) = 1
<1>1. {f \in heap : f.ev = event} = {e}
  OBVIOUS
<1> QED
  BY <1>1, FS_Singleton DEF Scheduled

LEMMA ScheduledSome ==
  ASSUME TypeOK, NEW event, NEW e \in heap, e.ev = event
  PROVE  Scheduled(event) >= 1
<1> DEFINE S == {f \in heap : f.ev = event}
<1>1. IsFiniteSet(S) /\ S # {}
  BY FS_Subset DEF TypeOK
<1>2. Cardinality(S) \in Nat /\ Cardinality(S) # 0
  BY <1>1, FS_CardinalityType, FS_EmptySet
<1> QED
  BY <1>2 DEF Scheduled

\* Every event finds the boot, drain, start-up or termination it ends.
LEMMA TargetsFound == SimInv => EventsFindTheirTarget
<1> SUFFICES ASSUME SimInv, NEW e \in heap
             PROVE  LET s == e.ev.server
                        v == e.ev.service
                    IN CASE e.ev.type = "SERVER_BOOT_DONE"   -> state[s] = "BOOTING"
                         [] e.ev.type = "SERVER_DRAIN_DONE"  -> state[s] = "DRAINING"
                         [] e.ev.type = "REPLICA_READY"      -> state[s] = "ACTIVE"
                                                                /\ replica[s][v].state = "STARTING"
                         [] e.ev.type = "REPLICA_TERMINATED" -> replica[s][v].state \in {"DRAINING", "NONE"}
                         [] OTHER -> TRUE
  BY DEF EventsFindTheirTarget
<1>0. Basics /\ FleetOK
  BY BasicsHold DEF SimInv
<1>1. e.ev \in Events
  BY <1>0 DEF FleetOK, TickOK
<1>2. CASE e.ev = DecisionTick
  BY <1>2 DEF DecisionTick, Event
<1>3. ASSUME NEW t \in Servers, e.ev = BootDone(t)
      PROVE  e.ev.type = "SERVER_BOOT_DONE" /\ e.ev.server = t /\ state[t] = "BOOTING"
  BY <1>0, <1>3 DEF BootDone, Event, Basics
<1>4. ASSUME NEW t \in Servers, e.ev = DrainDone(t)
      PROVE  e.ev.type = "SERVER_DRAIN_DONE" /\ e.ev.server = t /\ state[t] = "DRAINING"
  BY <1>0, <1>4 DEF DrainDone, Event, Basics
<1>5. ASSUME NEW t \in Servers, NEW u \in Services, e.ev = Ready(t, u)
      PROVE  /\ e.ev.type = "REPLICA_READY" /\ e.ev.server = t /\ e.ev.service = u
             /\ state[t] = "ACTIVE" /\ replica[t][u].state = "STARTING"
  <2>1. state[t] = "ACTIVE" /\ replica[t][u].state = "STARTING"
    BY <1>0, <1>5 DEF FleetOK, StartingOK
  <2> QED  BY <1>5, <2>1 DEF Ready, Event
<1>6. ASSUME NEW t \in Servers, NEW u \in Services, e.ev = Terminated(t, u)
      PROVE  /\ e.ev.type = "REPLICA_TERMINATED" /\ e.ev.server = t /\ e.ev.service = u
             /\ replica[t][u].state \in {"DRAINING", "NONE"}
  <2>1. replica[t][u].state \in {"DRAINING", "NONE"}
    BY <1>0, <1>6 DEF FleetOK, TerminationsOK
  <2> QED  BY <1>6, <2>1 DEF Terminated, Event
<1>7. \/ e.ev = DecisionTick
      \/ \E t \in Servers : e.ev = BootDone(t) \/ e.ev = DrainDone(t)
      \/ \E t \in Servers, u \in Services : e.ev = Ready(t, u) \/ e.ev = Terminated(t, u)
  BY <1>1 DEF Events
<1> QED
  BY <1>2, <1>3, <1>4, <1>5, <1>6, <1>7

\* Whatever is under way has its event.
LEMMA NoneForgotten == SimInv => NothingForgotten
<1> SUFFICES ASSUME SimInv PROVE NothingForgotten
  OBVIOUS
<1>0. Basics /\ FleetOK /\ TypeOK
  BY BasicsHold DEF SimInv, Inv
<1>1. turn = 0 => Scheduled(DecisionTick) = 1
  BY <1>0, ScheduledOnce DEF FleetOK, TickOK
<1>2. ASSUME NEW s \in Servers, state[s] = "BOOTING"
      PROVE  Scheduled(BootDone(s)) = 1
  <2>1. PICK e \in heap : e.ev = BootDone(s)
    BY <1>0, <1>2 DEF FleetOK, ServersDue
  <2>2. \A f \in heap : f.ev = BootDone(s) => f = e
    BY <1>0, <2>1 DEF Basics
  <2> QED  BY <2>1, <2>2, ScheduledOnce
<1>3. ASSUME NEW s \in Servers, state[s] = "DRAINING"
      PROVE  Scheduled(DrainDone(s)) = 1
  <2>1. PICK e \in heap : e.ev = DrainDone(s)
    BY <1>0, <1>3 DEF FleetOK, ServersDue
  <2>2. \A f \in heap : f.ev = DrainDone(s) => f = e
    BY <1>0, <2>1 DEF Basics
  <2> QED  BY <2>1, <2>2, ScheduledOnce
<1>4. ASSUME NEW s \in Servers, NEW v \in Services, replica[s][v].state = "DRAINING"
      PROVE  Scheduled(Terminated(s, v)) >= 1
  BY <1>0, <1>4, ScheduledSome DEF FleetOK, TerminationsOK
<1>5. ASSUME NEW s \in Servers, NEW v \in Services,
             state[s] = "ACTIVE", replica[s][v].state = "STARTING"
      PROVE  Scheduled(Ready(s, v)) = 1
  <2>1. PICK e \in heap : e.ev = Ready(s, v)
    BY <1>0, <1>5 DEF FleetOK, StartingOK
  <2>2. \A f \in heap : f.ev = Ready(s, v) => f = e
    BY <1>0, <2>1 DEF FleetOK, StartingOK
  <2> QED  BY <2>1, <2>2, ScheduledOnce
<1> QED
  BY <1>1, <1>2, <1>3, <1>4, <1>5 DEF NothingForgotten, Scheduled

----------------------------------------------------------------------------
(* The theorems.                                                           *)

\* The server and replica handlers find what their event was scheduled for, and
\* the heap never loses what must still happen: boots, drains, start-ups,
\* terminations and the one decision tick (step() and the _handle methods).
THEOREM HeapAndFleetAgree == Spec => []HeapMatchesFleet
<1>1. SimInv => HeapMatchesFleet
  BY TargetsFound, NoneForgotten DEF HeapMatchesFleet
<1> QED
  BY <1>1, SimInvAlways, PTL

\* A server that is off or boots serves nothing, and no interleaving of
\* migrations, scale-ups and slow terminations overcommits a server: the checks
\* of migration_decision and select_placement_server suffice.
THEOREM HostingAlwaysSound == Spec => []HostingIsSound
<1>1. Init => CapacityRespected
  BY InitCapacity
<1>2. SimInv /\ CapacityRespected /\ [Next]_vars => CapacityRespected'
  BY NextCapacity DEF SimInv, Inv
<1>3. Spec => []CapacityRespected
  BY <1>1, <1>2, SimInvAlways, PTL DEF Spec
<1>4. SimInv /\ CapacityRespected => HostingIsSound
  BY DEF SimInv, FleetOK, HostingIsSound
<1> QED
  BY <1>3, <1>4, SimInvAlways, PTL

\* When _handle_decision_tick runs, no replica is STARTING on an ACTIVE server and
\* no entry of _pending_migrations is left.
THEOREM TicksFindASettledFleet == Spec => []TickSeesSettledFleet
<1>1. ASSUME SimInv, NEW e \in heap, Fires(e, DecisionTick)
      PROVE  \A s \in Servers, v \in Services :
               /\ replica[s][v].state = "STARTING" => state[s] = "BOOTING"
               /\ pending[s][v] = None
  BY <1>1, TickSettled DEF Settled
<1>2. SimInv => TickSeesSettledFleet
  BY <1>1 DEF TickSeesSettledFleet
<1> QED
  BY <1>2, SimInvAlways, PTL

\* A migration of _start_server_drain interrupts nothing: its target starts, its
\* source's server drains, and a source that serves does so until the target is
\* READY.
THEOREM MigrationInterruptsNothing == Spec => MigrationKeepsSource
<1> DEFINE Started == \A t \in Servers, v \in Services : pending[t][v] # None =>
                        replica[t][v].state = "STARTING" /\ state[pending[t][v]] = "DRAINING"
           Kept2 == \A t \in Servers, v \in Services :
                      LET s == pending[t][v]
                      IN s # None /\ replica[s][v].state = "READY" =>
                           "READY" \in {replica'[s][v].state, replica'[t][v].state}
<1>1. SimInv => Started
  BY DEF SimInv, FleetOK, PendingOK
<1>2. SimInv /\ [Next]_vars => Kept2
  <2> SUFFICES ASSUME SimInv, [Next]_vars, NEW t \in Servers, NEW v \in Services,
                      pending[t][v] # None, replica[pending[t][v]][v].state = "READY"
               PROVE  "READY" \in {replica'[pending[t][v]][v].state, replica'[t][v].state}
    OBVIOUS
  <2>1. pending[t][v] \in Servers /\ \A u \in Servers : pending[u][v] = pending[t][v] => u = t
    BY BasicsHold DEF SimInv, FleetOK, PendingOK, Basics
  <2>2. LifeCycle(pending[t][v], v)
    BY <2>1, EveryLife
  <2> QED  BY <2>1, <2>2 DEF LifeCycle, MayBeginDrain
<1>3. Spec => []Started
  BY <1>1, SimInvAlways, PTL
<1>4. Spec => [][Kept2]_vars
  BY <1>2, SimInvAlways, PTL DEF Spec
<1> QED
  BY <1>3, <1>4 DEF MigrationKeepsSource

\* Graceful termination: _handle_replica_terminated deletes a replica only when
\* it drains and its queue is empty, even if it was told to drain twice.
THEOREM DeletionWaitsForTheQueue == Spec => QueueDrainedFirst
<1> DEFINE Waits == \A s \in Servers, v \in Services :
                      Hosts(s, v) /\ ~Hosts(s, v)' =>
                        replica[s][v].state = "DRAINING" /\ replica[s][v].left = 0
<1>1. SimInv /\ [Next]_vars => Waits
  <2> SUFFICES ASSUME SimInv, [Next]_vars, NEW s \in Servers, NEW v \in Services,
                      replica[s][v].state # "NONE", replica'[s][v].state = "NONE"
               PROVE  replica[s][v].state = "DRAINING" /\ replica[s][v].left = 0
    BY DEF Hosts
  <2>1. LifeCycle(s, v)
    BY EveryLife
  <2> QED  BY <2>1 DEF LifeCycle
<1>2. Spec => [][Waits]_vars
  BY <1>1, SimInvAlways, PTL DEF Spec
<1> QED
  BY <1>2 DEF QueueDrainedFirst

\* A service with a READY replica and none draining still has one after any step:
\* sole_hosted and the READY count of a scale-down never take the last one.
THEOREM ServiceKeepsServing == Spec => KeepsServing
<1> DEFINE Serves == \A v \in Services :
                       /\ ReadyOf(v) # {}
                       /\ \A s \in Servers : Hosts(s, v) => replica[s][v].state # "DRAINING"
                       => ReadyOf(v)' # {}
<1>1. SimInv /\ [Next]_vars => Serves
  <2> SUFFICES ASSUME SimInv, [Next]_vars, NEW v \in Services, NEW s \in Servers,
                      replica[s][v].state = "READY",
                      \A o \in Servers : replica[o][v].state # "DRAINING"
               PROVE  \E o \in Servers : replica'[o][v].state = "READY"
    BY DEF ReadyOf, Hosts
  <2>1. LifeCycle(s, v)
    BY EveryLife
  <2> QED  BY <2>1 DEF LifeCycle, MayBeginDrain
<1>2. Spec => [][Serves]_vars
  BY <1>1, SimInvAlways, PTL DEF Spec
<1> QED
  BY <1>2 DEF KeepsServing

============================================================================
