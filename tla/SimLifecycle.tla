---------------------------- MODULE SimLifecycle ----------------------------
(***************************************************************************)
(* The life of servers and replicas in the discrete-event simulator,       *)
(* SimulationEngine of src/simulator/engine.py: booting, draining with     *)
(* migration, emergency boots, replica start-up and graceful termination,  *)
(* driven by an event heap and by one decision tick per interval.          *)
(*                                                                         *)
(* The four placement algorithms are abstracted to every answer the engine *)
(* lets them give: which server to turn on or off, which service to scale, *)
(* which feasible target or victim.  Requests are abstracted to the        *)
(* backlog (available_at - now) a replica has when its drain starts.  SLA  *)
(* feasibility is off, as it is by default.                                *)
(***************************************************************************)
EXTENDS Placement

CONSTANTS
  BootDelay, PodStartup, Graceful, DrainGrace,    \* the delays of config.py,
  DecisionInterval, Cooldown, MinActive, MinReplicaAge,   \* in one time unit
  Backlogs          \* bound: the backlogs a READY replica may have

ASSUME DelaysAssumption ==
  /\ {BootDelay, PodStartup, Graceful, DrainGrace, DecisionInterval,
      Cooldown, MinActive, MinReplicaAge} \subseteq Nat \ {0}
  /\ Backlogs \subseteq Nat /\ Backlogs # {}
\* The order in which config.py sets the delays.
ASSUME OrderAssumption ==
  /\ PodStartup < Graceful /\ Graceful < DrainGrace
  /\ DrainGrace < DecisionInterval /\ BootDelay + PodStartup < DecisionInterval
  /\ Cooldown <= MinActive

VARIABLES
  heap,             \* _heap: scheduled events, due in `in' time units
  state,            \* Server.state
  sinceTransition,  \* now - last_transition_time, up to MinActive
  isEmergency,      \* Server.is_emergency_boot
  replica,          \* Server.hosted_replicas and replicas_by_service
  pending,          \* _pending_migrations, [target][service] -> source
  emergencyBoot,    \* _emergency_boot_for_service
  sinceScale,       \* now - _service_last_scale_time, up to Cooldown
  turn              \* 0: event loop; v: service v's scale decision is next

vars == <<heap, state, sinceTransition, isEmergency, replica, pending,
          emergencyBoot, sinceScale, turn>>

----------------------------------------------------------------------------
(* The event heap, ordered by (time, seq): an event pushed later comes     *)
(* after those due at the same time.  Events of one batch have one rank.   *)

Event(type, s, v) == [type |-> type, server |-> s, service |-> v]
BootDone(s)      == Event("SERVER_BOOT_DONE", s, None)
DrainDone(s)     == Event("SERVER_DRAIN_DONE", s, None)
Ready(s, v)      == Event("REPLICA_READY", s, v)
Terminated(s, v) == Event("REPLICA_TERMINATED", s, v)
DecisionTick     == Event("DECISION_TICK", None, None)

\* batch: a set of pairs <<delay, event>>
Push(h, batch) ==
  h \cup { [in |-> b[1], rank |-> Cardinality({x \in h : x.in = b[1]}), ev |-> b[2]]
           : b \in batch }

Earlier(e, f) == e.in < f.in \/ (e.in = f.in /\ e.rank <= f.rank)
Head(e) == e \in heap /\ \A f \in heap : Earlier(e, f)

\* step() has popped e: now is its time, and its handler runs.
Fires(e, event) == turn = 0 /\ e.in = 0 /\ e.ev = event /\ Head(e)

----------------------------------------------------------------------------
(* Replicas and capacity.                                                  *)

\* left: what remains of a DRAINING replica's queue, max(0, available_at - now)
Absent  == [state |-> "NONE", age |-> 0, left |-> 0]
Created == [state |-> "STARTING", age |-> 0, left |-> 0]

Hosts(s, v) == replica[s][v].state # "NONE"
HostedOn(s) == {v \in Services : Hosts(s, v)}

UsedCpu(s) == SumFunctionOnSet(EffMips[s], HostedOn(s))
Free == [s \in Servers |-> Capacity[s] - UsedCpu(s)]
CanHost(s, v) == ~Hosts(s, v) /\ Free[s] >= EffMips[s][v]

Place(R, at) == [s \in Servers |-> [v \in Services |->
                   IF <<s, v>> \in at THEN Created ELSE R[s][v]]]

\* _start_replica_drain on every replica of `at': only a READY one can have a
\* queue not yet known, which work gives.
Left(r, w) == IF r.state = "READY" THEN w ELSE r.left
Draining(R, at, work) == [s \in Servers |-> [v \in Services |->
    IF <<s, v>> \in at
      THEN [R[s][v] EXCEPT !.state = "DRAINING", !.left = Left(R[s][v], work[v])]
      ELSE R[s][v]]]
DrainWaitIgnoringQueue(r, w) == Graceful    \* fault: the queue is not waited for
DrainWait(r, w) == IF Left(r, w) > Graceful THEN Left(r, w) ELSE Graceful
TerminationsOf(at, work) ==
  {<<DrainWait(replica[p[1]][p[2]], work[p[2]]), Terminated(p[1], p[2])>> : p \in at}

----------------------------------------------------------------------------
(* prime() and _initial_placement: some servers boot, and each service is  *)
(* placed on one of them that can host it, if there is one.                *)

Init ==
  \E selected \in (SUBSET Servers) \ {{}} : \E m \in InitialPlacements(selected) :
    /\ heap = Push(Push({}, {<<BootDelay, BootDone(s)>> : s \in selected}),
                   {<<0, DecisionTick>>})
    /\ state = [s \in Servers |-> IF s \in selected THEN "BOOTING" ELSE "OFF"]
    /\ sinceTransition = [s \in Servers |-> IF s \in selected THEN 0 ELSE MinActive]
    /\ isEmergency = [s \in Servers |-> FALSE]
    /\ replica = [s \in Servers |-> [v \in Services |->
                    IF m[v] = s THEN Created ELSE Absent]]
    /\ pending = [s \in Servers |-> [v \in Services |-> None]]
    /\ emergencyBoot = [v \in Services |-> None]
    /\ sinceScale = [v \in Services |-> Cooldown]
    /\ turn = 0

----------------------------------------------------------------------------
(* The event loop.                                                         *)

AtMost(x, bound) == IF x < bound THEN x ELSE bound

\* step() takes the earliest event and moves `now' to its time.
AdvanceClock ==
  \E e \in heap :
    /\ turn = 0 /\ e.in > 0 /\ Head(e)
    /\ heap' = {[f EXCEPT !.in = @ - e.in] : f \in heap}
    /\ sinceTransition' = [s \in Servers |-> AtMost(sinceTransition[s] + e.in, MinActive)]
    /\ sinceScale' = [v \in Services |-> AtMost(sinceScale[v] + e.in, Cooldown)]
    /\ replica' = [s \in Servers |-> [v \in Services |->
         IF Hosts(s, v)
           THEN [replica[s][v] EXCEPT !.age = AtMost(@ + e.in, MinReplicaAge),
                                      !.left = IF @ > e.in THEN @ - e.in ELSE 0]
           ELSE Absent]]
    /\ UNCHANGED <<state, isEmergency, pending, emergencyBoot, turn>>

Enter(s, newState) ==
  /\ state' = [state EXCEPT ![s] = newState]
  /\ sinceTransition' = [sinceTransition EXCEPT ![s] = 0]

WaitingForBootLate(s) ==   \* fault: created_at >= now instead of <=
  {v \in Services : replica[s][v].state = "STARTING" /\ replica[s][v].age = 0}
WaitingForBoot(s) == {v \in Services : replica[s][v].state = "STARTING"}

RescuedNever(s) == {}      \* fault: the entries stay in the dictionary
Rescued(s) == {v \in Services : emergencyBoot[v] = s}

\* _handle_boot_done: hosted replicas start, and the services this boot was to
\* rescue may ask for another one.
HandleBootDone(s) ==
  \E e \in heap :
    /\ Fires(e, BootDone(s))
    /\ Enter(s, "ACTIVE")
    /\ heap' = Push(heap \ {e}, {<<PodStartup, Ready(s, v)>> : v \in WaitingForBoot(s)})
    /\ emergencyBoot' = [v \in Services |->
                           IF v \in Rescued(s) THEN None ELSE emergencyBoot[v]]
    /\ isEmergency' = [isEmergency EXCEPT ![s] = @ /\ Rescued(s) = {}]
    /\ UNCHANGED <<replica, pending, sinceScale, turn>>

NoReplicaServes(s) ==      \* fault: DRAINING replicas are not counted
  \A v \in Services : replica[s][v].state \in {"NONE", "DRAINING"}
NoReplicaLeft(s) == HostedOn(s) = {}

\* _handle_drain_done, with a replica still there: look again later.
HandleDrainNotDoneOnce(s) ==   \* fault: no second look
  \E e \in heap :
    /\ Fires(e, DrainDone(s))
    /\ ~NoReplicaLeft(s)
    /\ heap' = heap \ {e}
    /\ UNCHANGED <<state, sinceTransition, isEmergency, replica, pending,
                   emergencyBoot, sinceScale, turn>>
HandleDrainNotDone(s) ==
  \E e \in heap :
    /\ Fires(e, DrainDone(s))
    /\ ~NoReplicaLeft(s)
    /\ heap' = Push(heap \ {e}, {<<DrainGrace, DrainDone(s)>>})
    /\ UNCHANGED <<state, sinceTransition, isEmergency, replica, pending,
                   emergencyBoot, sinceScale, turn>>

\* _handle_drain_done: the server goes off.
HandleDrainDone(s) ==
  \E e \in heap :
    /\ Fires(e, DrainDone(s))
    /\ NoReplicaLeft(s)
    /\ Enter(s, "OFF")
    /\ heap' = heap \ {e}
    /\ UNCHANGED <<isEmergency, replica, pending, emergencyBoot, sinceScale, turn>>

GetPending(s, v) == pending    \* fault: get instead of pop
PopPending(s, v) == [pending EXCEPT ![s][v] = None]

\* _handle_replica_ready: a migration that waited for this replica now drains
\* the source.  The event is keyed by (server, service), not by replica.
HandleReplicaReady(s, v) ==
  \E e \in heap, w \in Backlogs :
    /\ Fires(e, Ready(s, v))
    /\ LET live   == replica[s][v].state = "STARTING"
           source == pending[s][v]
           old    == IF live /\ source # None /\ Hosts(source, v)
                          /\ replica[source][v].state # "DRAINING"
                       THEN {<<source, v>>} ELSE {}
           ready  == [replica EXCEPT ![s][v].state = IF live THEN "READY" ELSE @]
           work   == [u \in Services |-> w]
       IN /\ replica' = Draining(ready, old, work)
          /\ pending' = IF live THEN PopPending(s, v) ELSE pending
          /\ heap' = Push(heap \ {e}, TerminationsOf(old, work))
    /\ UNCHANGED <<state, sinceTransition, isEmergency, emergencyBoot, sinceScale, turn>>

\* _handle_replica_terminated: also keyed by (server, service).
HandleReplicaTerminated(s, v) ==
  \E e \in heap :
    /\ Fires(e, Terminated(s, v))
    /\ replica' = [replica EXCEPT ![s][v] = Absent]
    /\ heap' = heap \ {e}
    /\ UNCHANGED <<state, sinceTransition, isEmergency, pending, emergencyBoot,
                   sinceScale, turn>>

----------------------------------------------------------------------------
(* _handle_decision_tick: one provisioning decision, then one scale        *)
(* decision per service, with no event in between.                         *)

\* _apply_provisioning with no action, or one that a gate skips.
NoProvisioning ==
  \E e \in heap :
    /\ Fires(e, DecisionTick)
    /\ heap' = heap \ {e} /\ turn' = 1
    /\ UNCHANGED <<state, sinceTransition, isEmergency, replica, pending,
                   emergencyBoot, sinceScale>>

\* _start_server_boot on every server of S that is off.
StartBoot(S, emergency) ==
  /\ state' = [s \in Servers |-> IF s \in S THEN "BOOTING" ELSE state[s]]
  /\ sinceTransition' = [s \in Servers |-> IF s \in S THEN 0 ELSE sinceTransition[s]]
  /\ isEmergency' = [s \in Servers |-> IF s \in S THEN emergency ELSE isEmergency[s]]
Boots(S) == {<<BootDelay, BootDone(s)>> : s \in S}

MayTurnOnUnlessActive(s) ==    \* fault: a DRAINING server may boot
  state[s] # "ACTIVE" /\ sinceTransition[s] >= Cooldown
MayTurnOn(s) == state[s] = "OFF" /\ sinceTransition[s] >= Cooldown

\* _apply_provisioning, TURN_ON.
TurnOn(s) ==
  \E e \in heap :
    /\ Fires(e, DecisionTick)
    /\ MayTurnOn(s)
    /\ StartBoot({s}, FALSE)
    /\ heap' = Push(heap \ {e}, Boots({s})) /\ turn' = 1
    /\ UNCHANGED <<replica, pending, emergencyBoot, sinceScale>>

Active == {s \in Servers : state[s] = "ACTIVE"}

MayTurnOffLast(s) ==       \* fault: the last active server may go
  state[s] = "ACTIVE" /\ sinceTransition[s] >= MinActive
\* The gates of TURN_OFF, and _start_server_drain's own.
MayTurnOff(s) ==
  /\ state[s] = "ACTIVE" /\ Cardinality(Active) > 1
  /\ sinceTransition[s] >= Cooldown
  /\ isEmergency[s] \/ sinceTransition[s] >= MinActive

\* Services with no replica in any state on another server.
SoleHosted(s) ==
  {v \in HostedOn(s) : \A other \in Servers \ {s} : ~Hosts(other, v)}

DrainedAtOnce(s) == HostedOn(s) \ SoleHosted(s)

\* migration_decision: the candidates are the other active servers with room.
MigrationPlans(s) ==
  MigrationTargets(SoleHosted(s),
                   [v \in Services |-> {t \in Active \ {s} : CanHost(t, v)}])

\* _start_server_drain, when every sole-hosted service passes the capacity
\* check: the others drain at once, these when their new replica is READY.
TurnOff(s) ==
  /\ MayTurnOff(s)
  /\ \E e \in heap, m \in MigrationPlans(s), work \in [Services -> Backlogs] :
      /\ Fires(e, DecisionTick)
      /\ SoleHosted(s) \in Packings(RawMips, m, Free)
      /\ Enter(s, "DRAINING")
      /\ \E placed \in Packings(EffMips, m, Free) :
           LET new == {<<m[v], v>> : v \in placed}
               old == {<<s, v>> : v \in DrainedAtOnce(s)}
               started == {<<PodStartup, Ready(p[1], p[2])>> : p \in new}
           IN /\ replica' = Draining(Place(replica, new), old, work)
              /\ pending' = [t \in Servers |-> [v \in Services |->
                               IF <<t, v>> \in new THEN s ELSE pending[t][v]]]
              /\ heap' = Push(Push(Push(heap \ {e}, started),
                                   TerminationsOf(old, work)),
                              {<<DrainGrace, DrainDone(s)>>})
      /\ turn' = 1
      /\ UNCHANGED <<isEmergency, emergencyBoot, sinceScale>>

EmergencyPlans(U) == EmergencyTargets(U, {s \in Servers : state[s] = "OFF"})

\* _start_server_drain, when a sole-hosted service cannot move: servers boot
\* for such services and this one stays ACTIVE.
AbortTurnOff(s) ==
  /\ MayTurnOff(s)
  /\ \E e \in heap, m \in MigrationPlans(s) :
      /\ Fires(e, DecisionTick)
      /\ \E moved \in Packings(RawMips, m, Free) :
           LET unmigrated == SoleHosted(s) \ moved
               waiting == {v \in unmigrated : emergencyBoot[v] = None}
           IN /\ unmigrated # {}
              /\ \E p \in EmergencyPlans(waiting) :
                   LET targets == {p[v] : v \in waiting} \ {None}
                   IN /\ StartBoot(targets, TRUE)
                      /\ heap' = Push(heap \ {e}, Boots(targets))
                      /\ emergencyBoot' = [v \in Services |->
                           IF v \in waiting THEN p[v] ELSE emergencyBoot[v]]
      /\ turn' = 1
      /\ UNCHANGED <<replica, pending, sinceScale>>

EndScaleOverrun(v, h) ==   \* fault: the loop runs past the last service
  heap' = h /\ turn' = v + 1
\* After the last service, step() schedules the next tick.
EndScale(v, h) ==
  /\ heap' = IF v = NServices THEN Push(h, {<<DecisionInterval, DecisionTick>>}) ELSE h
  /\ turn' = IF v = NServices THEN 0 ELSE v + 1

\* _apply_scale_decision with NO_CHANGE, or a decision that a gate skips.
NoScale(v) ==
  /\ turn = v
  /\ EndScale(v, heap)
  /\ UNCHANGED <<state, sinceTransition, isEmergency, replica, pending,
                 emergencyBoot, sinceScale>>

\* _apply_scale_decision, SCALE_UP on t, the answer of select_placement_server.
ScaleUp(v, t) ==
  /\ turn = v
  /\ sinceScale[v] >= Cooldown
  /\ state[t] = "ACTIVE" /\ CanHost(t, v)
  /\ replica' = Place(replica, {<<t, v>>})
  /\ sinceScale' = [sinceScale EXCEPT ![v] = 0]
  /\ EndScale(v, Push(heap, {<<PodStartup, Ready(t, v)>>}))
  /\ UNCHANGED <<state, sinceTransition, isEmergency, pending, emergencyBoot>>

ReadyOf(v) == {s \in Servers : replica[s][v].state = "READY"}

OthersReadyOrStarting(v) ==   \* fault: a STARTING replica counts as one left
  Cardinality({s \in Servers : replica[s][v].state \in {"READY", "STARTING"}}) > 1
OthersReady(v) == Cardinality(ReadyOf(v)) > 1

\* _apply_scale_decision, SCALE_DOWN of the replica on s.
ScaleDown(v, s) ==
  \E w \in Backlogs :
    LET work == [u \in Services |-> w]
        old  == {<<s, v>>}
    IN /\ turn = v
       /\ sinceScale[v] >= Cooldown
       /\ OthersReady(v)
       /\ s \in ReadyOf(v) /\ replica[s][v].age >= MinReplicaAge
       /\ replica' = Draining(replica, old, work)
       /\ sinceScale' = [sinceScale EXCEPT ![v] = 0]
       /\ EndScale(v, Push(heap, TerminationsOf(old, work)))
       /\ UNCHANGED <<state, sinceTransition, isEmergency, pending, emergencyBoot>>

----------------------------------------------------------------------------
HandleEvent ==
  \/ \E s \in Servers : \/ HandleBootDone(s)
                        \/ HandleDrainNotDone(s)
                        \/ HandleDrainDone(s)
                        \/ \E v \in Services : \/ HandleReplicaReady(s, v)
                                               \/ HandleReplicaTerminated(s, v)

Provision ==
  \/ NoProvisioning
  \/ \E s \in Servers : TurnOn(s) \/ TurnOff(s) \/ AbortTurnOff(s)

Scale ==
  \E v \in Services : \/ NoScale(v)
                      \/ \E s \in Servers : ScaleUp(v, s) \/ ScaleDown(v, s)

Next == AdvanceClock \/ HandleEvent \/ Provision \/ Scale

Spec == Init /\ [][Next]_vars

\* run() keeps calling step().
FairSpec == Spec /\ WF_vars(Next)

----------------------------------------------------------------------------
(* Types.                                                                  *)

EventRecord ==
  [in : Nat, rank : Nat,
   ev : [type : {"SERVER_BOOT_DONE", "SERVER_DRAIN_DONE", "REPLICA_READY",
                 "REPLICA_TERMINATED", "DECISION_TICK"},
         server : Servers \cup {None}, service : Services \cup {None}]]
ReplicaRecord ==
  [state : {"NONE", "STARTING", "READY", "DRAINING"}, age : 0..MinReplicaAge, left : Nat]

\* The type of every variable of the engine.
TypeOK ==
  /\ IsFiniteSet(heap) /\ \A e \in heap : e \in EventRecord
  /\ state \in [Servers -> {"OFF", "BOOTING", "ACTIVE", "DRAINING"}]
  /\ sinceTransition \in [Servers -> 0..MinActive]
  /\ isEmergency \in [Servers -> BOOLEAN]
  /\ DOMAIN replica = Servers
  /\ \A s \in Servers : /\ DOMAIN replica[s] = Services
                        /\ \A v \in Services : replica[s][v] \in ReplicaRecord
  /\ pending \in [Servers -> [Services -> Servers \cup {None}]]
  /\ emergencyBoot \in [Services -> Servers \cup {None}]
  /\ sinceScale \in [Services -> 0..Cooldown]
  /\ turn \in 0..NServices

----------------------------------------------------------------------------
(* Safety.                                                                 *)

\* A handler finds what its event was scheduled for, although events carry
\* only (server, service): the boot, drain or start-up it ends is still under
\* way.  A second REPLICA_TERMINATED of one replica finds it DRAINING or gone,
\* never a replica created since.
EventsFindTheirTarget ==
  \A e \in heap :
    LET s == e.ev.server
        v == e.ev.service
    IN CASE e.ev.type = "SERVER_BOOT_DONE"   -> state[s] = "BOOTING"
         [] e.ev.type = "SERVER_DRAIN_DONE"  -> state[s] = "DRAINING"
         [] e.ev.type = "REPLICA_READY"      -> state[s] = "ACTIVE"
                                                /\ replica[s][v].state = "STARTING"
         [] e.ev.type = "REPLICA_TERMINATED" -> replica[s][v].state \in {"DRAINING", "NONE"}
         [] OTHER -> TRUE

\* The heap never loses what must still happen: whatever is booting, draining
\* or starting has the event that ends it, and there is one decision tick.
NothingForgotten ==
  LET scheduled(event) == Cardinality({e \in heap : e.ev = event})
  IN /\ turn = 0 => scheduled(DecisionTick) = 1
     /\ \A s \in Servers :
          /\ state[s] = "BOOTING"  => scheduled(BootDone(s)) = 1
          /\ state[s] = "DRAINING" => scheduled(DrainDone(s)) = 1
          /\ \A v \in Services :
               /\ replica[s][v].state = "DRAINING" => scheduled(Terminated(s, v)) >= 1
               /\ state[s] = "ACTIVE" /\ replica[s][v].state = "STARTING"
                    => scheduled(Ready(s, v)) = 1

\* Events and state agree, in both directions.
HeapMatchesFleet == EventsFindTheirTarget /\ NothingForgotten

\* _emergency_boot_for_service suppresses further emergency boots for a
\* service, so it may only name a server that is still booting.
EmergencyTargetsBoot ==
  \A v \in Services : emergencyBoot[v] # None => state[emergencyBoot[v]] = "BOOTING"

\* A server that is off hosts nothing, and one that boots only replicas that
\* wait for it: _handle_drain_done leaves no replica behind.
IdleServersHostNothing ==
  \A s \in Servers, v \in Services :
    /\ state[s] = "OFF" => ~Hosts(s, v)
    /\ state[s] = "BOOTING" => replica[s][v].state \in {"NONE", "STARTING"}

\* The replicas of a server never demand more than its capacity, whatever the
\* interleaving of migrations, scale-ups and slow terminations.
CapacityRespected == \A s \in Servers : Free[s] >= 0

\* What a server hosts fits its state and its capacity.
HostingIsSound == IdleServersHostNothing /\ CapacityRespected

\* When a decision tick fires, every replica created at an earlier tick is past
\* STARTING, unless its server is booting, and every migration is over: the
\* decisions never count a replica that cannot serve yet on an ACTIVE server.
TickSeesSettledFleet ==
  \A e \in heap, s \in Servers, v \in Services :
    Fires(e, DecisionTick) =>
      /\ replica[s][v].state = "STARTING" => state[s] = "BOOTING"
      /\ pending[s][v] = None

----------------------------------------------------------------------------
(* Action properties.                                                      *)

\* Once a server is ACTIVE there always is one: the n_active <= 1 gate, and no
\* other handler takes a server out of ACTIVE.
ActiveNeverLost == [][Active # {} => Active' # {}]_vars

\* A migration interrupts nothing: while it is pending its target starts and its
\* source's server drains, and a source that serves goes on serving until the
\* target is READY.  (A source that was draining already may end before.)
MigrationKeepsSource ==
  /\ [](\A t \in Servers, v \in Services : pending[t][v] # None =>
          replica[t][v].state = "STARTING" /\ state[pending[t][v]] = "DRAINING")
  /\ [][\A t \in Servers, v \in Services :
          LET s == pending[t][v]
          IN s # None /\ replica[s][v].state = "READY" =>
               "READY" \in {replica'[s][v].state, replica'[t][v].state}]_vars

\* Graceful termination: a replica is deleted only when its queue is empty,
\* even if it was told to drain twice.
QueueDrainedFirst ==
  [][\A s \in Servers, v \in Services :
       Hosts(s, v) /\ ~Hosts(s, v)' =>
         replica[s][v].state = "DRAINING" /\ replica[s][v].left = 0]_vars

\* Migration without interruption: a service that has a READY replica always
\* keeps one, through scale-downs, drains and migrations.
ServiceStaysAvailable == [][\A v \in Services : ReadyOf(v) # {} => ReadyOf(v)' # {}]_vars

\* That is so as long as no replica of the service is draining: sole_hosted and
\* the READY count of a scale-down together never remove the last one.
KeepsServing ==
  [][\A v \in Services :
       /\ ReadyOf(v) # {}
       /\ \A s \in Servers : Hosts(s, v) => replica[s][v].state # "DRAINING"
       => ReadyOf(v)' # {}]_vars

----------------------------------------------------------------------------
(* Liveness.                                                               *)

\* A server told to drain goes off: no replica is left on it for ever.
DrainingGoesOff == \A s \in Servers : state[s] = "DRAINING" ~> state[s] = "OFF"

\* The suppression of emergency boots for a service ends.
EmergencyEnds == \A v \in Services : emergencyBoot[v] # None ~> emergencyBoot[v] = None

\* Neither drains nor emergency boots stay under way for ever.
TransitionsEnd == DrainingGoesOff /\ EmergencyEnds
=============================================================================
