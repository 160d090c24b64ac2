-------------------------- MODULE RealtimeLifecycle --------------------------
(***************************************************************************)
(* The life of servers and replicas in k8s mode: RealtimeEngine of         *)
(* src/k8s_adapter/realtime_dispatcher.py.  Its coroutines share one event *)
(* loop: the decision loop, one poll per new replica and one task per      *)
(* scaled-down replica.  A step runs from one await that really suspends   *)
(* to the next; what is called in between does not suspend.                *)
(*                                                                         *)
(* Replica objects outlive their place on a server, since a coroutine may  *)
(* still hold one: <<server, service, generation>>.  The algorithms may    *)
(* give any answer the engine accepts, and every server and replica is     *)
(* taken to be old enough for what is asked of it.                         *)
(***************************************************************************)
EXTENDS Placement

CONSTANTS
  Generations,      \* bound: objects alive at once for one server and service
  LongDrains,       \* a deletion may outlast the decision interval: a queue of
                    \* services 14 and 15 takes longer
  SlowPods          \* a pod may take longer than a wait, or never be ready

ASSUME RealtimeAssumption ==
  Generations \in Nat \ {0} /\ {LongDrains, SlowPods} \subseteq BOOLEAN

VARIABLES
  state,            \* Server.state
  hosted,           \* Server.hosted_replicas of all servers
  listed,           \* replicas_by_service, all services
  replica,          \* Replica.state
  deployed,         \* deployments in Kubernetes, as <<server, service>>
  running,          \* those whose pod is ready
  polls,            \* replicas with a _poll_until_ready task
  spawned,          \* <<server, service>> of deletions that have not begun
  deleting,         \* replicas held by a _delete_replica task that waits
  loop,             \* the decision loop: where it is, and its local variables
  emergencyBoot,    \* _emergency_boot_for_service
  rejection         \* one rejected request, in the counters of the tick: not
                    \* there, not yet in a snapshot, or in the tick's snapshot

vars == <<state, hosted, listed, replica, deployed, running, polls, spawned,
          deleting, loop, emergencyBoot, rejection>>
kubernetes == <<deployed, running>>
tasks == <<polls, spawned, deleting>>
replicas == <<hosted, listed, replica>>

Slots == Servers \X Services
Replicas == Servers \X Services \X (1..Generations)
Slot(r) == <<r[1], r[2]>>

ASSUME NoneAssumption == None \notin Replicas

Asleep == [at |-> "sleep", server |-> None, fresh |-> {}, failed |-> {},
           todo |-> {}, current |-> None, turn |-> 0]

----------------------------------------------------------------------------
(* Replicas and capacity.                                                  *)

In(slot) == {r \in hosted : Slot(r) = slot}
HostedOn(s) == {v \in Services : In(<<s, v>>) # {}}
UsedCpu(s) == SumFunctionOnSet(EffMips[s], HostedOn(s))
Free == [s \in Servers |-> Capacity[s] - UsedCpu(s)]
CanHostAgain(s, v) == Free[s] >= EffMips[s][v]   \* fault: hosted or not
CanHost(s, v) == v \notin HostedOn(s) /\ Free[s] >= EffMips[s][v]

ReadyOf(v) == {r \in listed : r[2] = v /\ replica[r] = "READY"}
Active == {s \in Servers : state[s] = "ACTIVE"}

\* Objects nothing refers to any more.
Unused(slot) ==
  {r \in Replicas : Slot(r) = slot} \ (hosted \cup listed \cup polls \cup deleting)
New(slots) == {CHOOSE r \in Unused(slot) : TRUE : slot \in slots}

\* _create_replica, for each slot: the poll is spawned with it.
Create(slots) ==
  /\ \A slot \in slots : Unused(slot) # {}
  /\ hosted' = (hosted \ UNION {In(slot) : slot \in slots}) \cup New(slots)
  /\ listed' = listed \cup New(slots)
  /\ replica' = [r \in Replicas |-> IF r \in New(slots) THEN "STARTING" ELSE replica[r]]
  /\ polls' = polls \cup New(slots)
  /\ deployed' = deployed \cup slots

\* The end of _delete_replica: the deployment goes, and the entry of the slot,
\* whichever object is in it.  `del' fails when the slot is empty.
DeleteFails(r) == In(Slot(r)) = {}
StillDeployed(r) == deployed           \* fault: the deployment is forgotten
Undeployed(r) == deployed \ {Slot(r)}
Delete(r) ==
  /\ deployed' = Undeployed(r)
  /\ running' = running \ {Slot(r)}
  /\ replica' = [replica EXCEPT ![r] = "TERMINATED"]
  /\ hosted' = hosted \ In(Slot(r))
  /\ listed' = IF DeleteFails(r) THEN listed ELSE listed \ {r}

\* initial_placement: servers are activated at once.
Init ==
  \E selected \in (SUBSET Servers) \ {{}} : \E m \in InitialPlacements(selected) :
    LET first == {<<m[v], v, 1>> : v \in {u \in Services : m[u] # None}}
    IN /\ state = [s \in Servers |-> IF s \in selected THEN "ACTIVE" ELSE "OFF"]
       /\ hosted = first /\ listed = first /\ polls = first
       /\ replica = [r \in Replicas |-> IF r \in first THEN "STARTING" ELSE "TERMINATED"]
       /\ deployed = {Slot(r) : r \in first} /\ running = {}
       /\ spawned = {} /\ deleting = {}
       /\ loop = Asleep
       /\ emergencyBoot = [v \in Services |-> None]
       /\ rejection = "none"

----------------------------------------------------------------------------
(* The other coroutines run while the decision loop is suspended.          *)

Suspended ==
  loop.at \in {"sleep", "wait"} \/ (loop.at = "delete" /\ loop.current # None)

\* The deployment's pod becomes ready.
PodStarts(slot) ==
  /\ Suspended /\ slot \in deployed \ running
  /\ running' = running \cup {slot}
  /\ UNCHANGED <<state, replicas, deployed, tasks, loop, emergencyBoot, rejection>>

PollAnyState(r) == TRUE                \* fault: no look at the deployment
PollFinds(r) == Slot(r) \in running
\* _poll_until_ready: the replica is READY, whatever its state was.
PollSucceeds(r) ==
  /\ Suspended /\ r \in polls /\ PollFinds(r)
  /\ replica' = [replica EXCEPT ![r] = "READY"]
  /\ polls' = polls \ {r}
  /\ UNCHANGED <<state, hosted, listed, kubernetes, spawned, deleting, loop, emergencyBoot, rejection>>

\* _poll_until_ready gives up, later than _wait_specific_ready does.
PollTimesOut(r) ==
  /\ Suspended /\ SlowPods /\ r \in polls
  /\ loop.at = "wait" => r \notin loop.fresh
  /\ polls' = polls \ {r}
  /\ UNCHANGED <<state, replicas, kubernetes, spawned, deleting, loop, emergencyBoot, rejection>>

Unmarked(r) == replica                 \* fault: the state is not set
Marked(r) == [replica EXCEPT ![r] = "DRAINING"]
\* A scale-down's _delete_replica begins: the replica is the one now in the
\* slot, which is never empty (ScaledDownOnce).  It waits while there is a queue.
BeginDeletion(slot) ==
  /\ Suspended /\ slot \in spawned
  /\ spawned' = spawned \ {slot}
  /\ \E r \in In(slot) : replica' = Marked(r) /\ deleting' = deleting \cup {r}
  /\ UNCHANGED <<state, hosted, listed, kubernetes, polls, loop, emergencyBoot, rejection>>

\* It ends when the queue is empty or max_wait is over.  If `del' fails, the
\* exception ends the task and nothing else.
EndDeletion(r) ==
  /\ Suspended /\ r \in deleting
  /\ Delete(r)
  /\ deleting' = deleting \ {r}
  /\ UNCHANGED <<state, polls, spawned, loop, emergencyBoot, rejection>>

\* route_request rejects the request, without an await.
Reject ==
  /\ Suspended /\ rejection = "none"
  /\ rejection' = "new"
  /\ UNCHANGED <<state, replicas, kubernetes, tasks, loop, emergencyBoot>>

----------------------------------------------------------------------------
(* decision_loop: provisioning.                                            *)

\* The interval is 50 s: long enough for every spawned deletion to begin, for a
\* deletion to see within a second that the queue is gone with the replica, and,
\* unless a constant says otherwise, for queues to empty and pods to be ready.
TickIsDue ==
  /\ loop.at = "sleep" /\ spawned = {} /\ deleting \subseteq hosted
  /\ LongDrains \/ deleting = {}
  /\ SlowPods \/ polls = {}

ScaleFrom(v) == [Asleep EXCEPT !.at = "scale", !.turn = v]

\* _apply_provisioning with no action, or one that a gate skips.
NoProvisioning ==
  /\ TickIsDue
  /\ loop' = ScaleFrom(1)
  /\ UNCHANGED <<state, replicas, kubernetes, tasks, emergencyBoot>>

\* _activate_server, for each server of S: the entries that name it go.
Activate(S) == state' = [s \in Servers |-> IF s \in S THEN "ACTIVE" ELSE state[s]]
Cleared(S) == [v \in Services |-> IF emergencyBoot[v] \in S THEN None ELSE emergencyBoot[v]]

TurnOn(s) ==
  /\ TickIsDue /\ state[s] = "OFF"
  /\ Activate({s})
  /\ emergencyBoot' = Cleared({s})
  /\ loop' = ScaleFrom(1)
  /\ UNCHANGED <<replicas, kubernetes, tasks>>

MayTurnOff(s) == state[s] = "ACTIVE" /\ Cardinality(Active) > 1

SoleHostedAnywhere(s) ==   \* fault: the draining server counts as another host
  {v \in HostedOn(s) : \A other \in Servers : v \notin HostedOn(other)}
\* Services with no replica in any state on another server.
SoleHosted(s) == {v \in HostedOn(s) : \A other \in Servers \ {s} : v \notin HostedOn(other)}

MigrationPlans(s) ==
  MigrationTargets(SoleHosted(s),
                   [v \in Services |-> {t \in Active \ {s} : CanHost(t, v)}])

\* _drain_server, when a sole-hosted service cannot move.  _trigger_emergency_boot
\* enters a server for each such service and activates it: the first service to
\* name a server finds it OFF, and _activate_server deletes its entry; for the
\* others the server is ACTIVE by then, and their entries stay.
AbortTurnOff(s) ==
  \E m \in MigrationPlans(s) : \E moved \in Packings(RawMips, m, Free) :
    LET unmigrated == SoleHosted(s) \ moved
        waiting == {v \in unmigrated : emergencyBoot[v] = None}
        off == {t \in Servers : state[t] = "OFF"}
    IN /\ TickIsDue /\ MayTurnOff(s) /\ unmigrated # {}
       /\ \E p \in EmergencyTargets(waiting, off) :
            LET named == {p[v] : v \in waiting} \ {None}
            IN \E first \in [named -> waiting] :
                 /\ \A t \in named : p[first[t]] = t
                 /\ Activate(named)
                 /\ emergencyBoot' = [v \in Services |->
                      IF v \in waiting /\ p[v] # None /\ first[p[v]] # v
                        THEN p[v] ELSE Cleared(named)[v]]
       /\ loop' = ScaleFrom(1)
       /\ UNCHANGED <<replicas, kubernetes, tasks>>

\* _drain_server, up to its first await: the new replicas are created.
StartTurnOff(s) ==
  \E m \in MigrationPlans(s) :
    /\ TickIsDue /\ MayTurnOff(s)
    /\ SoleHosted(s) \in Packings(RawMips, m, Free)
    /\ \E placed \in Packings(EffMips, m, Free) :
         LET slots == {<<m[v], v>> : v \in placed}
         IN /\ Create(slots)
            /\ loop' = [Asleep EXCEPT !.at = "wait", !.server = s, !.fresh = New(slots),
                                      !.failed = SoleHosted(s) \ placed]
    /\ state' = [state EXCEPT ![s] = "DRAINING"]
    /\ UNCHANGED <<running, spawned, deleting, emergencyBoot>>

NotReady == {r \in loop.fresh : replica[r] # "READY"}

WaitForAll == NotReady = {}            \* fault: no timeout
WaitIsOver == NotReady = {} \/ SlowPods
\* _wait_specific_ready returns: at once when nothing was created, when every
\* new replica has been seen READY, or on its timeout.
NoneFailed == loop.failed              \* fault: the timeout's result is ignored
NowFailed == loop.failed \cup {r[2] : r \in NotReady}
EndWait ==
  /\ loop.at = "wait" /\ WaitIsOver
  /\ LET failed == NowFailed
     IN loop' = [loop EXCEPT !.at = "delete", !.failed = failed,
                             !.todo = HostedOn(loop.server) \ failed]
  /\ UNCHANGED <<state, replicas, kubernetes, tasks, emergencyBoot, rejection>>

Next1 == loop.at = "delete" /\ loop.current = None

\* _delete_replica finds nothing: a scale-down has ended it meanwhile.
SkipDelete(v) ==
  /\ Next1 /\ v \in loop.todo /\ v \notin HostedOn(loop.server)
  /\ loop' = [loop EXCEPT !.todo = @ \ {v}]
  /\ UNCHANGED <<state, replicas, kubernetes, tasks, emergencyBoot, rejection>>

\* _delete_replica with an empty queue, as a STARTING replica has: no await.
DeleteAtOnce(v) ==
  /\ Next1 /\ v \in loop.todo
  /\ \E r \in In(<<loop.server, v>>) : Delete(r)
  /\ loop' = [loop EXCEPT !.todo = @ \ {v}]
  /\ UNCHANGED <<state, tasks, emergencyBoot, rejection>>

\* _delete_replica with a queue: the loop suspends.
BeginDelete(v) ==
  /\ Next1 /\ v \in loop.todo
  /\ \E r \in In(<<loop.server, v>>) :
       /\ replica[r] # "STARTING"
       /\ replica' = Marked(r)
       /\ loop' = [loop EXCEPT !.todo = @ \ {v}, !.current = r]
  /\ UNCHANGED <<state, hosted, listed, kubernetes, tasks, emergencyBoot, rejection>>

\* ... and goes on.  If `del' fails, the exception leaves run().
EndDelete ==
  /\ loop.at = "delete" /\ loop.current # None
  /\ Delete(loop.current)
  /\ loop' = IF DeleteFails(loop.current) THEN [Asleep EXCEPT !.at = "crashed"]
                                          ELSE [loop EXCEPT !.current = None]
  /\ UNCHANGED <<state, tasks, emergencyBoot, rejection>>

EndStateOff == "OFF"                   \* fault: failed migrations are forgotten
EndState == IF loop.failed = {} THEN "OFF" ELSE "ACTIVE"
\* The end of _drain_server.
EndTurnOff ==
  /\ Next1 /\ loop.todo = {}
  /\ state' = [state EXCEPT ![loop.server] = EndState]
  /\ loop' = ScaleFrom(1)
  /\ UNCHANGED <<replicas, kubernetes, tasks, emergencyBoot, rejection>>

----------------------------------------------------------------------------
(* decision_loop: one scale decision per service, without any await.       *)

EndScaleLate(v) ==                     \* fault: off by one
  /\ loop' = IF v > NServices THEN Asleep ELSE ScaleFrom(v + 1)
  /\ rejection' = IF v > NServices THEN "none" ELSE rejection
\* After the last service the counters of the tick are cleared.
EndScale(v) ==
  /\ loop' = IF v = NServices THEN Asleep ELSE ScaleFrom(v + 1)
  /\ rejection' = IF v = NServices THEN "none" ELSE rejection

NoScale(v) ==
  /\ loop.at = "scale" /\ loop.turn = v
  /\ EndScale(v)
  /\ UNCHANGED <<state, replicas, kubernetes, tasks, emergencyBoot>>

ScaleUp(v, s) ==
  /\ loop.at = "scale" /\ loop.turn = v
  /\ state[s] = "ACTIVE" /\ CanHost(s, v)
  /\ Create({<<s, v>>})
  /\ EndScale(v)
  /\ UNCHANGED <<state, running, spawned, deleting, emergencyBoot>>

OthersReady(v) == Cardinality(ReadyOf(v)) > 1
\* The deletion is spawned: it begins after the loop has gone to sleep.
ScaleDown(v, r) ==
  /\ loop.at = "scale" /\ loop.turn = v
  /\ OthersReady(v) /\ r \in ReadyOf(v)
  /\ spawned' = spawned \cup {Slot(r)}
  /\ EndScale(v)
  /\ UNCHANGED <<state, replicas, kubernetes, polls, deleting, emergencyBoot>>

----------------------------------------------------------------------------
Tasks ==
  \/ \E slot \in Slots : PodStarts(slot) \/ BeginDeletion(slot)
  \/ \E r \in Replicas : PollSucceeds(r) \/ PollTimesOut(r) \/ EndDeletion(r)
  \/ Reject

SnapshotOfNothing == rejection' = "none"   \* fault: cleared, then read
\* _build_metrics_snapshot: what the counters hold reaches this tick's decisions.
Snapshot == rejection' = IF rejection = "new" THEN "seen" ELSE rejection

Provision ==
  /\ Snapshot
  /\ \/ NoProvisioning
     \/ \E s \in Servers : TurnOn(s) \/ AbortTurnOff(s) \/ StartTurnOff(s)

Drain ==
  \/ EndWait \/ EndDelete \/ EndTurnOff
  \/ \E v \in Services : SkipDelete(v) \/ DeleteAtOnce(v) \/ BeginDelete(v)

Scale ==
  \E v \in Services : \/ NoScale(v)
                      \/ \E s \in Servers : ScaleUp(v, s)
                      \/ \E r \in Replicas : ScaleDown(v, r)

Next == Tasks \/ Provision \/ Drain \/ Scale

Spec == Init /\ [][Next]_vars

\* Coroutines are resumed when their sleep is over, and the waits of a drain and
\* of a deletion are bounded.  Nothing makes Kubernetes start a pod.
FairSpec ==
  /\ Spec /\ WF_vars(Provision) /\ WF_vars(Drain) /\ WF_vars(Scale)
  /\ \A slot \in Slots : WF_vars(BeginDeletion(slot))
  /\ \A r \in Replicas : WF_vars(EndDeletion(r))

----------------------------------------------------------------------------
(* Properties.                                                             *)

\* The types, and hosted_replicas is a dictionary: one entry per slot.
TypeOK ==
  /\ state \in [Servers -> {"OFF", "ACTIVE", "DRAINING"}]
  /\ {hosted, listed, polls, deleting} \subseteq SUBSET Replicas
  /\ \A q, r \in hosted : Slot(q) = Slot(r) => q = r
  /\ replica \in [Replicas -> {"STARTING", "READY", "DRAINING", "TERMINATED"}]
  /\ {deployed, running, spawned} \subseteq SUBSET Slots /\ running \subseteq deployed
  /\ emergencyBoot \in [Services -> Servers \cup {None}]
  /\ loop.at \in {"sleep", "wait", "delete", "scale", "crashed"}
  /\ loop.server \in Servers \cup {None} /\ loop.fresh \subseteq Replicas
  /\ loop.failed \subseteq Services /\ loop.todo \subseteq Services
  /\ loop.current \in Replicas \cup {None} /\ loop.turn \in 0..NServices
  /\ rejection \in {"none", "new", "seen"}

\* The three books of replicas, which _create_replica and _delete_replica
\* update one after the other, agree: Server.hosted_replicas,
\* replicas_by_service and the deployments in Kubernetes.
BooksAgree == hosted = listed /\ {Slot(r) : r \in hosted} = deployed

\* A replica that requests may be sent to has a running pod: no poll reports on
\* behalf of a deployment that has been deleted or replaced.
ReadyIsRunning == \A r \in listed : replica[r] = "READY" => Slot(r) \in running

\* No server hosts more than its capacity, although a drain reserves room by
\* raw demand and places by effective demand.
CapacityRespected == \A s \in Servers : UsedCpu(s) <= Capacity[s]

\* A server that is off hosts nothing: a drain with a failed migration does not
\* end with the server off.
OffServersHostNothing == \A s \in Servers : state[s] = "OFF" => HostedOn(s) = {}

\* _drain_server deletes the old replica of a service that it migrates only
\* after the new one is READY.
MigrationKeepsSource ==
  loop.at = "delete" =>
    \A r \in loop.fresh : replica[r] = "READY" \/ In(<<loop.server, r[2]>>) # {}

\* A service all of whose replicas are READY keeps a READY one through scale-downs
\* and drains: sole_hosted and the READY count of a scale-down together never
\* remove the last one.
KeepsServing ==
  [][\A v \in Services :
       /\ ReadyOf(v) # {}
       /\ \A r \in listed : r[2] = v => replica[r] = "READY"
       => ReadyOf(v)' # {}]_vars

\* A spawned scale-down finds a replica in its slot, and one that no other
\* scale-down holds, although deletions outlast the ticks.
ScaledDownOnce == \A slot \in spawned : In(slot) \ deleting # {}

\* No exception leaves the decision loop, which would end run() without the
\* report: the deletions of a drain find the replica they hold.
RunSurvives == loop.at # "crashed"

\* An emergency boot is over when its target is ACTIVE: the service may then ask
\* for another one.
EmergencyCleared ==
  \A v \in Services : emergencyBoot[v] # None => state[emergencyBoot[v]] # "ACTIVE"

\* A rejection counted while the loop sleeps is read by exactly one tick's
\* decisions.  One counted while the loop waits inside a drain is not: the
\* counters are cleared at the end of that tick, after its snapshot.
RejectionsReadOnce ==
  /\ [](loop.at = "sleep" => rejection # "seen")
  /\ loop.at = "sleep" /\ rejection = "new" ~> rejection = "seen"

\* Decisions go on: no drain waits for ever for a pod that never starts.
TicksGoOn == []<>(loop.at = "scale")

\* Every scale-down that is spawned removes the deployment in the end.
ScaleDownEnds == \A slot \in Slots : slot \in spawned ~> slot \notin deployed

\* Both: the loop and the deletions it spawns all get to their end.
CoroutinesGoOn == TicksGoOn /\ ScaleDownEnds
=============================================================================
