# A verification of the edge resource manager

The program (`src/`) places 15 services on 10 edge servers for five minutes to hours of
recorded traffic, under one of four algorithms (Greedy, HPA, VOILA, PPO). It runs in two
modes that share the algorithms, the configuration and the metrics:

- **simulator mode**, a discrete-event simulation in one process
  (`simulator/engine.py`): an event heap, one decision tick every 50 s;
- **k8s mode**, a dispatcher process on one asyncio event loop
  (`k8s_adapter/realtime_dispatcher.py`), worker pods (`worker_service/app.py`), clients
  (`worker_service/bts_simulator.py`) and a Redis server they all write to.

This directory models both in TLA+, checks the models with TLC on small instances, and
proves with TLAPS, for every instance, the safety properties that the passing runs check.

## 1. Inventory

| Component | State | Operations | Talks to | What is hard |
|---|---|---|---|---|
| Simulator lifecycle, `engine.py`, `events.py`, `models.py` | `Server.state`, `hosted_replicas`, `replicas_by_service`, `_heap`, `_pending_migrations`, `_emergency_boot_for_service`, `_service_last_scale_time` | `_handle_boot_done`, `_handle_drain_done`, `_handle_replica_ready`, `_handle_replica_terminated`, `_handle_decision_tick`, `_start_server_drain`, `_trigger_emergency_boot` | the algorithms (calls), itself (events) | events name a server and a service, not the object they were scheduled for; a drain runs through several events with ticks between them |
| Simulator request path, `engine.py:329-448`, `models.py:36-80` | `Replica.departures`, `available_at`, tick counters | `_handle_arrival`, `_handle_routed`, `try_admit` | the lifecycle (which replica is READY) | a queue at its limit, a departure and an arrival at one instant |
| Redis queue slots, `redis_state.py`, `worker_service/` | `edge:replica:*:queue`, `edge:reservations:*`, the pod's own queue | `try_reserve_queue_slot`, `sweep_expired_reservations`, `remove_replica`; the worker's ZREM, GET, DECR, RPUSH; the client's POST | dispatcher, pod and client through Redis commands | no transaction: three parties interleave command by command; crashes, lost requests, expiry |
| K8s request accounting, `realtime_dispatcher.py:896-1080` | `_request_geo`, `_reaped_request_ids`, `edge:metrics:completions`, `MetricsCollector` | `route_request`, `drain_completion_queue`, `_reap_lost_requests`, `_prune_reaped_ids`, `_lifetime_watcher` | pods (completions), clients | a timeout racing a late answer, and the end of the run |
| K8s lifecycle, `realtime_dispatcher.py:140-470` | `servers`, `replicas_by_service`, background tasks | `decision_loop`, `_activate_server`, `_drain_server`, `_create_replica`, `_poll_until_ready`, `_delete_replica` | the Kubernetes API through `k8s_client.py` | state read before an `await` and used after it |
| Tick counters and decision audit, `engine.py:496-705` | per-tick arrivals, rejections, violations; `_low_util_since`, `_high_util_since`; `_decision_correctness` | `_build_metrics_snapshot`, `_update_sustain_tracking`, the audit in `_apply_*`, `decision_loop` | the algorithms, the report | counters cleared after an `await`; times kept across the lives of a server; needs that no case of the audit books |
| Scaling algorithms, `src/algorithms/` | VOILA: `_good_streak`, `_proximity_violation_streak`, `_proximity_recent`; PPO: the cached answer of the tick | `provision_decision`, `scale_decision`, `select_*`, `migration_decision` | the engines, which may refuse what they propose | a proposal that a gate refuses has already changed the streaks; a mask must agree with the gates |
| PPO environment and training, `env.py`, `train.py` | the engine of the episode, the last snapshot | `reset`, `step`, `action_masks`, the demonstrations of Greedy | the simulator | the mask is computed a tick before it is used; the rest is numeric |
| Routing API | none of its own | `/route`, `/report` | the dispatcher | - |
| Kubernetes client | none of its own | deploy, delete, wait | the API server | retries |
| Configuration, geometry, coordinates, state vector, logging | constants | - | - | - |
| Data loading, evaluation, diagnosis, build scripts | - | - | files | - |

What makes each correct:

- *Lifecycle.* An event finds what it was scheduled for; nothing that boots, drains or
  starts is forgotten; the fleet never loses its last ACTIVE server; capacity holds
  through migrations; a replica is deleted only once its queue is empty; a service that
  can be reached stays reachable.
- *Queue slots.* The counter that admission and scaling read is the number of reservations
  held; the pod never holds more than `queue_len`; a drain destroys no request; no slot is
  held for ever.
- *Accounting.* Every request that reached the dispatcher is in the report, once; in k8s
  mode unless it came when no more than `max_age` was left of the run.
- *Request path.* A replica is a FIFO server with a bounded queue, until the end of its
  drain; every request of the trace is in the report once.
- *Tick counters and audit.* Every arrival, rejection and violation is in the counters of
  one tick, and a rejection shows in the rolling rate of two; a sustained load is
  of the present activation of its server; a need that an algorithm can see is served or
  booked.
- *Algorithms.* An action that a mask allows is refused only for what the same tick did
  before it; VOILA does not undo a scaling at once; an idle service shrinks to one replica.

`PROJECT.json` lists each hazard at the line where it bites, and the properties that
would catch it.

## 2. Modules

| Module | Models |
|---|---|
| `Placement` | the rules both engines share: which services fit on which servers |
| `SimLifecycle` | servers, replicas and the event heap of the simulator |
| `RealtimeLifecycle` | servers and replicas of the dispatcher, with its coroutines |
| `SimRequests` | the requests of one service in the simulator: routing, queues, tick counters, the end of the run |
| `FifoServer` | the abstract specification of a replica: M/D/1/K |
| `QueueSlots` | the slots of one replica in Redis |
| `RequestLedger` | the dispatcher's accounting of requests |
| `RequestAccounting` | the abstract specification of the report, which `RequestLedger` and `SimRequests` implement |
| `Policies` | what Greedy, HPA, VOILA and PPO propose, as functions of a snapshot and the fleet |
| `Decisions` | `SimLifecycle` with the algorithms in it: the snapshot, the sustain times, the proposal, the gates and the audit of each tick |
| `MC*` | the instances TLC checks |
| `Placement_proofs` | facts about sums over sets: what capacity is made of |
| `SimLifecycle_proofs`, `SimReplicas_proofs` | theorems about `SimLifecycle`: its types and servers, then the heap, the replicas and the migrations |
| `Decisions_proofs`, `SimRequests_proofs`, `QueueSlots_proofs`, `RequestLedger_proofs`, `RealtimeLifecycle_proofs` | theorems about the module of that name |

`Decisions` extends `Policies`, which extends `SimLifecycle`, which extends `Placement`:
its steps are those of `SimLifecycle` with the answers an algorithm really gives, and
`Decisions_proofs` shows that it refines it. The proof modules are layered in the same
way: `Placement_proofs`, `SimLifecycle_proofs`, `SimReplicas_proofs`, `Decisions_proofs`.

In each module the definitions whose comment starts with *fault:* are mistakes the code
could have made. They are not part of any specification; substituted for the definition
below them they must break the property `PROJECT.json` pairs them with, which shows
that the property depends on that line.

### 2.1 SimLifecycle

One action per handler of `engine.py`, the time unit being 5 s (every delay of
`common/config.py` is a multiple of it).

| Definition | Code |
|---|---|
| `heap`, `Push`, `Head` | `_heap`, `schedule`; `(time, seq)` is a remaining time and a rank among the events due together |
| `AdvanceClock` | `step()` moves `now` to the time of the earliest event; ages and remaining queues move with it |
| `HandleBootDone`, `HandleDrainNotDone`, `HandleDrainDone`, `HandleReplicaReady`, `HandleReplicaTerminated` | the handlers of the same name; the two cases of `_handle_drain_done` are two actions |
| `NoProvisioning`, `TurnOn`, `TurnOff`, `AbortTurnOff` | `_apply_provisioning`; `_start_server_drain` with its capacity check, which either drains or calls `_trigger_emergency_boot` |
| `NoScale`, `ScaleUp`, `ScaleDown` | `_apply_scale_decision` for the service whose `turn` it is |
| `Packings(RawMips, ...)`, `Packings(EffMips, ...)` | the first-fit passes of the capacity check (raw demand) and of the placement (effective demand) |

A decision tick is a provisioning step and one scale step per service; `turn # 0` keeps
every other event out until it is over, as the single handler does.

Abstracted: the algorithms' answers (any server, service, target or victim the engine
accepts), distances (the placements choose any candidate with room), and requests (the
`Backlogs` a READY replica may have when its drain starts). SLA feasibility filters are
off, as by default in `config.py`. A sustained condition is not asked of the
algorithms, since `bypass_sustain_gate` is true for the ones that gate themselves and the
others only choose fewer ticks. The end of the run cuts a behaviour short and is not
modelled.

### 2.2 QueueSlots

One (service, server) pair; all keys carry both, so pairs do not interact. Every Redis
command is a step; the dispatcher's and the worker's Python code between two commands is
atomic, because each is one asyncio or request-serial process that does not yield there.

| Definition | Code |
|---|---|
| `Reserve`, `RefuseFull`, `Admit` | `try_reserve_queue_slot`: INCR, then DECR, or ZADD |
| `Deliver`, `Drop` | the client's POST |
| `Process`, `WorkerRemove`, `WorkerRead`, `WorkerDecrement`, `WorkerReport` | `worker_service/app.py`: semaphore, ZREM, GET, DECR, RPUSH |
| `PodCrash` | the pod dies and its deployment starts another |
| `TtlPasses`, `SweepBegin`, `SweepRemove`, `SweepRead`, `SweepDecrement` | a score passes; `sweep_expired_reservations` and `release_queue_slot` |
| `StartDelete`, `DeleteDeployment`, `RemoveReplica`, `CreateReplica` | `_delete_replica`, `_create_replica` |

`longQueue` is fixed when a behaviour begins: may a request wait in a full queue for
longer than `deadline + 5 s`, the life of its reservation? By the configured execution
times and queue lengths it may for services 12 (14.2 s against 7), 13 (25 against 8), 14
(160 against 20) and 15 (570 against 45), and not for services 1 to 11. `leaked` is a
history variable, the slots of pods that crashed between ZREM and DECR.

`remove_replica` deletes the counter and leaves the reservations, and the replica may be
created again at any time, by a later tick or by the same one (a scale-up after a drain that
failed for another service). `inherited` is a history variable: the replica was created over
reservations of its predecessor, or over a counter that is not 0. The sweeper then takes
their slots from the new counter, so that it is too low, and even negative, and the pod may be
over-admitted; `SlotsMatchReservations`, `PodWithinCapacity` and `DrainLosesNothing` speak of
replicas that inherited nothing. The times make the other case rare: a drain that ends by
`max_wait` (the only one that leaves reservations, by `SlotsMatchReservations`) waits for
`queue_len` executions and 10 s, a reservation is swept at most 10 s after it expires, which for
services 1 to 11 is 6 s after it was made, and a new pod takes 5 s to start. The one step
that is not left free is the end of the old worker's own commands: they are over before the
new pod is READY.

Not modelled: Redis exceptions (the worker continues without its release), and request ids
used twice by two clients.

### 2.3 RequestLedger and RequestAccounting

`RequestLedger` has one action per handler or pass of a loop: `Route` and `Reject`
(`route_request`), `DrainCompletions`, `Sweep` (`_reap_lost_requests`, then
`_prune_reaped_ids`), `Stop` and `Finalize` (`_lifetime_watcher`, `run`), and
what happens to a request outside the process: `Complete`, `Vanish`. Time passes in 5 s
units, never past a sweep that is due, and never with a completion undrained while the
drain loop, which runs every 0.2 s, is alive.

`clock` is the time since `run()` started its loops. `_lifetime_watcher` stops the run when
it reaches `Lifetime`, the span of the data and 95 s, whatever the clients do: they are
other processes, started by hand, and replay the trace from a start of their own. Requests
are therefore routed at any time while the server is up (`Serving`), also after `_running`
has become false and before uvicorn has seen it. `late` is a history variable: the requests
that came when no more than `MaxAge` was left to the stop.

`RequestAccounting` is the promise: requests arrive, each is booked at most once under one
outcome, and when the report is made none that arrived is unbooked but those `excused`.
`ImplementsAccounting` is the refinement; it maps `arrived` to the requests that are not
`"new"`, `reported` to the last phase, `books` to itself and `excused` to `late`. The excuse is
needed: with `excused <- {}` TLC finds a request that is routed near the stop, is younger
than `max_age` in the last sweep, and is in no outcome of the report. With a client that starts
less than 40 s after the dispatcher (95 s less `max_age`, 55 s) nothing is late; the code does
not see to it. In the simulator nothing is excused.

Not modelled: requests the client sends after the server stopped (it refuses them);
and the over-admission `NoPodAboveCapacity` shows for services 12 to 15, which could make a
wait exceed `MaxWait`.

### 2.4 RealtimeLifecycle

One coroutine runs at a time, so a step runs from one `await` that suspends to the next.
`_activate_server` and `_create_replica` are coroutines but never suspend; what suspends
is a sleep of the decision loop, of `_wait_specific_ready`, of `_delete_replica` or of a
poll. `Suspended` says that the loop sleeps, which is when the other tasks run.

| Definition | Code |
|---|---|
| `hosted`, `listed`, `deployed` | `hosted_replicas`, `replicas_by_service` and the deployments: one replica, three places |
| `<<server, service, generation>>` | a `Replica` object; a coroutine may hold one that has left its slot |
| `loop` | where the decision loop is, with the local variables of `_drain_server`: `fresh` is `new_replicas`, `failed` is `failed_services`, `todo` the keys still to delete, `current` the replica being deleted |
| `polls`, `spawned`, `deleting` | `_background_tasks`: polls, deletions not begun and deletions that wait |
| `PollSucceeds`, `PollTimesOut` | `_poll_until_ready` |
| `BeginDeletion`, `EndDeletion` | `_delete_replica` in the background (SCALE_DOWN) |
| `TurnOn`, `AbortTurnOff`, `StartTurnOff` | `_apply_provisioning`, with `_trigger_emergency_boot` in the second |
| `EndWait`, `SkipDelete`, `DeleteAtOnce`, `BeginDelete`, `EndDelete`, `EndTurnOff` | the rest of `_drain_server` |
| `NoScale`, `ScaleUp`, `ScaleDown` | `_apply_scale_decision` |
| `rejection` | one rejected request in `_tick_rejected`: counted (`Reject`), read into a tick's snapshot (`Snapshot`), cleared at the end of that tick |

There is no clock. `TickIsDue` says what 50 s are enough for: a spawned task begins, and
a deletion whose replica has been deleted by another sees, within a second, that its
queue is gone. `LongDrains` says that a queue may outlast a tick, which is so for services
14 (up to 160 s) and 15 (570 s); `SlowPods` that a pod may take longer than a tick, or
than the 65 s of `_wait_specific_ready`, or never start. The polls of new replicas, of
120 s, outlast that wait.

Abstracted: the algorithms' answers, the ages and cooldowns (every server and replica is
old enough for what is asked), requests (a replica that has been READY may have a queue,
one that is STARTING has none), exceptions of the Kubernetes API, and the end of the run.
The 50 s interval separates two decisions about one service, which is more than the
cooldown of 20 s.

### 2.5 SimRequests and FifoServer

The life of the requests of one service. Services share servers, and that matters for the
lifecycle, but no request reads the queue or the counters of another service. The
lifecycle is reduced to what a request sees of it: at each place a replica becomes READY,
drains and goes, at any time (`BecomeReady`, `StartDrain`, `Terminate`). That allows every
schedule of `SimLifecycle`, and more.

| Definition | Code |
|---|---|
| `Arrive` | `_handle_arrival`: count the arrival, schedule REQUEST_ROUTED |
| `Reject`, `Admit` | `_handle_routed`; `WithRoom` is what `select_replica` chooses among, `Start` and `ServiceTime` are what `try_admit` computes |
| `departures`, `available`, `Later` | `Replica.departures`, `available_at` and the departures that `queue_occupancy` drops, relative to now |
| `StartDrain`, `DrainWait`, `Terminate` | `_start_replica_drain`, `_handle_replica_terminated` |
| `tick`, `DecisionTick`, `PushTick` | `_tick_total`, `_tick_rejected` and `_tick_violated`, read and cleared by `_handle_decision_tick`; `RollingRejectionTracker.push_tick` |
| `RollingRateIsPositive` | `rolling_rejection_rate`, which is 0 when the window has no arrivals |
| `books` | the outcomes `record_request` is given for each request |
| `AtCutoff`, `TimePasses`, `Finish` | `prime`, `step` and `run`: the first event later than `_cutoff` ends the run |

`select_replica` of all four algorithms refuses a request only when every READY replica is
full, and otherwise prefers by distance or by load; the model chooses any with room. The
second refusal of `_handle_routed` (`unexpected_admit_race`) cannot be reached, as nothing
happens between the two reads of the occupancy. Whether a request is late depends on
distances and is left open. Positions, the proximity counter, response times and energy
are not modelled. Replicas that are STARTING receive nothing and are not distinguished
from replicas that do not exist. The rows of the trace arrive in order (`NextRow`); as they
differ in nothing else, one order stands for all.

`RejectionsAreSeen` says how long the rolling rate shows a rejection: at the tick that reads it
and at the next one, although its request may have arrived a tick before. At the third tick
it may not: the window (rejected 1, arrivals 0), (0, 0), (0, 0) is reached, and the rate of a
window without arrivals is 0.

`FifoServer` is what the documentation calls M/D/1/K (`README.md:107`, `README.md:275`): a
sequence of jobs, the first of which is worked on in every unit of time. The code keeps no
jobs, only finish times; the refinement mapping `JobsOf` takes their differences. It shows
that waiting times are not computed wrongly when the queue has drained meanwhile
(`available_at` in the past), that a departure frees its slot at its own instant and
not before, and that `REPLICA_TERMINATED` never drops a queue with work in it.

`ImplementsAccounting` is the same abstract specification that `RequestLedger` implements:
the two modes keep one promise about their reports.

### 2.6 Policies and Decisions

`SimLifecycle` lets an algorithm give any answer the engine accepts. `Policies` says what
the answers are, and `Decisions` runs them in the engine. A tick is `Tick` (snapshot,
sustain times, provisioning) and one `Decide(v)` per service; between ticks
`EventHandled` and `TimePasses` are the steps of `SimLifecycle`.

| Definition | Code |
|---|---|
| `GreedyProvision`, `VoilaProvision`, `HpaProvision`, `React` | `provision_decision` of the three; `React` is their common shape |
| `GreedyScale`, `HpaScale`, `VoilaScale` | `scale_decision`; occupancies in percent of `queue_len` |
| `streak`, `StreakAfter` | VOILA's three counters of a service, as `scale_decision` leaves them whatever becomes of the decision; `good` is capped at the patience it is compared with |
| `Starved`, `Candidates`, `Profile`, `OfProfile` | `_capacity_starved_services`, `_pick_profile_for_overload`, `_filter_by_profile_with_fallback` |
| `Mask`, `ServerMask`, `ScaleMask`, `OneServer` | `compute_action_masks`, `_build_action_masks`, and the one server action that `_predict_and_cache` and `EdgeResourceEnv.step` take from an answer |
| `Fit`, `Emptiest`, `Placements` | `select_placement_server` |
| `Snapshot`, `NewRejections`, `Rolling` | `_build_metrics_snapshot`, `RollingRejectionTracker`; the rolling rate is positive at the tick of a rejection and at the next (`RejectionsAreSeen` of `SimRequests`), and at the third unless the load is `quiet`, that is, nothing has arrived in the window |
| `low`, `high`, `Since`, `UpdateSustain` | `now - _low_util_since`, `now - _high_util_since`, `_update_sustain_tracking` |
| `NeedsUp`, `NeedsDown`, `AnyStarved`, `NeedsServer`, `SpareServer` | `_was_scale_up_necessary` and the other `_was_*` and `_any_*` |
| `decided`, `applied` | `_last_tick_decisions`, `_last_tick_applied_actions` |
| `booked` | what the tick adds to `_decision_correctness`, as pairs of an outcome and a kind |
| `ApplyProvisioning`, `ProvisionEntries` | `_apply_provisioning` and its audit |
| `ApplyScale`, `ScaleEntries` | `_apply_scale_decision` and its audit |

The load is free: at every tick the servers have any utilization and the services any of
`Loads`. `algorithm` is fixed when a behaviour begins. `"ppo"` is inference, where the
answer is anything the mask allows and the mask is computed when the tick fires;
`"ppo_train"` is the training environment, where `action_masks()` is called before
`step()`, so that the mask is that of the fleet right after the previous tick.

Where candidates are ordered by distance, by score or by id, each of them is possible.
`settled` is a history variable: how many ticks ago the service was scaled, and whether to
be nearer. `decided`, `applied`, `booked` and `shot` (the snapshot) are forgotten when time
passes, as nothing reads them later. Not modelled: `select_replica`, positions and
centroids (SLA feasibility is off), energy, response times and the reward, and
`peek_snapshot`, which only feeds the network its first observation.

## 3. Runs

| Run | Shows |
|---|---|
| `sim_lifecycle` | safety and progress of the lifecycle: 315 thousand states |
| `sim_outage` | with a queue longer than a tick, a service loses its last READY replica (finding 1) |
| `sim_requests` | the replicas are bounded FIFO servers, every request is in one tick's counters and once in the report, a rejection is rated in two ticks, the run ends: 1.2 million states |
| `queue_slots` | whatever crashes, the counter is exact but for the slots of pods that died in mid-release; for services 1 to 11 the pod stays within `queue_len` and a drain loses nothing (all this for replicas that inherited no reservations); every reservation and every drain ends: 41 thousand states |
| `queue_slots_long_queue` | for services 12 to 15 the pod is over-admitted (finding 2) |
| `request_ledger` | with waits up to 160 s (service 14), every request is booked at most once, and those that came while more than `max_age` was left are in the report, completed if their pod reported in time: 676 thousand states |
| `request_ledger_long_wait` | with a wait of 200 s (service 15), one is recorded twice (finding 3) |
| `realtime_slow_pods` | when pods are late or never start, a failed migration keeps its source and its server, no poll makes a replica READY without its pod, scale-downs end and decisions go on; a rejection counted between two ticks is read by exactly one |
| `realtime_long_drains` | with deletions longer than a tick, the three books agree, capacity holds, and no deletion is spawned for a replica that another one holds |
| `realtime_overlap` | with the same, a drain and a deletion of one replica end the decision loop (finding 4) |
| `realtime_emergency` | an emergency entry outlives its boot (finding 5) |
| `decisions` | with each algorithm deciding: refusals of what a mask allows have a cause in the same tick, sustain times are fresh, visible needs are served or booked, VOILA does not flap, idle services shrink: 470,046 states |

`ServiceStaysAvailable` is what the documentation promises, and it is false. `KeepsServing`
is what holds of it: the last READY replica is kept if no other replica of the service is
draining (simulator), or if all of them are READY (dispatcher, where a STARTING one may
also stand in the way). With queues that empty and pods that start between two ticks the
condition is always met.

`RefusalsHaveACause` is what a mask promises. The causes it names are the ones found: a
TURN_OFF whose migration does not fit, which the mask does not ask; a scaling after the
TURN_OFF of the same tick, and a scale-up after another service has taken the room. In
training the mask is 50 s old and this still holds: between two ticks servers only
finish what they had begun (`TickSeesSettledFleet`), and the cooldowns only run down.

`MigrationKeepsSource`, in the simulator, says two things of a pending migration: its target
starts and its source's server drains; and a source that serves goes on serving until the
target is READY. A source that a scale-down had told to drain before is not protected, and
with a queue of more than a tick it may end before its target is up: it serves no new
requests by then, so that its end takes nothing away.

`VisibleNeedsAreBooked` is about Greedy and VOILA. The audit books an unserved TURN_ON
only when nothing was applied (`engine.py:634`), so a TURN_OFF applied in the same tick
would hide it. What the property shows is that the two algorithms never propose one
while a server is overloaded or a service that rejects now has nowhere to go. Two needs
of the audit are not visible in this sense and can be hidden: those of a service that
is only late, or whose rejections are of an earlier tick. HPA looks at the mean
utilization, and turns an idle server off while another one is overloaded.

`NoFlapping` relates the streaks to what was applied. The engine may refuse a SCALE_UP that
has already cleared the good streak, or a SCALE_DOWN; the first only delays VOILA, and
after the second it begins its count again, which `IdleShrinks` shows to end.

### Bounds

*SimLifecycle*: three servers and two services. Three servers are needed for a drain whose
services go to different targets, or that boots one server while another stays; two
services for a target that has room for either but not for both. The capacities make the
raw and the effective demand disagree on one server (`MCSimLifecycle`), so that the
two capacity checks of `_start_server_drain` differ. `MinActive` (300 s) and
`MinReplicaAge` are shortened to one and two ticks: only a tick compares them, and that
is enough for "not yet" (a server booted since the last tick, a replica of the last
one) and "now". `MinReplicaAge` is one unit more than an interval, so that a replica made at
one tick is never mature at the next, however its start-up falls. `Backlogs` of 0 and 105 s
are an empty queue and one that outlives the grace period and the next two ticks, as those
of services 14 and 15 do: a scale-down is then still draining when its server is drained,
and its termination is still due when the drain looks again.

*QueueSlots*: three requests and room for two: a full queue, a refused request and a
request behind another. Each protocol involves at most two requests and the counter.

*RequestLedger*: the real delays (sweep 10 s, `max_age` 55 s, horizon 110 s), and two
requests, which share the sweep. `MaxWait` is the longest queue of a service. `Lifetime` is
210 s, the margin of 95 s and a span of 115 s: a request that is routed at once may be reaped,
pruned and reported by its pod before the stop, and one may be routed at any time from
then to the stop. Deadlock is not checked: the run ends with the report.

*SimRequests*: three requests, two places and room for two: a full queue with a request
refused, and two queues that drain at different times. The slow place is cold in its
first unit, so that two requests of one queue have different service times, and a
full queue (up to 5) outlasts the grace of a drain (1). A request may be routed in the tick
after its arrival (delays 1 and 2, interval 3), and `Margin` is the interval and two units,
as `_cutoff` is the interval, a grace and twice the overhead after the last row
(`RoutingAssumption`). With a round trip as long as the interval
`RejectionsAreSeen` would not hold: a request could then be rejected two ticks after
the one that counted its arrival.
`MaxGap`, of three intervals, bounds the pauses of the trace: the whole window can run empty
between two requests, and longer pauses only add empty ticks. Deadlock is not
checked: the run ends.

*Decisions*: two servers of different profiles and two services, one of which is always idle
and only takes room. Two servers are enough for one to be needed or spare while the other
stays, and `sim_lifecycle` has the migrations that need three. A utilization is below or
above both thresholds (`Utils`), and a load is idle and `quiet`, or rejecting with a full queue,
or far and late with a middling one, which are the branches of `scale_decision`. `Backlogs` is
35 s: the server then goes off less than a cooldown before a tick, which is the only way
a TURN_ON is refused for it; shorter and longer queues are in `sim_lifecycle`.
`MinActive` (60 s) and `MinReplicaAge` are shortened to "not yet at the next tick";
`SustainLow` and `SustainHigh` are 60 s and 30 s, as configured. `LargeMips` and
`MediumMips` make the two servers a large and a medium one.

*RealtimeLifecycle*: the same fleet. Two generations are enough for a replaced replica
beside the one replaced. `realtime_slow_pods` has two servers and one generation: a slot
whose old poll still runs is then not used again, which loses only polls for a replaced
object, and these change nothing that a property reads. `realtime_emergency` has a third
service, to keep the other active server full. Deadlock is not checked in
`realtime_long_drains`, where the loop may end by finding 4.

### Fairness

`SimLifecycle`: `WF_vars(Next)`, since `run()` calls `step()` until the heap is empty.
No algorithm is assumed to take any decision.

`Decisions`: the same, `WF_allVars(DecisionsNext)`; in training the loop that calls
`env.step()` takes the place of `run()`.

`SimRequests`: the same. `TimePasses` is disabled at the cutoff, and the trace is finite.

`QueueSlots`: neither process stops in the middle of a sequence for ever (a crashed
pod is another step); the client's POST ends, one way or the other, by its timeout;
the pod serves its queue; scores pass; the drain's loop goes on. The sweeper has strong
fairness: it wakes every 10 s by its own timer, so that no sequence of deletions and creations,
each of which keeps the dispatcher busy for an instant, keeps it out for ever. Nothing
assumes that a request arrives, that the pod survives or that a replica is created again.

`RealtimeLifecycle`: the loop goes on when its sleep is over, and the waits of a drain and
of a deletion are bounded by `timeout` and `max_wait`. Nothing makes a pod start.

## 4. Findings

1. *A service with replicas may lose its last READY one* (`engine.py:202-207`).
   `sole_hosted` counts a DRAINING replica on another server as a host. A scale-down whose
   queue outlives the tick, then a TURN_OFF of the other host, drains the last READY
   replica at once, without migration. `realtime_dispatcher.py:275` counts in the same way,
   and there a STARTING replica, whose pod is not up at the next tick, is enough: the
   `KeepsServing` of the dispatcher leaves that case out and does not show its absence.
2. *A reservation may expire while its request is queued* (`realtime_dispatcher.py:799`).
   For services 12 to 15 a full queue takes longer than `deadline + 5 s`.
3. *A request may be recorded twice* (`realtime_dispatcher.py:1074`). A reaped id is
   forgotten after 110 s; service 15 may complete later than that.
4. *A drain and a scale-down may delete one replica* (`realtime_dispatcher.py:428`). The
   scale-down waits for a queue longer than a tick; the next tick drains the server and
   waits for the same queue. The second `del` raises `KeyError`. In the drain, the exception
   leaves `decision_loop`, `asyncio.gather` and `run()`: there is no report.
5. *An emergency entry may outlive its boot* (`realtime_dispatcher.py:176`). When two
   services name the same off server, the activation is over before the second entry is
   made, and nothing clears it until that server is activated anew; the service can get no
   other emergency boot until then. The simulator, whose boots take time, clears both.

Remarks that are not findings, because no run checks them:

- *A slot may leak* (`worker_service/app.py:98`). The release is ZREM, GET, DECR; a pod
  that dies after the first leaves a counter one too high that no sweep corrects, since
  the reservation is gone. `SlotsMatchReservations` counts these slots as `leaked`. The
  drain of such a replica still ends, by its time limit (`ReplicaStateEnds`).
- *The mask of a demonstration* (`train.py:79-81`). The docstring says that the mask is
  computed at the very moment, with the same `engine.now` and the same cooldowns, at
  which Greedy decides. It is computed before `engine.step()`, when `engine.now` is still
  the time of the previous tick (`"ppo_train"` in `Decisions`). A service that was scaled
  in that tick is in its cooldown there, so the mask forbids to scale it, while Greedy,
  50 s later, may. The demonstration then pairs an action with a mask that forbids it.
- *Training and inference* (`ppo_algorithm.py:168-170`). For the same reason the two
  decision spaces differ: the cooldown of 20 s is over at every tick, so inference never
  sees a service in cooldown, and training sees one after each scaling.
- *VOILA in k8s mode.* `VoilaAlgorithm.select_replica` (`voila_algorithm.py:99`) has no
  parameters `admit_fn` and `occupancy_fn`, which `realtime_dispatcher.py:814` passes by
  keyword, and `run.py` accepts `--algorithm voila --mode k8s`. This is seen by reading;
  `SimRequests` models VOILA in the simulator, where they are not passed.
- *A deletion may hit the next replica of its slot* (`realtime_dispatcher.py:428`).
  `_delete_replica` waits with the replica in hand, and deletes by server and service. If a
  drain ended that replica during the wait, failed for another service, and a scale-up of
  the same tick used the slot again, the deletion removes the deployment, the Redis keys and
  the entry of the new replica, which stays in `replicas_by_service`. That takes deletions
  that outlast a tick (`LongDrains`) and pods that outlast the wait of a drain (`SlowPods`)
  together; `BooksAgree` is false then, and holds as soon as one of them is not so.
- *Counters of k8s mode* (`realtime_dispatcher.py:775`). A tick clears the counters after
  awaits that may last as long as a drain. What was counted meanwhile is read by no tick;
  `RejectionsReadOnce` is the part that holds.
- *A late client* (`realtime_dispatcher.py:968-973`). Requests that come with no more than
  `max_age` left to the stop may be in no outcome of the report (section 2.3).
- *A rejection may be rated 0* (`rolling_signal.py:24-27`), in the third tick of the window,
  when it was read with no arrival and nothing has arrived since (section 2.5).
- *A replica created over old reservations* (`redis_state.py:79-83`) has a counter that is too
  low once they are swept (section 2.2).
- *The audit of a TURN_ON* (`engine.py:634`) is skipped when HPA turns another server off in
  the same tick; `VisibleNeedsAreBooked` leaves HPA out.

## 5. Proofs

Every safety property of the passing runs, invariant, action property or refinement, is a
theorem for all values of the constants that the assumptions admit. What a run shows on
its instance and what is proved differ in three places only: the hypotheses of the
dispatcher's and the ledger's theorems, listed with them below, and `RejectionsReadOnce`, of
which the safety half is proved.

| Theorem | Property | Beside the assumptions on the constants |
|---|---|---|
| `TypeCorrect` | `TypeOK` of `SimLifecycle` | - |
| `EmergencyEntriesAreLive` | `EmergencyTargetsBoot` | - |
| `FleetStaysActive` | `ActiveNeverLost` | - |
| `HeapAndFleetAgree` | `HeapMatchesFleet` | - |
| `HostingAlwaysSound` | `HostingIsSound` | - |
| `TicksFindASettledFleet` | `TickSeesSettledFleet` | - |
| `MigrationInterruptsNothing` | `MigrationKeepsSource` | - |
| `DeletionWaitsForTheQueue` | `QueueDrainedFirst` | - |
| `ServiceKeepsServing` | `KeepsServing` | - |
| `DecisionsImplementEngine`, `DecisionsKeepFleet`, `DecisionsEmergencyEntriesAreLive` | `DecisionsSpec => Spec`, and what follows from it | - |
| `SustainTimesAreFresh` | `SustainIsFresh` | - |
| `VoilaDoesNotFlap` | `NoFlapping` | - |
| `MaskedDecisionsApply` | `RefusalsHaveACause` | - |
| `NeedsAreServedOrBooked` | `VisibleNeedsAreBooked` | - |
| `RequestsTypeCorrect`, `BacklogIsBounded`, `QueueIsFifo` | `TypeOK`, `BacklogBounded`, `ImplementsFifo` | - |
| `TicksAgreeWithReport`, `RejectionsAreRated` | `TicksTellTheReport`, `RejectionsAreSeen` | - |
| `SimKeepsThePromise` | `ImplementsAccounting` of `SimRequests` | - |
| `SlotsTypeCorrect`, `SlotsAreExact` | `TypeOK`, `SlotsMatchReservations` | - |
| `PodCapacity`, `DrainIsGraceful` | `PodWithinCapacity`, `DrainLosesNothing` | they speak of services 1 to 11 (`~longQueue`), and like `SlotsMatchReservations` of replicas that are not `inherited` |
| `LedgerTypeCorrect` | `TypeOK` of `RequestLedger` | - |
| `InTimeIsCompleted` | `ReportedInTimeIsCompleted` | `MemoryOutlastsQueues` |
| `LedgerKeepsThePromise` | `ImplementsAccounting` of `RequestLedger` | `MemoryOutlastsQueues` |
| `RealtimeTypeCorrect`, `RealtimeCapacity`, `RealtimeOffIsEmpty` | `TypeOK`, `CapacityRespected`, `OffServersHostNothing` | - |
| `RealtimeRejectionsForgotten` | the safety half of `RejectionsReadOnce` | - |
| `RealtimeBooksAgree`, `RealtimeReadyIsRunning`, `RealtimeScaledDownOnce`, `RealtimeMigrationKeepsSource` | `BooksAgree`, `ReadyIsRunning`, `ScaledDownOnce`, `MigrationKeepsSource` | not both `LongDrains` and `SlowPods` |
| `RealtimeKeepsServing` | `KeepsServing` of the dispatcher | not `LongDrains` |
| `RealtimeOnlyDrainsEndService` | `OnlyDrainsEndService`, what is left of it with `LongDrains` | not both `LongDrains` and `SlowPods` |

### Assumptions

They are named in the modules, and TLC evaluates them on every run.

- *Order of the delays* (`OrderAssumption`): a pod starts (5 s) before a termination's grace
  is over (10 s), that before a drain's (15 s), and a boot with a start-up (35 s) fits in a
  decision interval (50 s). `common/config.py` sets them so. `HeapMatchesFleet` and
  everything about replicas needs it.
- *Speed and demand* (`SpeedAssumption`, `DemandAssumption`): no profile is faster than the
  reference profile, so that the effective demand is at most the raw one; both are whole
  numbers. Capacity needs it, since a drain checks one demand and places by the other.
- *Routing* (`RoutingAssumption`): a round trip to the dispatcher is shorter than an interval,
  and with an interval fits in the margin of `_cutoff`. The trace is finite.
- *Loads and algorithms* (`LoadsAssumption`, `AlgorithmsAssumption`): what a snapshot holds, and
  the five ways of deciding.
- `None` is no server, no request and no replica (`NoneAssumption`); sets of servers and of
  requests are finite.

### The hypotheses

They are where the code's own limits lie, and each is needed.

- `MemoryOutlastsQueues`: a reaped id is remembered for
  longer than a request may wait. It fails for service 15, which is finding 3.
- *Not both `LongDrains` and `SlowPods`*: with both, `BooksAgree` is false (section 4, "A
  deletion may hit the next replica of its slot").
- *Not `LongDrains`*, for the dispatcher's `KeepsServing`: a drain decides what to migrate when
  it begins, and a deletion in progress elsewhere counts as a host. When that deletion ends
  before the drain reaches the service, every replica left is READY, and the drain takes it.
  `OnlyDrainsEndService` says that nothing else goes wrong there: a service loses its last
  READY replica only when a drain begins to delete it, never by a scale-down. It needs no
  condition on the other replicas of the service, and is stated with its proof in
  `RealtimeLifecycle_proofs`; no run checks it.

### Arguments

*Servers of the simulator* (`SimLifecycle_proofs`). `EmergencyTargetsBoot` is not inductive:
`HandleBootDone` clears the entries that name its server, but the step needs to know that no
other handler takes a server out of BOOTING. Only boot events do, so the invariant is
strengthened with `ServerEventsOK`: every boot event finds its server BOOTING, every drain
event DRAINING, and no server has two. The second half is what keeps a stale event from
firing in a later life of the server: a server gets a boot event only when OFF, and by the
invariant nothing is then scheduled for it. `ActiveNeverLost` follows in the same way: a
drain event never finds an ACTIVE server, and `TurnOff` leaves another one by its gate.

*Replicas of the simulator* (`SimReplicas_proofs`). Events carry a server and a service, not
the replica they were scheduled for, so that the same argument for replicas needs to know
*when* events are due. `SimInv` adds to the above:

- `TickOK`, `ServersDue`: one decision tick between ticks; what boots or drains has its event.
- `Timely`: boots, with the start-ups after them, and start-ups are over before the next tick.
  The exception is the first tick, at time 0, which finds no ACTIVE server.
- `StartingOK`: a start-up has exactly one event, except on a server that boots.
- `TerminationsOK`: a DRAINING replica has a termination that is not due before its queue is
  empty. A replica told to drain twice has two; the second may find the replica gone, and is
  then `Stale`: over (`Soon`) before its server can be ACTIVE, and so host a replica of that
  service, again. This is the heart of it: without it a stale termination would delete a
  replica of the next life.
- `PendingOK`: a migration has its target STARTING and its source's server DRAINING, one
  target per source, and is over before that server looks at its drain again.

`TickSettled` draws the consequence for ticks: nothing starts, no migration is pending, no
termination is about to come. Each action then keeps each part. `LifeCycle` says what one
step can do to one replica, and the action properties follow from it. The capacity of a
server is a sum over a set; `Placement_proofs` shows what adding and removing an element
does to it, by well-founded induction on the subsets of a finite set. That theorem of the
library is usable where its induction over a predicate is not, because it can be stated
for a *family of sets* (`SubsetInduction`, `InsertInduction`).

*Decisions.* Every step is shown to be a step of `SimLifecycle` or to leave it alone
(`StepRefines`): a tick with what an algorithm proposes, once the gates let it through,
is `Provision`, and a decision about a service is `Scale`. `DecisionsSpec => Spec` carries
the theorems about the lifecycle, and `SimInv`, over to each algorithm.

- For `SustainIsFresh` the invariant of the lifecycle is needed: without it a boot event could
  activate a server that is ACTIVE, and its transition time would be younger than its
  sustain time.
- `NoFlapping` is not inductive: `FlapInv` adds `Knows`, that the good streak is at most the
  ticks since the last scaling and that the protection left and those ticks sum to at
  least `PROXIMITY_PROTECTION_TICKS`; `VoilaStep` shows that one `scale_decision` keeps it
  whether or not the decision is applied. It adds too that services whose turn has not
  come have nothing applied.
- For `RefusalsHaveACause`, `RefusalInv` follows the mask through its life. Between two ticks
  what the training mask allows stays allowed (`MaskHolds`): cooldowns and ages only grow,
  no server ceases to be ACTIVE, no replica is created, and a replica that serves ends only
  by a migration. The last point is why `MaskHolds` says more than the mask: a SCALE_DOWN is
  allowed only to a service none of whose pending migrations has a READY source
  (`NoReadySource`), since one of its two READY replicas would otherwise be gone by the
  tick. By `PendingOK` such a source is the only READY replica of its service. Within a
  tick, what the mask allows may still be applied or has its cause (`MaskOrCause`): a
  decision about one service leaves the replicas and the cooldowns of the others alone, and
  only a SCALE_UP takes room.
- `VisibleNeedsAreBooked` needs no invariant of its own: what is visible in the snapshot is
  both a need of the audit (`VisibleIsSeen`) and a reason for Greedy and VOILA not to look for
  an idle server (`VisibleIsServed`).

*Request path.* The invariant says of each queue that its finish times increase
(`Ordered`), that those of k requests in a row span at most k executions (`Spaced`), that
`available` is the last of them, and that a drain in progress ends no sooner (`QueueOK`).
`BacklogBounded` follows from `Spaced` and the length; it is not inductive without it,
since a unit of time removes at most one request whatever the bound. For the refinement
of `FifoServer`, three lemmas say what the mapping does under each operation: `JobsAppend`
(an admission appends one job of the length of its service, which needs `available` to be
the last finish time), `JobsLater` (a unit of time works on the first job or completes it,
which needs `Ordered`), and that a terminated replica has no jobs, because `ending` has not
been less than `available`. Every other step stutters.

*Counters of a tick and the report of the simulator.* `BookInv` adds that a request has one
outcome exactly when it is over (`BooksInv`); that what is still routing will be routed, and
read by a tick, before the cutoff (`TimeInv`); and what bounds the rejections that are
still to come (`RejectInv`): those counted and those possible, the requests that are
routing, are at most the arrivals of this interval and of the last, and the ones that the
next tick will still find routing (`Young`) arrived in this one. `RejectionsAreSeen` follows
for the two newest entries of the window, since each has its predecessor in it. The counters are
cardinalities of sets of requests; the lemmas say how each action moves one request from one
set to another. `SimKeepsThePromise` needs `TimeInv` for its last step: when the report is
made nothing is routing.

*Queue slots.* `SlotsMatchReservations` is strengthened with where each sequence is: the
sequence of a release holds one slot that is in no reservation, a reserve in progress
holds one that is not in one yet, and no reservation exists for a request that has not
been admitted. `CapacityInv` adds that, unless `longQueue`, every
request in the pod has one; the pod's number is then at most the counter, which admission
keeps at `queue_len`. All of this is stated unless `inherited`; a new replica is free of it when
nothing is left of the old one, by `GoneInv`: nothing is on its way to a pod that is deleted.

*Ledger.* The invariant says of one request at a time where it is: a new one is nowhere; one
that arrived is in `_request_geo` exactly as long as it is not booked; and a completion that
may still come finds its request there or among the reaped ids. The last needs the clock:
the age of a request and the time since it was reaped are related, so that an id is pruned
only when its pod can report no more; and the age and the clock, so that a request that is
not `late` is older than `MaxAge` in the last sweep. The refinement maps each handler to the abstract
steps of the requests it books.

*Dispatcher.* A step changes replicas in two ways only, `Create` and `Delete`, and what each
does to the three books comes first. The books are then kept because (`HeldOK`) a replica
that a coroutine holds across an `await` is in its place or its slot is empty and cannot
be filled; (`SpawnedOK`) a spawned deletion finds a READY replica; and (`DrainOK`) a drain
knows where the sources of its failed migrations are. `HeldOK` is the part that is false
when deletions and pods are both slow. `OffInv` adds to `OffServersHostNothing` what a drain
still has to delete. For serving, `ScalesOK` says that a spawned deletion leaves another
READY replica of its service, since a tick scales each service once and finds no deletion
that has not begun; it holds whatever the queues do, and `ServiceStep` concludes that only
`DrainTakes` ends a service. `ElsewhereOK` adds, unless `LongDrains`, that what a drain has
yet to delete has another host, and `KeepsServing` follows (`ServingStep`).

### Only model-checked

- *Liveness* (`TransitionsEnd`, `RunEnds`, `ReplicaStateEnds`, `CoroutinesGoOn`, `IdleShrinks`, and
  the second half of `RejectionsReadOnce`): fairness and ENABLED are out of the prover's reach.
- *The violations*: a counterexample is what TLC gives.

## 6. Not modelled

- Scores, distances and SLA estimates, Vivaldi coordinates, the PPO network, its reward and
  training, and the integer program of the initial placement: floating-point arithmetic.
  The models accept any answer they can give.
- The audit of k8s mode (sustain times, missed and blocked opportunities), which repeats
  that of the simulator around the awaits of `RealtimeLifecycle`.
- The Kubernetes API: a deployment is there or not. Redis exceptions.
- Energy and response times as numbers.
- Reading and preparing data, statistics, plots and diagnosis: sequential scripts.

## 7. Plan

| Order | Module | Question | State |
|---|---|---|---|
| 1 | `SimLifecycle` | is the event-driven lifecycle safe, does it make progress | done |
| 2 | `QueueSlots` | are the slots exact across processes | done |
| 3 | `RequestAccounting`, `RequestLedger` | is every request reported once | done |
| 4 | `RealtimeLifecycle` | the lifecycle of k8s mode, split at each `await`: a drain and a scale-down of one replica, a poll and a deletion, an activation and an emergency boot | done |
| 5 | `FifoServer`, `SimRequests` | the simulator's queues are bounded FIFO servers, no routed request is lost when its replica drains, every request is counted | done |
| 6 | `Policies`, `Decisions` | sustain times and the decision audit (`engine.py:634`), VOILA's streaks (`voila_algorithm.py:44-97`) and PPO's masks, joined with the engine's gates | done; the counters of k8s mode are in `RealtimeLifecycle` |
| 7 | proofs | the engine with the algorithms refines `SimLifecycle`; sustain times; VOILA's streaks | done |
| 8 | proofs | `HeapMatchesFleet`, `HostingIsSound` and the other properties of replicas, from `ServerEventsOK` and its analogue for replicas; `RequestLedger` and `SimRequests` implement `RequestAccounting`; the counters of a tick; the books of `RealtimeLifecycle`; the refusals of a mask and the audit | done |
| 9 | proofs | what is left of `KeepsServing` of the dispatcher with long deletions (`OnlyDrainsEndService`) | done |
