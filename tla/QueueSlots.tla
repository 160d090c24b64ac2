----------------------------- MODULE QueueSlots -----------------------------
(***************************************************************************)
(* The queue slots of one replica in k8s mode, kept in Redis by three      *)
(* parties: the dispatcher process, which reserves slots, sweeps expired   *)
(* reservations and removes the replica's keys; the worker pod, which      *)
(* releases the slot of each request it has processed; and the client,     *)
(* which carries a routed request to the pod.                              *)
(* src/k8s_adapter/redis_state.py, realtime_dispatcher.py and              *)
(* worker_service/app.py.                                                  *)
(*                                                                         *)
(* Every Redis command is one step.  The dispatcher and the worker each    *)
(* run their sequence of commands without yielding, so each has at most    *)
(* one sequence under way; the two interleave command by command.  Keys    *)
(* are per (service, server), so one replica stands for all.               *)
(***************************************************************************)
EXTENDS Integers, FiniteSets

CONSTANTS
  Requests,         \* request ids
  None,             \* no request
  QueueLen          \* the service's queue_len

ASSUME RequestsAssumption == IsFiniteSet(Requests) /\ None \notin Requests
ASSUME QueueLenAssumption == QueueLen \in Nat \ {0}

VARIABLES
  queue,          \* edge:replica:{svc}:{srv}:queue, 0 when the key is missing
  reservations,   \* members of edge:reservations:{svc}:{srv}
  overdue,        \* those whose score has passed
  replica,        \* the dispatcher's ReplicaState of the replica
  status,         \* where each request is
  dispatcher,     \* the dispatcher's current sequence: what it does next
  worker,         \* the worker's current sequence
  longQueue,      \* the service's queue may keep a request past deadline + 5 s,
                  \* as in services 12 to 15; fixed from the start
  leaked,         \* history: slots of releases that a crash cut short
  inherited       \* history: the replica was created over what its predecessor
                  \* left, reservations not yet swept or a counter that is not 0

vars == <<queue, reservations, overdue, replica, status, dispatcher, worker,
          longQueue, leaked, inherited>>

Idle == "idle"
DispatcherIdle == [next |-> Idle, value |-> 0, batch |-> {}, req |-> None]
WorkerIdle == [next |-> Idle, req |-> None]

Init ==
  /\ queue = 0
  /\ reservations = {}
  /\ overdue = {}
  /\ replica = "READY"
  /\ status = [q \in Requests |-> "new"]
  /\ dispatcher = DispatcherIdle
  /\ worker = WorkerIdle
  /\ longQueue \in BOOLEAN
  /\ leaked = 0
  /\ inherited = FALSE

----------------------------------------------------------------------------
(* Routing: try_reserve_queue_slot.                                        *)

\* INCR; the new value decides what follows.
Reserve(q) ==
  /\ dispatcher.next = Idle /\ replica = "READY" /\ status[q] = "new"
  /\ queue' = queue + 1
  /\ dispatcher' = [DispatcherIdle EXCEPT !.next = "reserve", !.value = queue + 1, !.req = q]
  /\ UNCHANGED <<reservations, overdue, replica, status, worker, longQueue, leaked, inherited>>

FullByOne(value) == value > QueueLen + 1     \* fault: off by one
Full(value) == value > QueueLen

\* Over queue_len: DECR, and the request is refused.
RefuseFull ==
  /\ dispatcher.next = "reserve" /\ Full(dispatcher.value)
  /\ queue' = queue - 1
  /\ status' = [status EXCEPT ![dispatcher.req] = "rejected"]
  /\ dispatcher' = DispatcherIdle
  /\ UNCHANGED <<reservations, overdue, replica, worker, longQueue, leaked, inherited>>

\* ZADD with the expiry time; the client learns the pod's address.
Admit ==
  /\ dispatcher.next = "reserve" /\ ~Full(dispatcher.value)
  /\ reservations' = reservations \cup {dispatcher.req}
  /\ status' = [status EXCEPT ![dispatcher.req] = "routed"]
  /\ dispatcher' = DispatcherIdle
  /\ UNCHANGED <<queue, overdue, replica, worker, longQueue, leaked, inherited>>

----------------------------------------------------------------------------
(* The client and the pod.                                                 *)

AtPod == {"first", "behind"}

\* Requests waiting or executing in the pod: not those being released.
InPod == {q \in Requests : status[q] \in AtPod /\ ~(worker.next # Idle /\ worker.req = q)}

\* bts_simulator's POST to the pod, which finds it idle or not.
Deliver(q) ==
  /\ status[q] = "routed" /\ replica # "NONE"
  /\ status' = [status EXCEPT ![q] = IF InPod = {} THEN "first" ELSE "behind"]
  /\ UNCHANGED <<queue, reservations, overdue, replica, dispatcher, worker, longQueue, leaked, inherited>>

\* The answer or the POST fails; the client drops the request.
Drop(q) ==
  /\ status[q] = "routed"
  /\ status' = [status EXCEPT ![q] = "lost"]
  /\ UNCHANGED <<queue, reservations, overdue, replica, dispatcher, worker, longQueue, leaked, inherited>>

\* The request gets the semaphore and its execution time passes.
Process(q) ==
  /\ q \in InPod /\ worker.next = Idle
  /\ status[q] = "behind" => \A p \in InPod : status[p] # "first"
  /\ worker' = [next |-> "remove", req |-> q]
  /\ UNCHANGED <<queue, reservations, overdue, replica, status, dispatcher, longQueue, leaked, inherited>>

ZremForgotten(q) == reservations             \* fault: the member stays
Zrem(q) == reservations \ {q}

\* ZREM: whoever removes the member releases the slot.
WorkerGateIgnored(q) == TRUE                 \* fault: the result is ignored
WorkerGate(q) == q \in reservations
WorkerRemove ==
  /\ worker.next = "remove"
  /\ reservations' = Zrem(worker.req)
  /\ overdue' = overdue \ {worker.req}
  /\ worker' = [worker EXCEPT !.next = IF WorkerGate(worker.req) THEN "read" ELSE "report"]
  /\ UNCHANGED <<queue, replica, status, dispatcher, longQueue, leaked, inherited>>

\* GET: a counter at zero is left alone.
WorkerRead ==
  /\ worker.next = "read"
  /\ worker' = [worker EXCEPT !.next = IF queue > 0 THEN "decrement" ELSE "report"]
  /\ UNCHANGED <<queue, reservations, overdue, replica, status, dispatcher, longQueue, leaked, inherited>>

WorkerDecrement ==
  /\ worker.next = "decrement"
  /\ queue' = queue - 1
  /\ worker' = [worker EXCEPT !.next = "report"]
  /\ UNCHANGED <<reservations, overdue, replica, status, dispatcher, longQueue, leaked, inherited>>

\* RPUSH of the completion.
WorkerReport ==
  /\ worker.next = "report"
  /\ status' = [status EXCEPT ![worker.req] = "done"]
  /\ worker' = WorkerIdle
  /\ UNCHANGED <<queue, reservations, overdue, replica, dispatcher, longQueue, leaked, inherited>>

\* The pod dies with what it holds; its deployment starts another.
PodCrash ==
  /\ replica # "NONE"
  /\ leaked' = IF worker.next \in {"read", "decrement"} THEN leaked + 1 ELSE leaked
  /\ status' = [q \in Requests |-> IF status[q] \in AtPod THEN "lost" ELSE status[q]]
  /\ worker' = WorkerIdle
  /\ UNCHANGED <<queue, reservations, overdue, replica, dispatcher, longQueue, inherited>>

----------------------------------------------------------------------------
(* The sweeper: sweep_expired_reservations.                                *)

\* The reservation's score passes.  One execution is shorter than deadline + 5 s;
\* only behind other requests may a request wait for longer.
TtlPasses(q) ==
  /\ q \in reservations \ overdue
  /\ status[q] \in {"routed", "first", "behind"} =>
       longQueue /\ status[q] = "behind"
  /\ overdue' = overdue \cup {q}
  /\ UNCHANGED <<queue, reservations, replica, status, dispatcher, worker, longQueue, leaked, inherited>>

Sweeping(next, batch) == [next |-> next, value |-> 0, batch |-> batch, req |-> None]
NextInBatch(batch) == IF batch = {} THEN DispatcherIdle ELSE Sweeping("sweep", batch)

\* ZRANGEBYSCORE.
SweepBegin ==
  /\ dispatcher.next = Idle /\ overdue # {}
  /\ dispatcher' = Sweeping("sweep", overdue)
  /\ UNCHANGED <<queue, reservations, overdue, replica, status, worker, longQueue, leaked, inherited>>

\* ZREM of one member; the slot is released only if it was still there.
SweepGateIgnored(q) == TRUE                  \* fault: the result is ignored
SweepGate(q) == q \in reservations
SweepRemove(q) ==
  /\ dispatcher.next = "sweep" /\ q \in dispatcher.batch
  /\ reservations' = Zrem(q)
  /\ overdue' = overdue \ {q}
  /\ dispatcher' = IF SweepGate(q)
                     THEN Sweeping("read", dispatcher.batch \ {q})
                     ELSE NextInBatch(dispatcher.batch \ {q})
  /\ UNCHANGED <<queue, replica, status, worker, longQueue, leaked, inherited>>

\* release_queue_slot: GET ...
SweepRead ==
  /\ dispatcher.next = "read"
  /\ dispatcher' = IF queue > 0 THEN Sweeping("decrement", dispatcher.batch)
                                ELSE NextInBatch(dispatcher.batch)
  /\ UNCHANGED <<queue, reservations, overdue, replica, status, worker, longQueue, leaked, inherited>>

\* ... and DECR.
SweepDecrement ==
  /\ dispatcher.next = "decrement"
  /\ queue' = queue - 1
  /\ dispatcher' = NextInBatch(dispatcher.batch)
  /\ UNCHANGED <<reservations, overdue, replica, status, worker, longQueue, leaked, inherited>>

----------------------------------------------------------------------------
(* _delete_replica and _create_replica.                                    *)

StartDelete ==
  /\ dispatcher.next = Idle /\ replica = "READY"
  /\ replica' = "DRAINING"
  /\ UNCHANGED <<queue, reservations, overdue, status, dispatcher, worker, longQueue, leaked, inherited>>

WaitIsOverAtOne == queue <= 1                \* fault: off by one
WaitForZero == queue <= 0                    \* fault: no max_wait
\* The wait ends when the counter is zero, or after queue_len executions and
\* the grace period, which is when every request that reached the pod is done.
WaitIsOver ==
  \/ queue <= 0
  \/ /\ worker.next = Idle
     /\ \A q \in reservations : status[q] = "lost"

\* delete_deployment: the pod goes with what it still holds.
DeleteDeployment ==
  /\ dispatcher.next = Idle /\ replica = "DRAINING" /\ WaitIsOver
  /\ dispatcher' = [DispatcherIdle EXCEPT !.next = "delete"]
  /\ status' = [q \in Requests |-> IF status[q] = "routed" \/ q \in InPod
                                     THEN "lost" ELSE status[q]]
  /\ UNCHANGED <<queue, reservations, overdue, replica, worker, longQueue, leaked, inherited>>

\* remove_replica deletes the counter, not the reservations.
RemoveReplica ==
  /\ dispatcher.next = "delete"
  /\ queue' = 0 /\ leaked' = 0
  /\ replica' = "NONE"
  /\ dispatcher' = DispatcherIdle
  /\ UNCHANGED <<reservations, overdue, status, worker, longQueue, inherited>>

\* The replica is created again, by a later decision tick or by the same one.
\* The commands of the old pod end long before the new one is READY.
CreateReplica ==
  /\ dispatcher.next = Idle /\ replica = "NONE" /\ worker.next = Idle
  /\ replica' = "READY"
  /\ inherited' = (reservations # {} \/ queue # 0)
  /\ UNCHANGED <<queue, reservations, overdue, status, dispatcher, worker, longQueue, leaked>>

----------------------------------------------------------------------------
DispatcherStep ==
  \/ RefuseFull \/ Admit
  \/ \E q \in Requests : SweepRemove(q)
  \/ SweepRead \/ SweepDecrement
  \/ RemoveReplica

WorkerStep == WorkerRemove \/ WorkerRead \/ WorkerDecrement \/ WorkerReport

Next ==
  \/ DispatcherStep \/ WorkerStep
  \/ \E q \in Requests : Reserve(q) \/ Deliver(q) \/ Drop(q) \/ Process(q) \/ TtlPasses(q)
  \/ SweepBegin \/ StartDelete \/ DeleteDeployment \/ CreateReplica
  \/ PodCrash

Spec == Init /\ [][Next]_vars

\* Neither process stops in mid-sequence; the client's POST ends; the pod
\* serves its queue; scores pass, a drain's wait ends, and the sweeper runs every
\* 10 s, whatever the ticks create and delete between two of its rounds.
Fairness ==
  /\ WF_vars(DispatcherStep) /\ WF_vars(WorkerStep)
  /\ SF_vars(SweepBegin) /\ WF_vars(DeleteDeployment)
  /\ \A q \in Requests : /\ WF_vars(Deliver(q) \/ Drop(q))
                         /\ WF_vars(Process(q)) /\ WF_vars(TtlPasses(q))
FairSpec == Spec /\ Fairness

----------------------------------------------------------------------------
\* The type of every key and variable; only what a deleted replica left behind
\* can make the counter negative.
TypeOK ==
  /\ queue \in Int /\ (~inherited => queue >= 0)
  /\ reservations \subseteq Requests /\ overdue \subseteq reservations
  /\ replica \in {"READY", "DRAINING", "NONE"}
  /\ status \in [Requests -> {"new", "rejected", "routed", "first", "behind", "done", "lost"}]
  /\ dispatcher \in [next : {Idle, "reserve", "sweep", "read", "decrement", "delete"},
                     value : Int, batch : SUBSET Requests, req : Requests \cup {None}]
  /\ worker \in [next : {Idle, "remove", "read", "decrement", "report"},
                 req : Requests \cup {None}]
  /\ longQueue \in BOOLEAN /\ leaked \in Nat /\ inherited \in BOOLEAN

\* Slots taken or not yet given back by a sequence under way.
DispatcherHolds == IF dispatcher.next \in {"reserve", "read", "decrement"} THEN 1 ELSE 0
WorkerHolds == IF worker.next \in {"read", "decrement"} THEN 1 ELSE 0

\* The counter that admission and the scaling decisions read is the number of
\* reservations, once the sequences under way are accounted for: a slot is
\* released exactly once, by the worker or by the sweeper, and the only ones
\* that leak are those of a pod that crashed between ZREM and DECR.  Only a
\* replica that inherited reservations of its predecessor is left out: the
\* sweeper takes their slots from the new counter.
SlotsMatchReservations ==
  replica # "NONE" /\ ~inherited =>
    queue = Cardinality(reservations) + DispatcherHolds + WorkerHolds + leaked

\* The pod of a service whose reservations outlive its queue never holds more
\* requests than queue_len, although admission only looks at a counter that
\* three parties change, and crashes leave behind.
PodWithinCapacity == ~longQueue /\ ~inherited => Cardinality(InPod) <= QueueLen

\* What README.md:107 says of every replica, those of services 12 to 15
\* included: its queue has the capacity queue_len.
NoPodAboveCapacity == Cardinality(InPod) <= QueueLen

\* The deletion that ends a drain destroys no request that was routed there, in
\* a service whose reservations outlive its queue.
DrainLosesNothing ==
  [][~longQueue /\ ~inherited /\ dispatcher.next # "delete" /\ dispatcher'.next = "delete" =>
       \A q \in Requests : status'[q] = "lost" => status[q] = "lost"]_vars

\* Every reservation ends, whatever crashes: no slot is held for ever.
ReservationsEnd == \A q \in Requests : q \in reservations ~> q \notin reservations

\* A drain ends, even when the counter never returns to zero.
DrainEnds == replica = "DRAINING" ~> replica = "NONE"

\* Both: nothing that Redis keeps for a replica is kept for ever.
ReplicaStateEnds == ReservationsEnd /\ DrainEnds
=============================================================================
