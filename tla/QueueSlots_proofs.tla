-------------------------- MODULE QueueSlots_proofs -------------------------
(***************************************************************************)
(* Proofs about QueueSlots, for every set of requests and every queue_len. *)
(***************************************************************************)
EXTENDS QueueSlots, FiniteSetTheorems, TLAPS

\* A slot being reserved is for a request nobody has seen yet.
DispatcherInv ==
  /\ dispatcher.next = "reserve" =>
       /\ dispatcher.req \in Requests /\ status[dispatcher.req] = "new"
       /\ replica = "READY"
  /\ dispatcher.next = "delete" => replica = "DRAINING"
  /\ dispatcher.next = Idle => dispatcher.batch = {}
  /\ \A q \in reservations : status[q] # "new"

\* The worker releases the slot of a request that is still at the pod.
WorkerInv ==
  worker.next # Idle => worker.req \in Requests /\ status[worker.req] \in AtPod

\* From the deletion to the next creation nothing is on its way, and unless the
\* replica inherited reservations nobody touches the counter, because what is
\* being released holds no slot.
GoneInv ==
  dispatcher.next = "delete" \/ replica = "NONE" =>
    /\ \A q \in Requests : status[q] # "routed" /\ q \notin InPod
    /\ ~inherited => WorkerHolds = 0
    /\ ~inherited /\ worker.next = "remove" => worker.req \notin reservations
NoneInv ==
  replica = "NONE" =>
    /\ leaked = 0
    /\ ~inherited => queue = 0 /\ dispatcher.next \notin {"reserve", "decrement"}

Inv == TypeOK /\ SlotsMatchReservations /\ DispatcherInv /\ WorkerInv /\ GoneInv /\ NoneInv

USE DEF Idle

\* Cardinalities of the sets of reservations that the commands produce.
LEMMA ReservationsFinite ==
  ASSUME TypeOK
  PROVE  /\ IsFiniteSet(reservations)
         /\ Cardinality(reservations) \in Nat
         /\ \A q \in Requests : q \notin reservations =>
              Cardinality(reservations \cup {q}) = Cardinality(reservations) + 1
         /\ \A q \in reservations :
              Cardinality(reservations \ {q}) = Cardinality(reservations) - 1
         /\ Cardinality(reservations) = 0 <=> reservations = {}
<1>1. IsFiniteSet(reservations)
  BY RequestsAssumption, FS_Subset DEF TypeOK
<1> QED
  BY <1>1, FS_CardinalityType, FS_AddElement, FS_RemoveElement, FS_EmptySet

DispatcherSequences ==
  [next : {Idle, "reserve", "sweep", "read", "decrement", "delete"},
   value : Int, batch : SUBSET Requests, req : Requests \cup {None}]

\* The sequences that the dispatcher starts or goes on with.
LEMMA DispatcherTypes ==
  /\ DispatcherIdle \in DispatcherSequences
  /\ \A batch \in SUBSET Requests, next \in {"sweep", "read", "decrement"} :
       Sweeping(next, batch) \in DispatcherSequences
  /\ \A batch \in SUBSET Requests : NextInBatch(batch) \in DispatcherSequences
BY DEF DispatcherSequences, DispatcherIdle, Sweeping, NextInBatch

\* The invariant holds before the first command.
LEMMA InitInv == Init => Inv
<1> SUFFICES ASSUME Init PROVE Inv
  OBVIOUS
<1> USE DEF Init, DispatcherIdle, WorkerIdle
<1>1. TypeOK
  <2>1. inherited \in BOOLEAN
    BY Zenon
  <2> QED
    BY <2>1, DispatcherTypes DEF TypeOK, DispatcherSequences
<1>2. SlotsMatchReservations
  BY FS_EmptySet DEF SlotsMatchReservations, DispatcherHolds, WorkerHolds
<1>3. DispatcherInv /\ WorkerInv /\ GoneInv /\ NoneInv
  BY DEF DispatcherInv, WorkerInv, GoneInv, NoneInv
<1> QED
  BY <1>1, <1>2, <1>3 DEF Inv

\* Every command of dispatcher, worker and sweeper keeps it.
LEMMA NextInv == Inv /\ [Next]_vars => Inv'
<1> SUFFICES ASSUME Inv, [Next]_vars PROVE Inv'
  OBVIOUS
<1> USE ReservationsFinite, QueueLenAssumption, RequestsAssumption
    DEF Inv, TypeOK, SlotsMatchReservations, DispatcherHolds, WorkerHolds,
        DispatcherInv, WorkerInv, GoneInv, NoneInv, DispatcherIdle, WorkerIdle,
        InPod, AtPod
<1>1. ASSUME NEW q \in Requests, Reserve(q) PROVE Inv'
  <2>a. dispatcher' = [next |-> "reserve", value |-> queue + 1, batch |-> {}, req |-> q]
    BY <1>1 DEF Reserve
  <2>1. TypeOK'
    BY <1>1, <2>a DEF Reserve
  <2>2. SlotsMatchReservations'
    BY <1>1 DEF Reserve
  <2>3. DispatcherInv'
    BY <1>1 DEF Reserve
  <2>4. WorkerInv'
    BY <1>1 DEF Reserve
  <2>5. GoneInv'
    BY <1>1 DEF Reserve
  <2>6. NoneInv'
    BY <1>1 DEF Reserve
  <2> QED
    BY <2>1, <2>2, <2>3, <2>4, <2>5, <2>6
<1>2. CASE RefuseFull
  BY <1>2 DEF RefuseFull, Full
<1>3. CASE Admit
  BY <1>3 DEF Admit
<1>4. ASSUME NEW q \in Requests, Deliver(q) PROVE Inv'
  BY <1>4 DEF Deliver
<1>5. ASSUME NEW q \in Requests, Drop(q) PROVE Inv'
  BY <1>5 DEF Drop
<1>6. ASSUME NEW q \in Requests, Process(q) PROVE Inv'
  BY <1>6 DEF Process
<1>7. CASE WorkerRemove
  <2>1. TypeOK'
    BY <1>7 DEF WorkerRemove, WorkerGate, Zrem
  <2>a. Cardinality(reservations') = IF WorkerGate(worker.req)
                                       THEN Cardinality(reservations) - 1
                                       ELSE Cardinality(reservations)
    <3>1. ~WorkerGate(worker.req) => reservations' = reservations
      BY <1>7 DEF WorkerRemove, WorkerGate, Zrem
    <3> QED
      BY <1>7, <3>1 DEF WorkerRemove, WorkerGate, Zrem
  <2>b. WorkerHolds = 0 /\ WorkerHolds' = IF WorkerGate(worker.req) THEN 1 ELSE 0
    BY <1>7 DEF WorkerRemove
  <2>2. SlotsMatchReservations'
    BY <1>7, <2>a, <2>b DEF WorkerRemove
  <2>3. DispatcherInv'
    BY <1>7 DEF WorkerRemove, WorkerGate, Zrem
  <2>4. WorkerInv'
    BY <1>7 DEF WorkerRemove, WorkerGate, Zrem
  <2>5. GoneInv'
    BY <1>7 DEF WorkerRemove, WorkerGate, Zrem
  <2>6. NoneInv'
    BY <1>7 DEF WorkerRemove, WorkerGate, Zrem
  <2> QED
    BY <2>1, <2>2, <2>3, <2>4, <2>5, <2>6
<1>8. CASE WorkerRead
  BY <1>8 DEF WorkerRead
<1>9. CASE WorkerDecrement
  BY <1>9 DEF WorkerDecrement
<1>10. CASE WorkerReport
  BY <1>10 DEF WorkerReport
<1>11. CASE PodCrash
  BY <1>11 DEF PodCrash
<1>12. ASSUME NEW q \in Requests, TtlPasses(q) PROVE Inv'
  BY <1>12 DEF TtlPasses
<1>13. CASE SweepBegin
  BY <1>13 DEF SweepBegin, Sweeping
<1>14. ASSUME NEW q \in Requests, SweepRemove(q) PROVE Inv'
  <2>1. TypeOK'
    BY <1>14 DEF SweepRemove, SweepGate, Zrem, NextInBatch, Sweeping
  <2>a. Cardinality(reservations') = IF SweepGate(q)
                                       THEN Cardinality(reservations) - 1
                                       ELSE Cardinality(reservations)
    <3>1. ~SweepGate(q) => reservations' = reservations
      BY <1>14 DEF SweepRemove, SweepGate, Zrem
    <3> QED
      BY <1>14, <3>1 DEF SweepRemove, SweepGate, Zrem
  <2>b. DispatcherHolds = 0 /\ DispatcherHolds' = IF SweepGate(q) THEN 1 ELSE 0
    BY <1>14 DEF SweepRemove, NextInBatch, Sweeping
  <2>2. SlotsMatchReservations'
    BY <1>14, <2>a, <2>b DEF SweepRemove
  <2>3. DispatcherInv'
    BY <1>14 DEF SweepRemove, SweepGate, Zrem, NextInBatch, Sweeping
  <2>4. WorkerInv'
    BY <1>14 DEF SweepRemove, SweepGate, Zrem, NextInBatch, Sweeping
  <2>5. GoneInv'
    BY <1>14 DEF SweepRemove, SweepGate, Zrem, NextInBatch, Sweeping
  <2>6. NoneInv'
    BY <1>14 DEF SweepRemove, SweepGate, Zrem, NextInBatch, Sweeping
  <2> QED
    BY <2>1, <2>2, <2>3, <2>4, <2>5, <2>6
<1>15. CASE SweepRead
  <2>1. TypeOK'
    BY <1>15 DEF SweepRead, NextInBatch, Sweeping
  <2>2. SlotsMatchReservations'
    BY <1>15 DEF SweepRead, NextInBatch, Sweeping
  <2>3. DispatcherInv'
    BY <1>15 DEF SweepRead, NextInBatch, Sweeping
  <2>4. WorkerInv'
    BY <1>15 DEF SweepRead, NextInBatch, Sweeping
  <2>5. GoneInv'
    BY <1>15 DEF SweepRead, NextInBatch, Sweeping
  <2>6. NoneInv'
    BY <1>15 DEF SweepRead, NextInBatch, Sweeping
  <2> QED
    BY <2>1, <2>2, <2>3, <2>4, <2>5, <2>6
<1>16. CASE SweepDecrement
  <2>a. queue - 1 \in Int /\ (~inherited => queue - 1 >= 0)
    BY <1>16 DEF SweepDecrement
  <2>b. dispatcher' \in [next : {Idle, "reserve", "sweep", "read", "decrement", "delete"},
                         value : Int, batch : SUBSET Requests, req : Requests \cup {None}]
    BY <1>16 DEF SweepDecrement, NextInBatch, Sweeping
  <2>1. TypeOK'
    BY <1>16, <2>a, <2>b DEF SweepDecrement
  <2>2. SlotsMatchReservations'
    BY <1>16 DEF SweepDecrement, NextInBatch, Sweeping
  <2>3. DispatcherInv'
    BY <1>16 DEF SweepDecrement, NextInBatch, Sweeping
  <2>4. WorkerInv'
    BY <1>16 DEF SweepDecrement, NextInBatch, Sweeping
  <2>5. GoneInv'
    BY <1>16 DEF SweepDecrement, NextInBatch, Sweeping
  <2>6. NoneInv'
    BY <1>16 DEF SweepDecrement, NextInBatch, Sweeping
  <2> QED
    BY <2>1, <2>2, <2>3, <2>4, <2>5, <2>6
<1>17. CASE StartDelete
  BY <1>17 DEF StartDelete
<1>18. CASE DeleteDeployment
  <2>1. TypeOK'
    BY <1>18 DEF DeleteDeployment
  <2>2. SlotsMatchReservations'
    BY <1>18 DEF DeleteDeployment
  <2>3. DispatcherInv'
    BY <1>18 DEF DeleteDeployment
  <2>4. WorkerInv'
    BY <1>18 DEF DeleteDeployment
  <2>5. GoneInv'
    <3>1. CASE queue <= 0
      <4>1. ~inherited => Cardinality(reservations) = 0 /\ WorkerHolds = 0
        BY <1>18, <3>1 DEF DeleteDeployment
      <4>2. ~inherited => reservations = {}
        BY <4>1
      <4> QED
        BY <1>18, <4>1, <4>2 DEF DeleteDeployment
    <3>2. CASE worker.next = "idle"
      BY <1>18, <3>2 DEF DeleteDeployment
    <3> QED
      BY <1>18, <3>1, <3>2 DEF DeleteDeployment, WaitIsOver
  <2>6. NoneInv'
    BY <1>18 DEF DeleteDeployment
  <2> QED
    BY <2>1, <2>2, <2>3, <2>4, <2>5, <2>6
<1>19. CASE RemoveReplica
  BY <1>19 DEF RemoveReplica
<1>20. CASE CreateReplica
  <2>1. inherited' \in BOOLEAN
    BY Zenon, <1>20 DEF CreateReplica
  <2>2. ~inherited' => reservations = {} /\ queue = 0
    BY <1>20 DEF CreateReplica
  <2>3. queue' = queue /\ reservations' = reservations /\ replica' = "READY" /\ replica = "NONE"
        /\ UNCHANGED <<overdue, status, dispatcher, worker, longQueue, leaked>>
        /\ dispatcher.next = Idle /\ worker.next = Idle
    BY <1>20 DEF CreateReplica
  <2>4. TypeOK'
    BY <2>1, <2>2, <2>3
  <2>5. SlotsMatchReservations'
    BY <2>2, <2>3
  <2>6. DispatcherInv' /\ WorkerInv' /\ GoneInv' /\ NoneInv'
    BY <2>3
  <2> QED
    BY <2>4, <2>5, <2>6
<1>21. CASE UNCHANGED vars
  BY <1>21 DEF vars
<1> QED
  BY <1>1, <1>2, <1>3, <1>4, <1>5, <1>6, <1>7, <1>8, <1>9, <1>10, <1>11, <1>12, <1>13, <1>14, <1>15, <1>16, <1>17, <1>18, <1>19, <1>20, <1>21 DEF Next, DispatcherStep, WorkerStep

\* The commands keep every counter, set and status in its range: queue_len is
\* never written with anything but a number of slots (redis_state.py).
THEOREM SlotsTypeCorrect == Spec => []TypeOK
<1>1. Inv => TypeOK
  BY DEF Inv
<1> QED
  BY <1>1, InitInv, NextInv, PTL DEF Spec

\* The counter of queue slots is never negative and equals the number of
\* reservations, whatever the interleaving of dispatcher, sweeper and worker,
\* but for the slots of pods that died between ZREM and DECR (the worker's
\* app.py:95-106, redis_state.py:try_reserve_queue_slot and
\* sweep_expired_reservations).
THEOREM SlotsAreExact == Spec => [](TypeOK /\ SlotsMatchReservations)
<1>1. Inv => TypeOK /\ SlotsMatchReservations
  BY DEF Inv
<1> QED
  BY <1>1, InitInv, NextInv, PTL DEF Spec

----------------------------------------------------------------------------
(* The pod's capacity, when no request outlives its reservation.           *)

OnItsWay == {q \in Requests : status[q] = "routed"} \cup InPod

CapacityInv ==
  ~longQueue /\ ~inherited =>
    /\ Cardinality(reservations) <= QueueLen
    /\ dispatcher.next = "reserve" => Cardinality(reservations) < dispatcher.value
    /\ OnItsWay \subseteq reservations
    /\ \A q \in overdue \cup dispatcher.batch :
         status[q] \notin {"new", "routed"} \cup AtPod

\* The pod is empty at first.
LEMMA InitCapacityInv == Init => CapacityInv
BY FS_EmptySet, QueueLenAssumption
   DEF Init, CapacityInv, OnItsWay, InPod, AtPod, DispatcherIdle, WorkerIdle

\* Every command keeps the reservations of what is in the pod.
LEMMA NextCapacityInv == Inv /\ CapacityInv /\ [Next]_vars => CapacityInv'
<1>m. [Next]_vars => CreateReplica \/ UNCHANGED <<longQueue, inherited>>
  BY DEF Next, DispatcherStep, WorkerStep, vars, Reserve, RefuseFull, Admit, Deliver, Drop,
         Process, WorkerRemove, WorkerRead, WorkerDecrement, WorkerReport, PodCrash,
         TtlPasses, SweepBegin, SweepRemove, SweepRead, SweepDecrement, StartDelete,
         DeleteDeployment, RemoveReplica
<1>l. [Next]_vars => UNCHANGED longQueue /\ (CreateReplica \/ UNCHANGED inherited)
  BY <1>m DEF CreateReplica
<1> SUFFICES ASSUME Inv, CapacityInv, [Next]_vars, ~longQueue PROVE CapacityInv'
  BY <1>l DEF CapacityInv
<1>f. TypeOK
  BY DEF Inv
<1> USE <1>f, ReservationsFinite, QueueLenAssumption, RequestsAssumption
    DEF Inv, TypeOK, SlotsMatchReservations, DispatcherHolds, WorkerHolds,
        DispatcherInv, WorkerInv, GoneInv, NoneInv, DispatcherIdle, WorkerIdle,
        InPod, AtPod, CapacityInv, OnItsWay
<1>20. CASE CreateReplica
  BY <1>20, FS_EmptySet DEF CreateReplica
<1> SUFFICES ASSUME ~inherited, inherited' = inherited PROVE CapacityInv'
  BY <1>20, <1>l
<1>1. ASSUME NEW q \in Requests, Reserve(q) PROVE CapacityInv'
  BY <1>1 DEF Reserve
<1>2. CASE RefuseFull
  BY <1>2 DEF RefuseFull, Full
<1>3. CASE Admit
  BY <1>3 DEF Admit, Full
<1>4. ASSUME NEW q \in Requests, Deliver(q) PROVE CapacityInv'
  BY <1>4 DEF Deliver
<1>5. ASSUME NEW q \in Requests, Drop(q) PROVE CapacityInv'
  BY <1>5 DEF Drop
<1>6. ASSUME NEW q \in Requests, Process(q) PROVE CapacityInv'
  BY <1>6 DEF Process
<1>7. CASE WorkerRemove
  <2>1. /\ Cardinality(reservations') \in Nat
        /\ Cardinality(reservations') <= Cardinality(reservations)
    <3>1. CASE worker.req \in reservations
      BY <1>7, <3>1 DEF WorkerRemove, Zrem
    <3>2. CASE worker.req \notin reservations
      <4>1. reservations' = reservations
        BY <1>7, <3>2 DEF WorkerRemove, Zrem
      <4> QED
        BY <4>1
    <3> QED
      BY <3>1, <3>2
  <2>2. (Cardinality(reservations) <= QueueLen)'
    BY <2>1
  <2>3. (dispatcher.next = "reserve" => Cardinality(reservations) < dispatcher.value)'
    BY <1>7, <2>1 DEF WorkerRemove, WorkerGate, Zrem
  <2>4. (OnItsWay \subseteq reservations)'
    BY <1>7 DEF WorkerRemove, WorkerGate, Zrem
  <2>5. (\A q \in overdue \cup dispatcher.batch : status[q] \notin {"new", "routed"} \cup AtPod)'
    BY <1>7 DEF WorkerRemove, WorkerGate, Zrem
  <2> QED
    BY <2>2, <2>3, <2>4, <2>5
<1>8. CASE WorkerRead
  BY <1>8 DEF WorkerRead
<1>9. CASE WorkerDecrement
  BY <1>9 DEF WorkerDecrement
<1>10. CASE WorkerReport
  BY <1>10 DEF WorkerReport
<1>11. CASE PodCrash
  BY <1>11 DEF PodCrash
<1>12. ASSUME NEW q \in Requests, TtlPasses(q) PROVE CapacityInv'
  BY <1>12 DEF TtlPasses
<1>13. CASE SweepBegin
  BY <1>13 DEF SweepBegin, Sweeping
<1>14. ASSUME NEW q \in Requests, SweepRemove(q) PROVE CapacityInv'
  <2>1. /\ Cardinality(reservations') \in Nat
        /\ Cardinality(reservations') <= Cardinality(reservations)
    <3>1. CASE q \in reservations
      BY <1>14, <3>1 DEF SweepRemove, Zrem
    <3>2. CASE q \notin reservations
      <4>1. reservations' = reservations
        BY <1>14, <3>2 DEF SweepRemove, Zrem
      <4> QED
        BY <4>1
    <3> QED
      BY <3>1, <3>2
  <2>2. (Cardinality(reservations) <= QueueLen)'
    BY <2>1
  <2>3. (dispatcher.next = "reserve" => Cardinality(reservations) < dispatcher.value)'
    BY <1>14, <2>1 DEF SweepRemove, SweepGate, Zrem, NextInBatch, Sweeping
  <2>4. (OnItsWay \subseteq reservations)'
    BY <1>14 DEF SweepRemove, SweepGate, Zrem, NextInBatch, Sweeping
  <2>5. (\A p \in overdue \cup dispatcher.batch : status[p] \notin {"new", "routed"} \cup AtPod)'
    BY <1>14 DEF SweepRemove, SweepGate, Zrem, NextInBatch, Sweeping
  <2> QED
    BY <2>2, <2>3, <2>4, <2>5
<1>15. CASE SweepRead
  BY <1>15 DEF SweepRead, NextInBatch, Sweeping
<1>16. CASE SweepDecrement
  BY <1>16 DEF SweepDecrement, NextInBatch, Sweeping
<1>17. CASE StartDelete
  BY <1>17 DEF StartDelete
<1>18. CASE DeleteDeployment
  BY <1>18 DEF DeleteDeployment
<1>19. CASE RemoveReplica
  BY <1>19 DEF RemoveReplica
<1>21. CASE UNCHANGED vars
  BY <1>21 DEF vars
<1> QED
  BY <1>1, <1>2, <1>3, <1>4, <1>5, <1>6, <1>7, <1>8, <1>9, <1>10, <1>11, <1>12, <1>13, <1>14,
     <1>15, <1>16, <1>17, <1>18, <1>19, <1>20, <1>21
     DEF Next, DispatcherStep, WorkerStep

\* A pod never holds more requests than queue_len, for every interleaving, when
\* a reservation outlives the stay of its request in the pod (services 1 to 11).
THEOREM PodCapacity == Spec => []PodWithinCapacity
<1>1. Inv /\ CapacityInv => PodWithinCapacity
  <2> SUFFICES ASSUME Inv, CapacityInv, ~longQueue, ~inherited PROVE PodWithinCapacity
    BY DEF PodWithinCapacity
  <2>1. TypeOK /\ InPod \subseteq reservations
    BY DEF Inv, CapacityInv, OnItsWay
  <2>2. IsFiniteSet(reservations) /\ Cardinality(reservations) \in Nat
    BY <2>1, ReservationsFinite
  <2>3. IsFiniteSet(InPod) /\ Cardinality(InPod) <= Cardinality(reservations)
    BY <2>1, <2>2, FS_Subset
  <2>4. Cardinality(InPod) \in Nat
    BY <2>3, FS_CardinalityType
  <2> QED
    BY <2>2, <2>3, <2>4, QueueLenAssumption DEF CapacityInv, PodWithinCapacity
<1> QED
  BY <1>1, InitInv, NextInv, InitCapacityInv, NextCapacityInv, PTL DEF Spec

\* _delete_replica never deletes a pod that still holds a request, or to which
\* one is on its way, when reservations outlive the stay in the pod.
THEOREM DrainIsGraceful == Spec => DrainLosesNothing
<1> DEFINE NothingLost ==
      ~longQueue /\ ~inherited /\ dispatcher.next # "delete" /\ dispatcher'.next = "delete" =>
        \A q \in Requests : status'[q] = "lost" => status[q] = "lost"
<1>1. ASSUME Inv, CapacityInv, DeleteDeployment, ~longQueue, ~inherited PROVE NothingLost
  <2>1. OnItsWay = {}
    <3>1. CASE queue <= 0
      <4>1. TypeOK /\ dispatcher.next = Idle /\ replica = "DRAINING"
        BY <1>1 DEF Inv, DeleteDeployment
      <4>2. Cardinality(reservations) = 0
        BY <4>1, <3>1, <1>1, ReservationsFinite
           DEF Inv, SlotsMatchReservations, DispatcherHolds, WorkerHolds, TypeOK
      <4>3. reservations = {}
        BY <4>1, <4>2, ReservationsFinite
      <4> QED
        BY <4>3, <1>1 DEF CapacityInv
    <3>2. CASE \A q \in reservations : status[q] = "lost"
      BY <3>2, <1>1 DEF CapacityInv, OnItsWay, InPod, AtPod
    <3> QED
      BY <3>1, <3>2, <1>1 DEF DeleteDeployment, WaitIsOver
  <2> QED
    BY <2>1, <1>1 DEF DeleteDeployment, OnItsWay, Inv, TypeOK
<1>2. ASSUME Inv, CapacityInv, [Next]_vars PROVE [NothingLost]_vars
  <2>1. CASE DeleteDeployment
    BY <2>1, <1>1, <1>2 DEF vars
  <2>2. CASE Next /\ ~DeleteDeployment
    <3>d. dispatcher \in [next : {Idle, "reserve", "sweep", "read", "decrement", "delete"},
                          value : Int, batch : SUBSET Requests, req : Requests \cup {None}]
      BY <1>2 DEF Inv, TypeOK
    <3>1. CASE WorkerStep \/ StartDelete \/ CreateReplica \/ PodCrash
               \/ \E q \in Requests : Deliver(q) \/ Drop(q) \/ Process(q) \/ TtlPasses(q)
      <4>1. dispatcher' = dispatcher
        BY <3>1 DEF WorkerStep, WorkerRemove, WorkerRead, WorkerDecrement, WorkerReport,
                    StartDelete, CreateReplica, PodCrash, Deliver, Drop, Process, TtlPasses
      <4> QED
        BY <4>1
    <3>2. CASE SweepBegin \/ \E q \in Requests : Reserve(q)
      BY <3>2 DEF SweepBegin, Sweeping, Reserve, DispatcherIdle
    <3>3. CASE RefuseFull \/ Admit \/ RemoveReplica
      BY <3>3 DEF RefuseFull, Admit, RemoveReplica, DispatcherIdle
    <3>4. CASE SweepRead \/ SweepDecrement
      BY <3>4, <3>d DEF SweepRead, SweepDecrement, NextInBatch, Sweeping, DispatcherIdle
    <3>5. CASE \E q \in Requests : SweepRemove(q)
      BY <3>5, <3>d DEF SweepRemove, NextInBatch, Sweeping, DispatcherIdle
    <3> QED
      BY <2>2, <3>1, <3>2, <3>3, <3>4, <3>5 DEF Next, DispatcherStep
  <2> QED
    BY <2>1, <2>2, <1>2
<1> QED
  BY <1>2, InitInv, NextInv, InitCapacityInv, NextCapacityInv, PTL DEF Spec, DrainLosesNothing

=============================================================================
