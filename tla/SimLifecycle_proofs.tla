------------------------- MODULE SimLifecycle_proofs ------------------------
(***************************************************************************)
(* Proofs about SimLifecycle, for every set of servers and services, every *)
(* capacity and every delay.                                               *)
(***************************************************************************)
EXTENDS SimLifecycle, Placement_proofs, FiniteSetTheorems, TLAPS

----------------------------------------------------------------------------
(* The heap holds finitely many well-formed events.                        *)

EventSet == [type : {"SERVER_BOOT_DONE", "SERVER_DRAIN_DONE", "REPLICA_READY",
                     "REPLICA_TERMINATED", "DECISION_TICK"},
             server : Servers \cup {None}, service : Services \cup {None}]

HeapOK(h) == IsFiniteSet(h) /\ \A e \in h : e \in EventRecord
BatchOK(batch) == IsFiniteSet(batch) /\ batch \subseteq Nat \X EventSet

\* The image of a finite set is finite.
LEMMA ImageFinite ==
  ASSUME NEW S, IsFiniteSet(S), NEW f
  PROVE  IsFiniteSet({f[x] : x \in S})
<1> DEFINE T == {f[x] : x \in S}
           g == [x \in S |-> f[x]]
<1>1. g \in Surjection(S, T)
  BY DEF Surjection
<1> QED
  BY <1>1, FS_Surjection

\* The delays are natural numbers.
LEMMA DelaysType ==
  {BootDelay, PodStartup, Graceful, DrainGrace, DecisionInterval, Cooldown,
   MinActive, MinReplicaAge} \subseteq Nat
BY DelaysAssumption

\* The events are pairs of a kind and a target.
LEMMA EventsType ==
  ASSUME NEW s \in Servers, NEW v \in Services
  PROVE  {BootDone(s), DrainDone(s), Ready(s, v), Terminated(s, v), DecisionTick}
           \subseteq EventSet
BY DEF EventSet, Event, BootDone, DrainDone, Ready, Terminated, DecisionTick

\* _push keeps the heap well-typed.
LEMMA PushType ==
  ASSUME NEW h, HeapOK(h), NEW batch, BatchOK(batch)
  PROVE  HeapOK(Push(h, batch))
<1> DEFINE rank(b) == Cardinality({x \in h : x.in = b[1]})
           f == [b \in batch |-> [in |-> b[1], rank |-> rank(b), ev |-> b[2]]]
           new == {f[b] : b \in batch}
<1>1. Push(h, batch) = h \cup new
  BY DEF Push
<1>2. IsFiniteSet(new)
  <2> HIDE DEF f
  <2> QED
    BY ImageFinite DEF BatchOK
<1>3. IsFiniteSet(h \cup new)
  <2> HIDE DEF new
  <2> QED
    BY <1>2, FS_Union DEF HeapOK
<1>4. ASSUME NEW b \in batch PROVE f[b] \in EventRecord
  <2>1. rank(b) \in Nat
    BY FS_Subset, FS_CardinalityType DEF HeapOK
  <2>2. b[1] \in Nat /\ b[2] \in EventSet
    BY DEF BatchOK
  <2> HIDE DEF rank
  <2> QED
    BY <2>1, <2>2 DEF EventRecord, EventSet
<1> QED
  BY <1>1, <1>3, <1>4 DEF HeapOK

\* One event is a batch.
LEMMA SingletonBatch ==
  ASSUME NEW d \in Nat, NEW ev \in EventSet
  PROVE  BatchOK({<<d, ev>>})
<1>1. IsFiniteSet({<<d, ev>>})
  BY FS_Singleton
<1> QED
  BY <1>1 DEF BatchOK

\* The boots of an emergency are a batch.
LEMMA BootsBatch ==
  ASSUME NEW S \in SUBSET Servers
  PROVE  BatchOK(Boots(S))
<1> DEFINE f == [s \in S |-> <<BootDelay, BootDone(s)>>]
<1>1. Boots(S) = {f[s] : s \in S}
  BY DEF Boots
<1>2. IsFiniteSet(S)
  BY FS_Subset, ServersAssumption
<1>3. IsFiniteSet({f[s] : s \in S})
  <2> HIDE DEF f
  <2> QED
    BY <1>2, ImageFinite
<1>4. \A s \in S : f[s] \in Nat \X EventSet
  BY EventsType, DelaysType DEF BootDone, Event, EventSet
<1> QED
  BY <1>1, <1>3, <1>4 DEF BatchOK

\* The READY events of a migration are a batch.
LEMMA ReadyBatch ==
  ASSUME NEW at \in SUBSET (Servers \X Services)
  PROVE  BatchOK({<<PodStartup, Ready(p[1], p[2])>> : p \in at})
<1> DEFINE f == [p \in at |-> <<PodStartup, Ready(p[1], p[2])>>]
<1>2. IsFiniteSet(at)
  BY FS_Subset, FS_Product, ServersAssumption, ServicesFinite
<1>3. IsFiniteSet({f[p] : p \in at})
  <2> HIDE DEF f
  <2> QED
    BY <1>2, ImageFinite
<1>4. \A p \in at : f[p] \in Nat \X EventSet
  BY EventsType, DelaysType
<1> QED
  BY <1>3, <1>4 DEF BatchOK

----------------------------------------------------------------------------
(* Replicas.                                                               *)

ReplicasOK(R) ==
  /\ DOMAIN R = Servers
  /\ \A s \in Servers : /\ DOMAIN R[s] = Services
                        /\ \A v \in Services : R[s][v] \in ReplicaRecord

\* _place_replica creates replicas.
LEMMA PlaceType ==
  ASSUME NEW R, ReplicasOK(R), NEW at
  PROVE  ReplicasOK(Place(R, at))
BY DelaysType DEF ReplicasOK, Place, Created, ReplicaRecord

\* What is left of a queue is a time.
LEMMA LeftType ==
  ASSUME NEW r \in ReplicaRecord, NEW w \in Nat
  PROVE  Left(r, w) \in Nat /\ DrainWait(r, w) \in Nat
BY DelaysType DEF Left, DrainWait, ReplicaRecord

\* _start_replica_drain keeps replicas well-typed.
LEMMA DrainingType ==
  ASSUME NEW R, ReplicasOK(R), NEW at, NEW work \in [Services -> Nat]
  PROVE  ReplicasOK(Draining(R, at, work))
<1>1. ASSUME NEW s \in Servers, NEW v \in Services
      PROVE  [R[s][v] EXCEPT !.state = "DRAINING", !.left = Left(R[s][v], work[v])]
               \in ReplicaRecord
  <2>1. R[s][v] \in ReplicaRecord /\ Left(R[s][v], work[v]) \in Nat
    BY LeftType DEF ReplicasOK
  <2> QED
    BY <2>1 DEF ReplicaRecord
<1> QED
  BY <1>1 DEF ReplicasOK, Draining

\* The terminations of a drain are a batch.
LEMMA TerminationsBatch ==
  ASSUME TypeOK, NEW at \in SUBSET (Servers \X Services), NEW work \in [Services -> Nat]
  PROVE  BatchOK(TerminationsOf(at, work))
<1> DEFINE f == [p \in at |-> <<DrainWait(replica[p[1]][p[2]], work[p[2]]),
                               Terminated(p[1], p[2])>>]
<1>1. TerminationsOf(at, work) = {f[p] : p \in at}
  BY DEF TerminationsOf
<1>2. IsFiniteSet(at)
  BY FS_Subset, FS_Product, ServersAssumption, ServicesFinite
<1>3. IsFiniteSet({f[p] : p \in at})
  <2> HIDE DEF f
  <2> QED
    BY <1>2, ImageFinite
<1>4. ASSUME NEW p \in at PROVE f[p] \in Nat \X EventSet
  <2>1. p[1] \in Servers /\ p[2] \in Services
    OBVIOUS
  <2>2. DrainWait(replica[p[1]][p[2]], work[p[2]]) \in Nat
    BY <2>1, LeftType DEF TypeOK
  <2>3. Terminated(p[1], p[2]) \in EventSet
    BY <2>1, EventsType
  <2> QED
    BY <2>2, <2>3
<1> QED
  BY <1>1, <1>3, <1>4 DEF BatchOK

\* Taking an event keeps the heap well-typed.
LEMMA RemoveType ==
  ASSUME NEW h, HeapOK(h), NEW e
  PROVE  HeapOK(h \ {e})
BY FS_RemoveElement DEF HeapOK

----------------------------------------------------------------------------
(* Type correctness.                                                       *)

\* prime() begins in a well-typed state.
LEMMA InitType == Init => TypeOK
<1> SUFFICES ASSUME Init PROVE TypeOK
  OBVIOUS
<1>1. PICK selected \in (SUBSET Servers) \ {{}} : \E m \in InitialPlacements(selected) :
        /\ heap = Push(Push({}, {<<BootDelay, BootDone(s)>> : s \in selected}),
                       {<<0, DecisionTick>>})
        /\ state = [s \in Servers |-> IF s \in selected THEN "BOOTING" ELSE "OFF"]
        /\ sinceTransition = [s \in Servers |-> IF s \in selected THEN 0 ELSE MinActive]
        /\ replica = [s \in Servers |-> [v \in Services |->
                        IF m[v] = s THEN Created ELSE Absent]]
  BY DEF Init
<1>2. HeapOK({})
  BY FS_EmptySet DEF HeapOK
<1>3. BatchOK({<<BootDelay, BootDone(s)>> : s \in selected})
  BY BootsBatch DEF Boots
<1>4. BatchOK({<<0, DecisionTick>>})
  BY SingletonBatch DEF DecisionTick, Event, EventSet
<1>5. HeapOK(heap)
  BY <1>1, <1>2, <1>3, <1>4, PushType
<1>6. ReplicasOK(replica)
  BY <1>1, DelaysType DEF ReplicasOK, Created, Absent, ReplicaRecord
<1>7. /\ isEmergency = [s \in Servers |-> FALSE]
      /\ pending = [s \in Servers |-> [v \in Services |-> None]]
      /\ emergencyBoot = [v \in Services |-> None]
      /\ sinceScale = [v \in Services |-> Cooldown]
      /\ turn = 0
  BY DEF Init
<1>8. /\ state \in [Servers -> {"OFF", "BOOTING", "ACTIVE", "DRAINING"}]
      /\ sinceTransition \in [Servers -> 0..MinActive]
  BY <1>1, DelaysType
<1>9. /\ isEmergency \in [Servers -> BOOLEAN]
      /\ pending \in [Servers -> [Services -> Servers \cup {None}]]
      /\ emergencyBoot \in [Services -> Servers \cup {None}]
      /\ sinceScale \in [Services -> 0..Cooldown]
      /\ turn \in 0..NServices
  BY <1>7, DelaysType, ServicesAssumption
<1> QED
  BY <1>5, <1>6, <1>8, <1>9 DEF TypeOK, HeapOK, ReplicasOK

TypeParts == /\ HeapOK(heap)
             /\ state \in [Servers -> {"OFF", "BOOTING", "ACTIVE", "DRAINING"}]
             /\ sinceTransition \in [Servers -> 0..MinActive]
             /\ isEmergency \in [Servers -> BOOLEAN]
             /\ ReplicasOK(replica)
             /\ pending \in [Servers -> [Services -> Servers \cup {None}]]
             /\ emergencyBoot \in [Services -> Servers \cup {None}]
             /\ sinceScale \in [Services -> 0..Cooldown]
             /\ turn \in 0..NServices

\* TypeOK is the conjunction of its parts, now and after a step.
LEMMA TypePartsOK == (TypeOK <=> TypeParts) /\ (TypeOK' <=> TypeParts')
BY DEF TypeOK, TypeParts, HeapOK, ReplicasOK

\* step() moving the clock.
LEMMA AdvanceClockType == ASSUME TypeOK, AdvanceClock PROVE TypeOK'
<1>0. TypeParts
  BY TypePartsOK
<1>1. PICK e \in heap :
        /\ Head(e) /\ e.in > 0
        /\ heap' = {[f EXCEPT !.in = @ - e.in] : f \in heap}
        /\ sinceTransition' = [s \in Servers |-> AtMost(sinceTransition[s] + e.in, MinActive)]
        /\ sinceScale' = [v \in Services |-> AtMost(sinceScale[v] + e.in, Cooldown)]
        /\ replica' = [s \in Servers |-> [v \in Services |->
             IF Hosts(s, v)
               THEN [replica[s][v] EXCEPT !.age = AtMost(@ + e.in, MinReplicaAge),
                                          !.left = IF @ > e.in THEN @ - e.in ELSE 0]
               ELSE Absent]]
        /\ UNCHANGED <<state, isEmergency, pending, emergencyBoot, turn>>
  BY DEF AdvanceClock
<1>2. e \in EventRecord /\ e.in \in Nat
  BY <1>0 DEF TypeParts, HeapOK, EventRecord
<1>3. HeapOK(heap')
  <2> DEFINE g == [f \in heap |-> [f EXCEPT !.in = @ - e.in]]
  <2>1. heap' = {g[f] : f \in heap}
    BY <1>1
  <2>2. IsFiniteSet(heap')
    <3> HIDE DEF g
    <3> QED
      BY <1>0, <2>1, ImageFinite DEF TypeParts, HeapOK
  <2>3. ASSUME NEW f \in heap PROVE g[f] \in EventRecord
    <3>1. f \in EventRecord /\ f.in \in Nat
      BY <1>0 DEF TypeParts, HeapOK, EventRecord
    <3>2. e.in <= f.in
      <4>1. Earlier(e, f)
        BY <1>1 DEF Head
      <4> QED
        BY <1>2, <3>1, <4>1 DEF Earlier
    <3>3. f.in - e.in \in Nat
      BY <1>2, <3>1, <3>2 DEF EventRecord
    <3> QED
      BY <3>1, <3>3 DEF EventRecord
  <2> QED
    BY <2>1, <2>2, <2>3 DEF HeapOK
<1>4. ReplicasOK(replica')
  <2>1. ASSUME NEW s \in Servers, NEW v \in Services
        PROVE  [replica[s][v] EXCEPT !.age = AtMost(@ + e.in, MinReplicaAge),
                                     !.left = IF @ > e.in THEN @ - e.in ELSE 0]
                 \in ReplicaRecord
    <3>1. replica[s][v] \in ReplicaRecord
      BY <1>0 DEF TypeParts, ReplicasOK
    <3>2. AtMost(replica[s][v].age + e.in, MinReplicaAge) \in 0..MinReplicaAge
      BY <1>2, <3>1, DelaysType DEF AtMost, ReplicaRecord
    <3>3. (IF replica[s][v].left > e.in THEN replica[s][v].left - e.in ELSE 0) \in Nat
      BY <1>2, <3>1 DEF ReplicaRecord
    <3> QED
      BY <3>1, <3>2, <3>3 DEF ReplicaRecord
  <2>2. Absent \in ReplicaRecord
    BY DelaysType DEF Absent, ReplicaRecord
  <2> QED
    BY <1>1, <2>1, <2>2 DEF ReplicasOK
<1>5. /\ sinceTransition' \in [Servers -> 0..MinActive]
      /\ sinceScale' \in [Services -> 0..Cooldown]
  <2>1. ASSUME NEW x \in Nat, NEW bound \in Nat
        PROVE  AtMost(x + e.in, bound) \in 0..bound
    BY <1>2 DEF AtMost
  <2>a. MinActive \in Nat /\ Cooldown \in Nat
    BY DelaysType
  <2>2. ASSUME NEW s \in Servers
        PROVE  AtMost(sinceTransition[s] + e.in, MinActive) \in 0..MinActive
    <3>1. sinceTransition[s] \in Nat
      BY <1>0, <2>a DEF TypeParts
    <3> QED
      BY <2>1, <2>a, <3>1
  <2>3. ASSUME NEW v \in Services
        PROVE  AtMost(sinceScale[v] + e.in, Cooldown) \in 0..Cooldown
    <3>1. sinceScale[v] \in Nat
      BY <1>0, <2>a DEF TypeParts
    <3> QED
      BY <2>1, <2>a, <3>1
  <2> QED
    BY <1>1, <2>2, <2>3
<1> QED
  BY <1>0, <1>1, <1>3, <1>4, <1>5, TypePartsOK DEF TypeParts

\* Enter and StartBoot.
LEMMA EnterType ==
  ASSUME TypeOK, NEW s \in Servers, NEW q \in {"OFF", "BOOTING", "ACTIVE", "DRAINING"},
         Enter(s, q)
  PROVE  /\ state' \in [Servers -> {"OFF", "BOOTING", "ACTIVE", "DRAINING"}]
         /\ sinceTransition' \in [Servers -> 0..MinActive]
BY DelaysType DEF TypeOK, Enter

\* _start_server_boot.
LEMMA StartBootType ==
  ASSUME TypeOK, NEW S, NEW emergency \in BOOLEAN, StartBoot(S, emergency)
  PROVE  /\ state' \in [Servers -> {"OFF", "BOOTING", "ACTIVE", "DRAINING"}]
         /\ sinceTransition' \in [Servers -> 0..MinActive]
         /\ isEmergency' \in [Servers -> BOOLEAN]
BY DelaysType DEF TypeOK, StartBoot

\* _handle_boot_done.
LEMMA HandleBootDoneType ==
  ASSUME TypeOK, NEW s \in Servers, HandleBootDone(s) PROVE TypeOK'
<1>0. TypeParts
  BY TypePartsOK
<1>1. PICK e \in heap :
        /\ Enter(s, "ACTIVE")
        /\ heap' = Push(heap \ {e}, {<<PodStartup, Ready(s, v)>> : v \in WaitingForBoot(s)})
        /\ emergencyBoot' = [v \in Services |->
                               IF v \in Rescued(s) THEN None ELSE emergencyBoot[v]]
        /\ isEmergency' = [isEmergency EXCEPT ![s] = @ /\ Rescued(s) = {}]
        /\ UNCHANGED <<replica, pending, sinceScale, turn>>
  BY DEF HandleBootDone
<1>2. BatchOK({<<PodStartup, Ready(s, v)>> : v \in WaitingForBoot(s)})
  <2> DEFINE f == [v \in WaitingForBoot(s) |-> <<PodStartup, Ready(s, v)>>]
  <2>1. IsFiniteSet(WaitingForBoot(s))
    BY FS_Subset, ServicesFinite DEF WaitingForBoot
  <2>2. IsFiniteSet({f[v] : v \in WaitingForBoot(s)})
    <3> HIDE DEF f
    <3> QED
      BY <2>1, ImageFinite
  <2>3. \A v \in WaitingForBoot(s) : f[v] \in Nat \X EventSet
    BY EventsType, DelaysType DEF WaitingForBoot
  <2> QED
    BY <2>2, <2>3 DEF BatchOK
<1>3. HeapOK(heap')
  BY <1>0, <1>1, <1>2, PushType, RemoveType DEF TypeParts
<1>4. emergencyBoot' \in [Services -> Servers \cup {None}]
  BY <1>0, <1>1 DEF TypeParts
<1>5. isEmergency' \in [Servers -> BOOLEAN]
  BY <1>0, <1>1 DEF TypeParts
<1> QED
  BY <1>0, <1>1, <1>3, <1>4, <1>5, EnterType, TypePartsOK DEF TypeParts

\* _handle_drain_done.
LEMMA HandleDrainType ==
  ASSUME TypeOK, NEW s \in Servers, HandleDrainNotDone(s) \/ HandleDrainDone(s)
  PROVE  TypeOK'
<1>0. TypeParts
  BY TypePartsOK
<1>1. CASE HandleDrainNotDone(s)
  <2>1. BatchOK({<<DrainGrace, DrainDone(s)>>})
    BY DelaysType, EventsType, ServicesAssumption, SingletonBatch
       DEF DrainDone, Event, EventSet
  <2>2. HeapOK(heap')
    BY <1>0, <1>1, <2>1, PushType, RemoveType DEF TypeParts, HandleDrainNotDone
  <2> QED
    BY <1>0, <1>1, <2>2, TypePartsOK DEF TypeParts, HandleDrainNotDone
<1>2. CASE HandleDrainDone(s)
  <2>1. PICK e \in heap : heap' = heap \ {e}
    BY <1>2 DEF HandleDrainDone
  <2>a. HeapOK(heap')
    BY <1>0, <2>1, RemoveType DEF TypeParts
  <2>2. Enter(s, "OFF")
    BY <1>2 DEF HandleDrainDone
  <2> QED
    BY <1>0, <1>2, <2>a, <2>2, EnterType, TypePartsOK DEF TypeParts, HandleDrainDone
<1> QED
  BY <1>1, <1>2

\* A backlog gives each service a time.
LEMMA BacklogsType == \A w \in Backlogs : [u \in Services |-> w] \in [Services -> Nat]
BY DelaysAssumption

\* _handle_replica_ready.
LEMMA HandleReplicaReadyType ==
  ASSUME TypeOK, NEW s \in Servers, NEW v \in Services, HandleReplicaReady(s, v)
  PROVE  TypeOK'
<1>0. TypeParts
  BY TypePartsOK
<1> DEFINE live   == replica[s][v].state = "STARTING"
           source == pending[s][v]
           old    == IF live /\ source # None /\ Hosts(source, v)
                          /\ replica[source][v].state # "DRAINING"
                       THEN {<<source, v>>} ELSE {}
           ready  == [replica EXCEPT ![s][v].state = IF live THEN "READY" ELSE @]
           work(w) == [u \in Services |-> w]
<1>1. PICK e \in heap, w \in Backlogs :
        /\ replica' = Draining(ready, old, work(w))
        /\ pending' = IF live THEN PopPending(s, v) ELSE pending
        /\ heap' = Push(heap \ {e}, TerminationsOf(old, work(w)))
        /\ UNCHANGED <<state, sinceTransition, isEmergency, emergencyBoot, sinceScale, turn>>
  BY DEF HandleReplicaReady
<1>2. old \in SUBSET (Servers \X Services)
  BY <1>0 DEF TypeParts
<1>3. work(w) \in [Services -> Nat]
  BY BacklogsType
<1>4. ReplicasOK(ready)
  <2>1. replica[s][v] \in ReplicaRecord
    BY <1>0 DEF TypeParts, ReplicasOK
  <2>2. [replica[s][v] EXCEPT !.state = IF live THEN "READY" ELSE @] \in ReplicaRecord
    BY <2>1 DEF ReplicaRecord
  <2> QED
    BY <1>0, <2>2 DEF TypeParts, ReplicasOK
<1>5. pending' \in [Servers -> [Services -> Servers \cup {None}]]
  BY <1>0, <1>1 DEF TypeParts, PopPending
<1> HIDE DEF live, source, old, ready, work
<1>6. ReplicasOK(replica')
  BY <1>1, <1>3, <1>4, DrainingType
<1>7. HeapOK(heap')
  BY <1>0, <1>1, <1>2, <1>3, TerminationsBatch, PushType, RemoveType DEF TypeParts
<1> QED
  BY <1>0, <1>1, <1>5, <1>6, <1>7, TypePartsOK DEF TypeParts

\* _handle_replica_terminated.
LEMMA HandleReplicaTerminatedType ==
  ASSUME TypeOK, NEW s \in Servers, NEW v \in Services, HandleReplicaTerminated(s, v)
  PROVE  TypeOK'
<1>0. TypeParts
  BY TypePartsOK
<1>1. PICK e \in heap : heap' = heap \ {e}
  BY DEF HandleReplicaTerminated
<1>2. HeapOK(heap')
  BY <1>0, <1>1, RemoveType DEF TypeParts
<1>3. ReplicasOK(replica')
  BY <1>0, DelaysType
     DEF TypeParts, HandleReplicaTerminated, ReplicasOK, Absent, ReplicaRecord
<1> QED
  BY <1>0, <1>2, <1>3, TypePartsOK DEF TypeParts, HandleReplicaTerminated

\* The end of the decision tick.
LEMMA EndScaleType ==
  ASSUME NEW v \in Services, NEW h, HeapOK(h), EndScale(v, h)
  PROVE  HeapOK(heap') /\ turn' \in 0..NServices
<1>1. BatchOK({<<DecisionInterval, DecisionTick>>})
  BY DelaysType, SingletonBatch DEF DecisionTick, Event, EventSet
<1> QED
  BY <1>1, PushType, ServicesAssumption DEF EndScale, Services

\* No change of scale.
LEMMA NoScaleType == ASSUME TypeOK, NEW v \in Services, NoScale(v) PROVE TypeOK'
<1>0. TypeParts
  BY TypePartsOK
<1>1. HeapOK(heap') /\ turn' \in 0..NServices
  BY <1>0, EndScaleType DEF NoScale, TypeParts
<1> QED
  BY <1>0, <1>1, TypePartsOK DEF NoScale, TypeParts

\* _apply_scale_decision.
LEMMA ScaleType ==
  ASSUME TypeOK, NEW v \in Services, NEW s \in Servers, ScaleUp(v, s) \/ ScaleDown(v, s)
  PROVE  TypeOK'
<1>0. TypeParts
  BY TypePartsOK
<1>s. [sinceScale EXCEPT ![v] = 0] \in [Services -> 0..Cooldown]
  BY <1>0, DelaysType DEF TypeParts
<1>2. CASE ScaleUp(v, s)
  <2>1. BatchOK({<<PodStartup, Ready(s, v)>>})
    BY DelaysType, EventsType, SingletonBatch
  <2>2. HeapOK(heap') /\ turn' \in 0..NServices
    BY <1>0, <1>2, <2>1, PushType, EndScaleType DEF ScaleUp, TypeParts
  <2>3. ReplicasOK(replica')
    BY <1>0, <1>2, PlaceType DEF ScaleUp, TypeParts
  <2> QED
    BY <1>0, <1>s, <1>2, <2>2, <2>3, TypePartsOK DEF ScaleUp, TypeParts
<1>3. CASE ScaleDown(v, s)
  <2> DEFINE old == {<<s, v>>}
             work(w) == [u \in Services |-> w]
  <2>1. PICK w \in Backlogs :
          /\ replica' = Draining(replica, old, work(w))
          /\ sinceScale' = [sinceScale EXCEPT ![v] = 0]
          /\ EndScale(v, Push(heap, TerminationsOf(old, work(w))))
          /\ UNCHANGED <<state, sinceTransition, isEmergency, pending, emergencyBoot>>
    BY <1>3 DEF ScaleDown
  <2>2. old \in SUBSET (Servers \X Services) /\ work(w) \in [Services -> Nat]
    BY BacklogsType
  <2> HIDE DEF old, work
  <2>3. HeapOK(heap') /\ turn' \in 0..NServices
    BY <1>0, <2>1, <2>2, TerminationsBatch, PushType, EndScaleType DEF TypeParts
  <2>4. ReplicasOK(replica')
    BY <1>0, <2>1, <2>2, DrainingType DEF TypeParts
  <2> QED
    BY <1>0, <1>s, <2>1, <2>3, <2>4, TypePartsOK DEF TypeParts
<1> QED
  BY <1>2, <1>3

\* _apply_provisioning, TURN_ON.
LEMMA TurnOnType ==
  ASSUME TypeOK, NEW s \in Servers, TurnOn(s) PROVE TypeOK'
<1>0. TypeParts
  BY TypePartsOK
<1>1. PICK e \in heap : heap' = Push(heap \ {e}, Boots({s}))
  BY DEF TurnOn
<1>2. HeapOK(heap')
  BY <1>0, <1>1, BootsBatch, PushType, RemoveType DEF TypeParts
<1>3. /\ StartBoot({s}, FALSE) /\ turn' = 1
      /\ UNCHANGED <<replica, pending, emergencyBoot, sinceScale>>
  BY DEF TurnOn
<1>4. turn' \in 0..NServices
  BY <1>3, ServicesAssumption
<1>5. /\ state' \in [Servers -> {"OFF", "BOOTING", "ACTIVE", "DRAINING"}]
      /\ sinceTransition' \in [Servers -> 0..MinActive]
      /\ isEmergency' \in [Servers -> BOOLEAN]
  BY <1>3, StartBootType
<1>6. TypeParts'
  BY <1>0, <1>2, <1>3, <1>4, <1>5 DEF TypeParts
<1> QED
  BY <1>6, TypePartsOK

\* No provisioning.
LEMMA NoProvisioningType == ASSUME TypeOK, NoProvisioning PROVE TypeOK'
<1>0. TypeParts
  BY TypePartsOK
<1>1. PICK e \in heap : heap' = heap \ {e}
  BY DEF NoProvisioning
<1>2. HeapOK(heap')
  BY <1>0, <1>1, RemoveType DEF TypeParts
<1> QED
  BY <1>0, <1>2, ServicesAssumption, TypePartsOK DEF TypeParts, NoProvisioning

\* Whatever is placed is a set of hosted services, each at a server.
LEMMA PlansType ==
  ASSUME NEW s, NEW m \in MigrationPlans(s), NEW cpu, NEW room,
         NEW V \in Packings(cpu, m, room)
  PROVE  {<<m[v], v>> : v \in V} \in SUBSET (Servers \X Services)
<1>1. m \in [SoleHosted(s) -> Servers \cup {None}]
  BY DEF MigrationPlans, MigrationTargets
<1>2. V \subseteq SoleHosted(s) /\ \A v \in V : m[v] # None
  BY <1>1 DEF Packings
<1>3. SoleHosted(s) \subseteq Services
  BY DEF SoleHosted, HostedOn
<1> QED
  BY <1>1, <1>2, <1>3

\* _start_server_drain.
LEMMA TurnOffType ==
  ASSUME TypeOK, NEW s \in Servers, TurnOff(s) PROVE TypeOK'
<1>0. TypeParts
  BY TypePartsOK
<1> DEFINE new(m, V) == {<<m[v], v>> : v \in V}
           old == {<<s, v>> : v \in DrainedAtOnce(s)}
           started(m, V) == {<<PodStartup, Ready(p[1], p[2])>> : p \in new(m, V)}
<1>1. PICK e \in heap, m \in MigrationPlans(s), work \in [Services -> Backlogs] :
        /\ Enter(s, "DRAINING")
        /\ \E V \in Packings(EffMips, m, Free) :
             /\ replica' = Draining(Place(replica, new(m, V)), old, work)
             /\ pending' = [t \in Servers |-> [v \in Services |->
                              IF <<t, v>> \in new(m, V) THEN s ELSE pending[t][v]]]
             /\ heap' = Push(Push(Push(heap \ {e}, started(m, V)), TerminationsOf(old, work)),
                             {<<DrainGrace, DrainDone(s)>>})
        /\ turn' = 1
        /\ UNCHANGED <<isEmergency, emergencyBoot, sinceScale>>
  BY DEF TurnOff
<1>2. PICK V \in Packings(EffMips, m, Free) :
        /\ replica' = Draining(Place(replica, new(m, V)), old, work)
        /\ pending' = [t \in Servers |-> [v \in Services |->
                         IF <<t, v>> \in new(m, V) THEN s ELSE pending[t][v]]]
        /\ heap' = Push(Push(Push(heap \ {e}, started(m, V)), TerminationsOf(old, work)),
                        {<<DrainGrace, DrainDone(s)>>})
  BY <1>1
<1>3. new(m, V) \in SUBSET (Servers \X Services)
  BY PlansType
<1>4. old \in SUBSET (Servers \X Services)
  BY DEF DrainedAtOnce, HostedOn
<1>5. work \in [Services -> Nat]
  BY DelaysAssumption
<1>6. BatchOK(started(m, V))
  <2> HIDE DEF new
  <2> QED
    BY <1>3, ReadyBatch
<1>7. BatchOK({<<DrainGrace, DrainDone(s)>>})
  BY DelaysType, SingletonBatch DEF DrainDone, Event, EventSet
<1>8. pending' \in [Servers -> [Services -> Servers \cup {None}]]
  BY <1>0, <1>2 DEF TypeParts
<1> HIDE DEF new, old, started
<1>9. HeapOK(heap')
  BY <1>0, <1>2, <1>4, <1>5, <1>6, <1>7, TerminationsBatch, PushType, RemoveType
     DEF TypeParts
<1>10. ReplicasOK(replica')
  BY <1>0, <1>2, <1>5, PlaceType, DrainingType DEF TypeParts
<1> QED
  BY <1>0, <1>1, <1>8, <1>9, <1>10, EnterType, ServicesAssumption, TypePartsOK DEF TypeParts

\* _trigger_emergency_boot.
LEMMA AbortTurnOffType ==
  ASSUME TypeOK, NEW s \in Servers, AbortTurnOff(s) PROVE TypeOK'
<1>0. TypeParts
  BY TypePartsOK
<1>a. PICK e \in heap, m \in MigrationPlans(s) :
        \E moved \in Packings(RawMips, m, Free) :
          LET unmigrated == SoleHosted(s) \ moved
              waiting == {v \in unmigrated : emergencyBoot[v] = None}
          IN \E p \in EmergencyPlans(waiting) :
               LET targets == {p[v] : v \in waiting} \ {None}
               IN /\ StartBoot(targets, TRUE)
                  /\ heap' = Push(heap \ {e}, Boots(targets))
                  /\ emergencyBoot' = [v \in Services |->
                                         IF v \in waiting THEN p[v] ELSE emergencyBoot[v]]
  BY DEF AbortTurnOff
<1>b. PICK moved \in Packings(RawMips, m, Free) :
        LET unmigrated == SoleHosted(s) \ moved
            waiting == {v \in unmigrated : emergencyBoot[v] = None}
        IN \E p \in EmergencyPlans(waiting) :
             LET targets == {p[v] : v \in waiting} \ {None}
             IN /\ StartBoot(targets, TRUE)
                /\ heap' = Push(heap \ {e}, Boots(targets))
                /\ emergencyBoot' = [v \in Services |->
                                       IF v \in waiting THEN p[v] ELSE emergencyBoot[v]]
  BY <1>a
<1> DEFINE waiting == {v \in SoleHosted(s) \ moved : emergencyBoot[v] = None}
<1>1. PICK p \in EmergencyPlans(waiting) :
        LET targets == {p[v] : v \in waiting} \ {None}
        IN /\ StartBoot(targets, TRUE)
           /\ heap' = Push(heap \ {e}, Boots(targets))
           /\ emergencyBoot' = [v \in Services |->
                                  IF v \in waiting THEN p[v] ELSE emergencyBoot[v]]
  BY <1>b
<1> HIDE DEF waiting
<1> DEFINE targets == {p[v] : v \in waiting} \ {None}
<1>2. p \in [waiting -> Servers \cup {None}]
  BY DEF EmergencyPlans, EmergencyTargets
<1>3. targets \in SUBSET Servers
  BY <1>2
<1>4. emergencyBoot' \in [Services -> Servers \cup {None}]
  BY <1>0, <1>1, <1>2 DEF TypeParts
<1>5. StartBoot(targets, TRUE) /\ heap' = Push(heap \ {e}, Boots(targets))
  BY <1>1
<1> HIDE DEF targets
<1>6. HeapOK(heap')
  BY <1>0, <1>3, <1>5, BootsBatch, PushType, RemoveType DEF TypeParts
<1>7. turn' = 1 /\ UNCHANGED <<replica, pending, sinceScale>>
  BY DEF AbortTurnOff
<1>8. turn' \in 0..NServices
  BY <1>7, ServicesAssumption
<1>9. /\ state' \in [Servers -> {"OFF", "BOOTING", "ACTIVE", "DRAINING"}]
      /\ sinceTransition' \in [Servers -> 0..MinActive]
      /\ isEmergency' \in [Servers -> BOOLEAN]
  BY <1>5, StartBootType
<1>10. TypeParts'
  BY <1>0, <1>4, <1>6, <1>7, <1>8, <1>9 DEF TypeParts
<1> QED
  BY <1>10, TypePartsOK

\* Every step keeps the types.
LEMMA NextType == TypeOK /\ [Next]_vars => TypeOK'
<1> SUFFICES ASSUME TypeOK, [Next]_vars PROVE TypeOK'
  OBVIOUS
<1>1. CASE AdvanceClock
  BY <1>1, AdvanceClockType
<1>2. CASE HandleEvent
  BY <1>2, HandleBootDoneType, HandleDrainType, HandleReplicaReadyType,
     HandleReplicaTerminatedType DEF HandleEvent
<1>3. CASE Provision
  BY <1>3, NoProvisioningType, TurnOnType, TurnOffType, AbortTurnOffType DEF Provision
<1>4. CASE Scale
  BY <1>4, NoScaleType, ScaleType DEF Scale
<1>5. CASE UNCHANGED vars
  BY <1>5 DEF vars, TypeOK
<1> QED
  BY <1>1, <1>2, <1>3, <1>4, <1>5 DEF Next

\* Type correctness of the engine's state, for every fleet and every delay
\* (src/simulator/engine.py, all handlers).
THEOREM TypeCorrect == Spec => []TypeOK
BY InitType, NextType, PTL DEF Spec

----------------------------------------------------------------------------
(* Servers.  The events that end a boot or a drain find the server booting *)
(* or draining, so no handler but a TURN_OFF takes a server out of ACTIVE, *)
(* and no emergency boot is forgotten half-way.                            *)

ServerStates == {"OFF", "BOOTING", "ACTIVE", "DRAINING"}
ServerEventTypes == {"SERVER_BOOT_DONE", "SERVER_DRAIN_DONE"}

\* Each event about a server finds it in the state the event ends, ...
ServerEventsDue(h, st) ==
  \A e \in h :
    /\ e.ev.type = "SERVER_BOOT_DONE" =>
         \E s \in Servers : e.ev = BootDone(s) /\ st[s] = "BOOTING"
    /\ e.ev.type = "SERVER_DRAIN_DONE" =>
         \E s \in Servers : e.ev = DrainDone(s) /\ st[s] = "DRAINING"
\* ... and is scheduled once.
ServerEventsOnce(h) ==
  \A e, f \in h : e.ev.type \in ServerEventTypes /\ e.ev = f.ev => e = f
ServerEventsOK(h, st) == ServerEventsDue(h, st) /\ ServerEventsOnce(h)

\* A batch of events that are not about servers.
NoServerEvents(batch) == \A b \in batch : b[2].type \notin ServerEventTypes

\* Removing the head leaves the other events.
LEMMA RemoveEvent ==
  ASSUME NEW h, NEW st, ServerEventsOK(h, st), NEW e
  PROVE  ServerEventsOK(h \ {e}, st)
BY DEF ServerEventsOK, ServerEventsDue, ServerEventsOnce

\* Pushing events leaves those that were there.
LEMMA PushOthers ==
  ASSUME NEW h, NEW st, ServerEventsOK(h, st), NEW batch, NoServerEvents(batch)
  PROVE  ServerEventsOK(Push(h, batch), st)
<1>1. ASSUME NEW e \in Push(h, batch), e.ev.type \in ServerEventTypes PROVE e \in h
  <2> SUFFICES ASSUME e \notin h PROVE FALSE
    OBVIOUS
  <2> DEFINE rank(b) == Cardinality({x \in h : x.in = b[1]})
  <2> HIDE DEF rank
  <2>1. PICK b \in batch : e = [in |-> b[1], rank |-> rank(b), ev |-> b[2]]
    BY <1>1 DEF Push, rank
  <2>2. e.ev = b[2]
    BY <2>1
  <2> QED
    BY <1>1, <2>2 DEF NoServerEvents
<1>2. \A e, f \in Push(h, batch) :
        e.ev.type \in ServerEventTypes /\ e.ev = f.ev => e \in h /\ f \in h
  BY <1>1
<1> QED
  BY <1>1, <1>2 DEF ServerEventsOK, ServerEventsDue, ServerEventsOnce, ServerEventTypes

\* Servers that were off boot: StartBoot and the events it schedules.
LEMMA PushBootEvents ==
  ASSUME NEW h, NEW st, ServerEventsOK(h, st),
         NEW S \in SUBSET Servers, \A s \in S : st[s] = "OFF"
  PROVE  ServerEventsOK(Push(h, Boots(S)),
                        [s \in Servers |-> IF s \in S THEN "BOOTING" ELSE st[s]])
<1> DEFINE st2 == [s \in Servers |-> IF s \in S THEN "BOOTING" ELSE st[s]]
           rank == Cardinality({x \in h : x.in = BootDelay})
           new(s) == [in |-> BootDelay, rank |-> rank, ev |-> BootDone(s)]
<1>1. Push(h, Boots(S)) = h \cup {new(s) : s \in S}
  <2> DEFINE event(b) == [in |-> b[1], rank |-> Cardinality({x \in h : x.in = b[1]}),
                          ev |-> b[2]]
  <2>1. Push(h, Boots(S)) = h \cup {event(b) : b \in Boots(S)}
    BY DEF Push
  <2>2. \A s \in S : event(<<BootDelay, BootDone(s)>>) = new(s)
    OBVIOUS
  <2> HIDE DEF event, new
  <2>3. {event(b) : b \in Boots(S)} = {new(s) : s \in S}
    BY <2>2 DEF Boots
  <2> QED
    BY <2>1, <2>3
<1>2. \A e \in h, s \in S : e.ev # BootDone(s)
  <2> SUFFICES ASSUME NEW e \in h, NEW s \in S, e.ev = BootDone(s) PROVE FALSE
    OBVIOUS
  <2>1. e.ev.type = "SERVER_BOOT_DONE" /\ e.ev.server = s
    BY DEF BootDone, Event
  <2>2. PICK t \in Servers : e.ev = BootDone(t) /\ st[t] = "BOOTING"
    BY <2>1 DEF ServerEventsOK, ServerEventsDue
  <2>3. t = s
    BY <2>1, <2>2 DEF BootDone, Event
  <2> QED
    BY <2>2, <2>3
<1>3. \A s, t \in S : BootDone(s) = BootDone(t) => s = t
  BY DEF BootDone, Event
<1>4. \A s \in S : new(s).ev = BootDone(s) /\ new(s).ev.type = "SERVER_BOOT_DONE"
  BY DEF BootDone, Event
<1> HIDE DEF new
<1>5. ServerEventsOnce(Push(h, Boots(S)))
  <2> SUFFICES ASSUME NEW e \in Push(h, Boots(S)), NEW f \in Push(h, Boots(S)),
                      e.ev.type \in ServerEventTypes, e.ev = f.ev
               PROVE  e = f
    BY DEF ServerEventsOnce
  <2>1. CASE e \in h /\ f \in h
    BY <2>1 DEF ServerEventsOK, ServerEventsOnce
  <2>2. CASE e \in {new(s) : s \in S} /\ f \in {new(s) : s \in S}
    BY <2>2, <1>3, <1>4
  <2>3. CASE e \in h /\ f \in {new(s) : s \in S}
    BY <2>3, <1>2, <1>4
  <2>4. CASE e \in {new(s) : s \in S} /\ f \in h
    BY <2>4, <1>2, <1>4
  <2> QED
    BY <1>1, <2>1, <2>2, <2>3, <2>4
<1>6. ServerEventsDue(Push(h, Boots(S)), st2)
  <2> SUFFICES ASSUME NEW e \in Push(h, Boots(S))
               PROVE  /\ e.ev.type = "SERVER_BOOT_DONE" =>
                           \E s \in Servers : e.ev = BootDone(s) /\ st2[s] = "BOOTING"
                      /\ e.ev.type = "SERVER_DRAIN_DONE" =>
                           \E s \in Servers : e.ev = DrainDone(s) /\ st2[s] = "DRAINING"
    BY DEF ServerEventsDue
  <2>1. CASE e \in h
    BY <2>1 DEF ServerEventsOK, ServerEventsDue
  <2>2. CASE e \in {new(s) : s \in S}
    BY <2>2, <1>4
  <2> QED
    BY <1>1, <2>1, <2>2
<1> QED
  BY <1>5, <1>6 DEF ServerEventsOK

\* A server that was ACTIVE drains.
LEMMA PushDrainEvent ==
  ASSUME NEW h, NEW st \in [Servers -> ServerStates], ServerEventsOK(h, st),
         NEW s \in Servers, st[s] = "ACTIVE"
  PROVE  ServerEventsOK(Push(h, {<<DrainGrace, DrainDone(s)>>}),
                        [st EXCEPT ![s] = "DRAINING"])
<1> DEFINE st2 == [st EXCEPT ![s] = "DRAINING"]
           new == [in |-> DrainGrace, rank |-> Cardinality({x \in h : x.in = DrainGrace}),
                   ev |-> DrainDone(s)]
<1>1. Push(h, {<<DrainGrace, DrainDone(s)>>}) = h \cup {new}
  <2> DEFINE event(b) == [in |-> b[1], rank |-> Cardinality({x \in h : x.in = b[1]}),
                          ev |-> b[2]]
  <2>1. Push(h, {<<DrainGrace, DrainDone(s)>>})
          = h \cup {event(b) : b \in {<<DrainGrace, DrainDone(s)>>}}
    BY DEF Push
  <2>2. event(<<DrainGrace, DrainDone(s)>>) = new
    OBVIOUS
  <2> HIDE DEF event, new
  <2> QED
    BY <2>1, <2>2
<1>2. \A e \in h : e.ev # DrainDone(s)
  <2> SUFFICES ASSUME NEW e \in h, e.ev = DrainDone(s) PROVE FALSE
    OBVIOUS
  <2>1. e.ev.type = "SERVER_DRAIN_DONE" /\ e.ev.server = s
    BY DEF DrainDone, Event
  <2>2. PICK t \in Servers : e.ev = DrainDone(t) /\ st[t] = "DRAINING"
    BY <2>1 DEF ServerEventsOK, ServerEventsDue
  <2>3. t = s
    BY <2>1, <2>2 DEF DrainDone, Event
  <2> QED
    BY <2>2, <2>3
<1>3. new.ev = DrainDone(s) /\ new.ev.type = "SERVER_DRAIN_DONE"
  BY DEF DrainDone, Event
<1> HIDE DEF new
<1>4. ServerEventsOnce(h \cup {new})
  BY <1>2, <1>3 DEF ServerEventsOK, ServerEventsOnce
<1>5. ServerEventsDue(h \cup {new}, st2)
  <2>1. \A e \in h :
          /\ e.ev.type = "SERVER_BOOT_DONE" =>
               \E t \in Servers : e.ev = BootDone(t) /\ st2[t] = "BOOTING"
          /\ e.ev.type = "SERVER_DRAIN_DONE" =>
               \E t \in Servers : e.ev = DrainDone(t) /\ st2[t] = "DRAINING"
    BY DEF ServerEventsOK, ServerEventsDue
  <2>2. st2[s] = "DRAINING"
    OBVIOUS
  <2> HIDE DEF st2
  <2> QED
    BY <2>1, <2>2, <1>3 DEF ServerEventsDue
<1> QED
  BY <1>1, <1>4, <1>5 DEF ServerEventsOK

\* The event that ends a boot or a drain was the only one about its server.
LEMMA EndServerEvent ==
  ASSUME NEW h, NEW st \in [Servers -> ServerStates], ServerEventsOK(h, st),
         NEW s \in Servers, NEW e \in h, e.ev \in {BootDone(s), DrainDone(s)},
         NEW newState
  PROVE  ServerEventsOK(h \ {e}, [st EXCEPT ![s] = newState])
<1> DEFINE st2 == [st EXCEPT ![s] = newState]
<1>0. \A t \in Servers : /\ BootDone(t).type = "SERVER_BOOT_DONE"
                         /\ BootDone(t).server = t
                         /\ DrainDone(t).type = "SERVER_DRAIN_DONE"
                         /\ DrainDone(t).server = t
  BY DEF BootDone, DrainDone, Event
<1>1. \A f \in h \ {e}, t \in Servers :
        /\ f.ev = BootDone(t) /\ st[t] = "BOOTING" => t # s
        /\ f.ev = DrainDone(t) /\ st[t] = "DRAINING" => t # s
  <2>1. e.ev = BootDone(s) => st[s] = "BOOTING"
    BY <1>0 DEF ServerEventsOK, ServerEventsDue
  <2>2. e.ev = DrainDone(s) => st[s] = "DRAINING"
    BY <1>0 DEF ServerEventsOK, ServerEventsDue
  <2>3. \A f \in h \ {e} : f.ev # e.ev
    BY <1>0 DEF ServerEventsOK, ServerEventsOnce, ServerEventTypes
  <2> QED
    BY <2>1, <2>2, <2>3
<1>2. ServerEventsDue(h \ {e}, st2)
  <2>1. \A t \in Servers \ {s} : st2[t] = st[t]
    OBVIOUS
  <2> HIDE DEF st2
  <2> QED
    BY <1>1, <2>1 DEF ServerEventsOK, ServerEventsDue
<1> QED
  BY <1>2 DEF ServerEventsOK, ServerEventsOnce

----------------------------------------------------------------------------
(* The inductive invariant.  EmergencyTargetsBoot alone is not inductive:  *)
(* a stale boot or drain event could move the server it names.             *)

Inv == TypeOK /\ ServerEventsOK(heap, state) /\ EmergencyTargetsBoot

\* What every step keeps, besides the types.
Kept ==
  /\ ServerEventsOK(heap', state')
  /\ EmergencyTargetsBoot'
  /\ Active # {} => Active' # {}

\* A step that leaves the servers alone only has to keep their events.
LEMMA ServersUnchanged ==
  ASSUME Inv, UNCHANGED <<state, emergencyBoot>>, ServerEventsOK(heap', state)
  PROVE  Kept
BY DEF Inv, Kept, EmergencyTargetsBoot, Active

\* The invariant holds when prime() is done.
LEMMA InitInv == Init => Inv
<1> SUFFICES ASSUME Init PROVE Inv
  OBVIOUS
<1>1. TypeOK
  BY InitType
<1>2. PICK selected \in SUBSET Servers :
        /\ heap = Push(Push({}, Boots(selected)), {<<0, DecisionTick>>})
        /\ state = [s \in Servers |-> IF s \in selected THEN "BOOTING" ELSE "OFF"]
  BY DEF Init, Boots
<1>3. emergencyBoot = [v \in Services |-> None]
  BY DEF Init
<1> DEFINE off == [s \in Servers |-> "OFF"]
<1>4. ServerEventsOK({}, off)
  BY DEF ServerEventsOK, ServerEventsDue, ServerEventsOnce
<1>5. \A s \in selected : off[s] = "OFF"
  BY <1>2
<1>6. state = [s \in Servers |-> IF s \in selected THEN "BOOTING" ELSE off[s]]
  BY <1>2
<1> HIDE DEF off
<1>7. ServerEventsOK(Push({}, Boots(selected)), state)
  BY <1>2, <1>4, <1>5, <1>6, PushBootEvents
<1>8. NoServerEvents({<<0, DecisionTick>>})
  BY DEF NoServerEvents, DecisionTick, Event, ServerEventTypes
<1>9. ServerEventsOK(heap, state)
  BY <1>2, <1>7, <1>8, PushOthers
<1> QED
  BY <1>1, <1>3, <1>9 DEF Inv, EmergencyTargetsBoot

\* Time moves no server and no event to another one.
LEMMA AdvanceClockKeeps == ASSUME Inv, AdvanceClock PROVE Kept
<1>1. PICK e \in heap :
        /\ heap' = {[f EXCEPT !.in = @ - e.in] : f \in heap}
        /\ UNCHANGED <<state, emergencyBoot>>
  BY DEF AdvanceClock
<1> DEFINE later(f) == [f EXCEPT !.in = @ - e.in]
<1>2. \A f \in heap : later(f).ev = f.ev
  BY DEF Inv, TypeOK, EventRecord
<1>3. heap' = {later(f) : f \in heap}
  BY <1>1
<1> HIDE DEF later
<1>4. ServerEventsDue(heap', state)
  BY <1>2, <1>3 DEF Inv, ServerEventsOK, ServerEventsDue
<1>5. ServerEventsOnce(heap')
  <2> SUFFICES ASSUME NEW f \in heap, NEW g \in heap,
                      later(f).ev.type \in ServerEventTypes, later(f).ev = later(g).ev
               PROVE  later(f) = later(g)
    BY <1>3 DEF ServerEventsOnce
  <2>1. f = g
    BY <1>2 DEF Inv, ServerEventsOK, ServerEventsOnce
  <2> QED
    BY <2>1
<1> QED
  BY <1>1, <1>4, <1>5, ServersUnchanged DEF ServerEventsOK

\* _handle_boot_done consumes the only boot event of its server.
LEMMA HandleBootDoneKeeps ==
  ASSUME Inv, NEW s \in Servers, HandleBootDone(s) PROVE Kept
<1>0. state \in [Servers -> ServerStates] /\ emergencyBoot \in [Services -> Servers \cup {None}]
  BY DEF Inv, TypeOK, ServerStates
<1> DEFINE started == {<<PodStartup, Ready(s, v)>> : v \in WaitingForBoot(s)}
<1>1. PICK e \in heap :
        /\ e.ev = BootDone(s)
        /\ state' = [state EXCEPT ![s] = "ACTIVE"]
        /\ heap' = Push(heap \ {e}, started)
        /\ emergencyBoot' = [v \in Services |->
                               IF v \in Rescued(s) THEN None ELSE emergencyBoot[v]]
  BY DEF HandleBootDone, Fires, Enter
<1>2. NoServerEvents(started)
  BY DEF NoServerEvents, Ready, Event, ServerEventTypes
<1> HIDE DEF started
<1>3. ServerEventsOK(heap \ {e}, state')
  BY <1>0, <1>1, EndServerEvent DEF Inv
<1>4. ServerEventsOK(heap', state')
  BY <1>1, <1>2, <1>3, PushOthers
<1>5. EmergencyTargetsBoot'
  BY <1>0, <1>1 DEF Inv, EmergencyTargetsBoot, Rescued
<1>6. s \in Active'
  BY <1>0, <1>1 DEF Active
<1> QED
  BY <1>4, <1>5, <1>6 DEF Kept

\* _handle_drain_done, in both cases, keeps one drain event at most.
LEMMA HandleDrainKeeps ==
  ASSUME Inv, NEW s \in Servers, HandleDrainNotDone(s) \/ HandleDrainDone(s) PROVE Kept
<1>0. state \in [Servers -> ServerStates] /\ emergencyBoot \in [Services -> Servers \cup {None}]
  BY DEF Inv, TypeOK, ServerStates
<1>1. PICK e \in heap :
        /\ e.ev = DrainDone(s)
        /\ UNCHANGED emergencyBoot
        /\ \/ heap' = heap \ {e} /\ state' = [state EXCEPT ![s] = "OFF"]
           \/ heap' = Push(heap \ {e}, {<<DrainGrace, DrainDone(s)>>}) /\ UNCHANGED state
  BY DEF HandleDrainNotDone, HandleDrainDone, Fires, Enter
<1>2. state[s] = "DRAINING"
  <2>1. e.ev.type = "SERVER_DRAIN_DONE" /\ e.ev.server = s
    BY <1>1 DEF DrainDone, Event
  <2>2. PICK t \in Servers : e.ev = DrainDone(t) /\ state[t] = "DRAINING"
    BY <2>1 DEF Inv, ServerEventsOK, ServerEventsDue
  <2> QED
    BY <2>1, <2>2 DEF DrainDone, Event
<1>3. CASE heap' = heap \ {e} /\ state' = [state EXCEPT ![s] = "OFF"]
  <2>1. ServerEventsOK(heap', state')
    BY <1>0, <1>1, <1>3, EndServerEvent DEF Inv
  <2>2. EmergencyTargetsBoot'
    BY <1>0, <1>1, <1>2, <1>3 DEF Inv, EmergencyTargetsBoot
  <2>3. Active \subseteq Active'
    BY <1>0, <1>2, <1>3 DEF Active
  <2> QED
    BY <2>1, <2>2, <2>3 DEF Kept
<1>4. CASE heap' = Push(heap \ {e}, {<<DrainGrace, DrainDone(s)>>}) /\ UNCHANGED state
  \* The state the drain began in: ACTIVE, with this event not scheduled.
  <2> DEFINE before == [state EXCEPT ![s] = "ACTIVE"]
  <2>1. ServerEventsOK(heap \ {e}, before)
    BY <1>0, <1>1, EndServerEvent DEF Inv
  <2>2. before \in [Servers -> ServerStates] /\ before[s] = "ACTIVE"
    BY <1>0 DEF ServerStates
  <2>3. state = [before EXCEPT ![s] = "DRAINING"]
    BY <1>0, <1>2
  <2> HIDE DEF before
  <2>4. ServerEventsOK(heap', state)
    BY <1>4, <2>1, <2>2, <2>3, PushDrainEvent
  <2> QED
    BY <1>1, <1>4, <2>4, ServersUnchanged
<1> QED
  BY <1>1, <1>3, <1>4

\* What a drain pushes for replicas are not server events.
LEMMA TerminationsAreNotServerEvents ==
  ASSUME NEW at, NEW work PROVE NoServerEvents(TerminationsOf(at, work))
BY DEF NoServerEvents, TerminationsOf, Terminated, Event, ServerEventTypes

\* The replica handlers leave servers and their events alone.
LEMMA HandleReplicaKeeps ==
  ASSUME Inv, NEW s \in Servers, NEW v \in Services,
         HandleReplicaReady(s, v) \/ HandleReplicaTerminated(s, v)
  PROVE  Kept
<1>1. CASE HandleReplicaTerminated(s, v)
  <2>1. PICK e \in heap : heap' = heap \ {e}
    BY <1>1 DEF HandleReplicaTerminated
  <2>2. ServerEventsOK(heap', state)
    BY <2>1, RemoveEvent DEF Inv
  <2> QED
    BY <1>1, <2>2, ServersUnchanged DEF HandleReplicaTerminated
<1>2. CASE HandleReplicaReady(s, v)
  <2>1. UNCHANGED <<state, emergencyBoot>>
    BY <1>2 DEF HandleReplicaReady
  <2>2. \E e, at, work : heap' = Push(heap \ {e}, TerminationsOf(at, work))
    BY <1>2 DEF HandleReplicaReady
  <2>3. PICK e, at, work : heap' = Push(heap \ {e}, TerminationsOf(at, work))
    BY <2>2
  <2>4. NoServerEvents(TerminationsOf(at, work))
    BY TerminationsAreNotServerEvents
  <2>5. ServerEventsOK(heap', state)
    BY <2>3, <2>4, RemoveEvent, PushOthers DEF Inv
  <2> QED
    BY <2>1, <2>5, ServersUnchanged
<1> QED
  BY <1>1, <1>2

\* The end of the tick leaves servers alone.
LEMMA EndScaleKeeps ==
  ASSUME Inv, NEW v \in Services, NEW h, ServerEventsOK(h, state),
         EndScale(v, h), UNCHANGED <<state, emergencyBoot>>
  PROVE  Kept
<1>1. NoServerEvents({<<DecisionInterval, DecisionTick>>})
  BY DEF NoServerEvents, DecisionTick, Event, ServerEventTypes
<1>2. ServerEventsOK(heap', state)
  BY <1>1, PushOthers DEF EndScale
<1> QED
  BY <1>2, ServersUnchanged

\* Scale decisions leave servers alone.
LEMMA ScaleKeeps == ASSUME Inv, Scale PROVE Kept
<1>1. PICK v \in Services : \/ NoScale(v)
                           \/ \E s \in Servers : ScaleUp(v, s) \/ ScaleDown(v, s)
  BY DEF Scale
<1>2. CASE NoScale(v)
  BY <1>2, EndScaleKeeps DEF NoScale, Inv
<1>3. ASSUME NEW s \in Servers, ScaleUp(v, s) PROVE Kept
  <2>1. NoServerEvents({<<PodStartup, Ready(s, v)>>})
    BY DEF NoServerEvents, Ready, Event, ServerEventTypes
  <2>2. ServerEventsOK(Push(heap, {<<PodStartup, Ready(s, v)>>}), state)
    BY <2>1, PushOthers DEF Inv
  <2> QED
    BY <1>3, <2>2, EndScaleKeeps DEF ScaleUp
<1>4. ASSUME NEW s \in Servers, ScaleDown(v, s) PROVE Kept
  <2>1. PICK w \in Backlogs :
          LET work == [u \in Services |-> w]
              old  == {<<s, v>>}
          IN /\ EndScale(v, Push(heap, TerminationsOf(old, work)))
             /\ UNCHANGED <<state, emergencyBoot>>
    BY <1>4 DEF ScaleDown
  <2> DEFINE ended == TerminationsOf({<<s, v>>}, [u \in Services |-> w])
  <2>2. NoServerEvents(ended)
    BY TerminationsAreNotServerEvents
  <2>3. EndScale(v, Push(heap, ended)) /\ UNCHANGED <<state, emergencyBoot>>
    BY <2>1
  <2> HIDE DEF ended
  <2>4. ServerEventsOK(Push(heap, ended), state)
    BY <2>2, PushOthers DEF Inv
  <2> QED
    BY <2>3, <2>4, EndScaleKeeps
<1> QED
  BY <1>1, <1>2, <1>3, <1>4

\* A server that is ACTIVE but may be turned off leaves another one ACTIVE.
LEMMA AnotherActive ==
  ASSUME TypeOK, NEW s \in Active, Cardinality(Active) > 1
  PROVE  \E t \in Active : t # s
<1> SUFFICES ASSUME Active = {s} PROVE FALSE
  OBVIOUS
<1>1. Cardinality(Active) = 1
  BY FS_Singleton
<1> QED
  BY <1>1

\* A drain begins at a server without events, and leaves another active.
LEMMA TurnOffKeeps == ASSUME Inv, NEW s \in Servers, TurnOff(s) PROVE Kept
<1>0. state \in [Servers -> ServerStates] /\ emergencyBoot \in [Services -> Servers \cup {None}]
  BY DEF Inv, TypeOK, ServerStates
<1>1. /\ state[s] = "ACTIVE" /\ Cardinality(Active) > 1
      /\ state' = [state EXCEPT ![s] = "DRAINING"] /\ UNCHANGED emergencyBoot
  BY DEF TurnOff, MayTurnOff, Enter
<1>2. PICK e, new, old, work :
        heap' = Push(Push(Push(heap \ {e}, {<<PodStartup, Ready(p[1], p[2])>> : p \in new}),
                          TerminationsOf(old, work)),
                     {<<DrainGrace, DrainDone(s)>>})
  BY DEF TurnOff
<1>3. ServerEventsOK(heap', state')
  <2> DEFINE started == {<<PodStartup, Ready(p[1], p[2])>> : p \in new}
             ended == TerminationsOf(old, work)
  <2>1. NoServerEvents(started) /\ NoServerEvents(ended)
    <3>1. NoServerEvents(started)
      BY DEF NoServerEvents, Ready, Event, ServerEventTypes
    <3> QED
      BY <3>1, TerminationsAreNotServerEvents
  <2>2. heap' = Push(Push(Push(heap \ {e}, started), ended), {<<DrainGrace, DrainDone(s)>>})
    BY <1>2
  <2> HIDE DEF started, ended
  <2>3. ServerEventsOK(Push(heap \ {e}, started), state)
    BY <2>1, RemoveEvent, PushOthers DEF Inv
  <2>4. ServerEventsOK(Push(Push(heap \ {e}, started), ended), state)
    BY <2>1, <2>3, PushOthers
  <2> QED
    BY <1>0, <1>1, <2>2, <2>4, PushDrainEvent
<1>4. EmergencyTargetsBoot'
  BY <1>0, <1>1 DEF Inv, EmergencyTargetsBoot
<1>5. PICK t \in Active : t # s
  BY <1>1, AnotherActive DEF Active, Inv
<1>6. t \in Active'
  BY <1>0, <1>1, <1>5 DEF Active
<1> QED
  BY <1>3, <1>4, <1>6 DEF Kept

\* Servers that were off boot, for a TURN_ON or an emergency.
LEMMA StartBootKeeps ==
  ASSUME Inv, NEW S \in SUBSET Servers, \A s \in S : state[s] = "OFF",
         NEW e, heap' = Push(heap \ {e}, Boots(S)),
         state' = [s \in Servers |-> IF s \in S THEN "BOOTING" ELSE state[s]],
         \A v \in Services : emergencyBoot'[v] \in {None, emergencyBoot[v]} \cup S
  PROVE  Kept
<1>0. state \in [Servers -> ServerStates] /\ emergencyBoot \in [Services -> Servers \cup {None}]
  BY DEF Inv, TypeOK, ServerStates
<1>1. ServerEventsOK(heap', state')
  BY RemoveEvent, PushBootEvents DEF Inv
<1>2. EmergencyTargetsBoot'
  BY <1>0 DEF Inv, EmergencyTargetsBoot
<1>3. Active \subseteq Active'
  BY <1>0 DEF Active
<1> QED
  BY <1>1, <1>2, <1>3 DEF Kept

\* A boot begins at a server without events.
LEMMA TurnOnKeeps == ASSUME Inv, NEW s \in Servers, TurnOn(s) PROVE Kept
<1>1. PICK e \in heap :
        /\ heap' = Push(heap \ {e}, Boots({s})) /\ state[s] = "OFF"
        /\ state' = [t \in Servers |-> IF t \in {s} THEN "BOOTING" ELSE state[t]]
        /\ UNCHANGED emergencyBoot
  BY DEF TurnOn, MayTurnOn, StartBoot
<1> QED
  BY <1>1, StartBootKeeps

\* An emergency boot begins at a server without events.
LEMMA AbortTurnOffKeeps == ASSUME Inv, NEW s \in Servers, AbortTurnOff(s) PROVE Kept
<1> DEFINE Plan(e, waiting, p) ==
             LET targets == {p[v] : v \in waiting} \ {None}
             IN /\ StartBoot(targets, TRUE)
                /\ heap' = Push(heap \ {e}, Boots(targets))
                /\ emergencyBoot' = [v \in Services |->
                                       IF v \in waiting THEN p[v] ELSE emergencyBoot[v]]
<1>1. \E e \in heap, m \in MigrationPlans(s) : \E moved \in Packings(RawMips, m, Free) :
        LET waiting == {v \in SoleHosted(s) \ moved : emergencyBoot[v] = None}
        IN \E p \in EmergencyPlans(waiting) : Plan(e, waiting, p)
  BY DEF AbortTurnOff
<1> HIDE DEF Plan
<1>2. PICK e, waiting, p : p \in EmergencyPlans(waiting) /\ Plan(e, waiting, p)
  BY <1>1
<1> DEFINE targets == {p[v] : v \in waiting} \ {None}
<1>3. p \in [waiting -> {t \in Servers : state[t] = "OFF"} \cup {None}]
  BY <1>2 DEF EmergencyPlans, EmergencyTargets
<1>4. targets \in SUBSET Servers /\ \A t \in targets : state[t] = "OFF"
  BY <1>3
<1>5. /\ StartBoot(targets, TRUE)
      /\ heap' = Push(heap \ {e}, Boots(targets))
      /\ emergencyBoot' = [v \in Services |->
                             IF v \in waiting THEN p[v] ELSE emergencyBoot[v]]
  BY <1>2 DEF Plan
<1>6. \A v \in Services : emergencyBoot'[v] \in {None, emergencyBoot[v]} \cup targets
  BY <1>5
<1> HIDE DEF targets
<1>7. state' = [t \in Servers |-> IF t \in targets THEN "BOOTING" ELSE state[t]]
  BY <1>5 DEF StartBoot
<1> QED
  BY <1>4, <1>5, <1>6, <1>7, StartBootKeeps

\* The provisioning step keeps the invariant.
LEMMA ProvisionKeeps == ASSUME Inv, Provision PROVE Kept
<1>1. CASE NoProvisioning
  <2>1. PICK e \in heap : heap' = heap \ {e} /\ UNCHANGED <<state, emergencyBoot>>
    BY <1>1 DEF NoProvisioning
  <2> QED
    BY <2>1, RemoveEvent, ServersUnchanged DEF Inv
<1> QED
  BY <1>1, TurnOnKeeps, TurnOffKeeps, AbortTurnOffKeeps DEF Provision

\* Every step keeps the invariant and an active server.
LEMMA NextKeeps == Inv /\ [Next]_vars => Kept
<1> SUFFICES ASSUME Inv, [Next]_vars PROVE Kept
  OBVIOUS
<1>1. CASE HandleEvent
  BY <1>1, HandleBootDoneKeeps, HandleDrainKeeps, HandleReplicaKeeps DEF HandleEvent
<1>2. CASE UNCHANGED vars
  <2>1. UNCHANGED <<heap, state, emergencyBoot>>
    BY <1>2 DEF vars
  <2>2. ServerEventsOK(heap', state)
    BY <2>1 DEF Inv
  <2> QED
    BY <2>1, <2>2, ServersUnchanged
<1> QED
  BY <1>1, <1>2, AdvanceClockKeeps, ProvisionKeeps, ScaleKeeps DEF Next

\* The invariant is inductive.
LEMMA NextInv == Inv /\ [Next]_vars => Inv'
BY NextType, NextKeeps DEF Inv, Kept

\* The invariant holds in every state.
LEMMA InvAlways == Spec => []Inv
BY InitInv, NextInv, PTL DEF Spec

\* An entry of _emergency_boot_for_service names a server that is still
\* booting: a service is never denied an emergency boot for the sake of one
\* that is over (_trigger_emergency_boot, _handle_boot_done).
THEOREM EmergencyEntriesAreLive == Spec => []EmergencyTargetsBoot
<1>1. Inv => EmergencyTargetsBoot
  BY DEF Inv
<1> QED
  BY <1>1, InvAlways, PTL

\* The cluster never loses its last ACTIVE server: TURN_OFF keeps one, and no
\* boot or drain event takes another server out of ACTIVE
\* (_apply_provisioning, _handle_drain_done).
THEOREM FleetStaysActive == Spec => ActiveNeverLost
<1>1. Inv /\ [Next]_vars => [Active # {} => Active' # {}]_vars
  BY NextKeeps DEF Kept
<1> QED
  BY <1>1, InvAlways, PTL DEF Spec, ActiveNeverLost

=============================================================================
