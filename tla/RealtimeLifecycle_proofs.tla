----------------------- MODULE RealtimeLifecycle_proofs -----------------------
(***************************************************************************)
(* Theorems about RealtimeLifecycle.  A step changes the replicas in one   *)
(* of two ways only, Create and Delete; what each does to the books comes  *)
(* first, then the invariants.                                             *)
(***************************************************************************)
EXTENDS RealtimeLifecycle, Placement_proofs

\* A slot is the server and the service of a replica.
LEMMA SlotType ==
  ASSUME NEW r \in Replicas
  PROVE  /\ Slot(r) \in Slots /\ Slot(r) = <<r[1], r[2]>>
         /\ r[1] \in Servers /\ r[2] \in Services
BY DEF Replicas, Slot, Slots

\* _create_replica makes one fresh replica object for each slot.
LEMMA NewReplicas ==
  ASSUME NEW slots \in SUBSET Slots, \A slot \in slots : Unused(slot) # {}
  PROVE  /\ New(slots) \subseteq Replicas \ (hosted \cup listed \cup polls \cup deleting)
         /\ \A r \in New(slots) : Slot(r) \in slots
         /\ \A slot \in slots : \E r \in New(slots) : Slot(r) = slot
         /\ \A q, r \in New(slots) : Slot(q) = Slot(r) => q = r
<1> DEFINE obj(slot) == CHOOSE r \in Unused(slot) : TRUE
<1>1. New(slots) = {obj(slot) : slot \in slots}
  BY DEF New
<1>2. ASSUME NEW slot \in slots
      PROVE  obj(slot) \in Unused(slot)
  BY <1>2
<1> HIDE DEF obj
<1>3. ASSUME NEW slot \in slots
      PROVE  /\ obj(slot) \in Replicas \ (hosted \cup listed \cup polls \cup deleting)
             /\ Slot(obj(slot)) = slot
  BY <1>2 DEF Unused
<1> QED
  BY <1>1, <1>3

\* The services a server hosts, in terms of the replica objects.
LEMMA HostedOnDef ==
  ASSUME TypeOK, NEW s \in Servers, NEW v
  PROVE  v \in HostedOn(s) <=> \E r \in hosted : r[1] = s /\ r[2] = v
<1>1. hosted \subseteq Replicas
  BY DEF TypeOK
<1>2. \A r \in hosted : Slot(r) = <<r[1], r[2]>> /\ r[1] \in Servers /\ r[2] \in Services
  BY <1>1, SlotType
<1> QED
  BY <1>2 DEF HostedOn, In

----------------------------------------------------------------------------
(* Types.                                                                  *)

\* TypeOK gives the fields of loop; a step also needs it to be a record.
LoopRecord ==
  [at : {"sleep", "wait", "delete", "scale", "crashed"}, server : Servers \cup {None},
   fresh : SUBSET Replicas, failed : SUBSET Services, todo : SUBSET Services,
   current : Replicas \cup {None}, turn : 0..NServices]
Types == TypeOK /\ loop \in LoopRecord

\* What TypeOK says of the books: the part that Create and Delete may change.
BooksType ==
  /\ hosted \subseteq Replicas /\ listed \subseteq Replicas /\ polls \subseteq Replicas
  /\ \A q, r \in hosted : Slot(q) = Slot(r) => q = r
  /\ replica \in [Replicas -> {"STARTING", "READY", "DRAINING", "TERMINATED"}]
  /\ deployed \subseteq Slots /\ running \subseteq Slots /\ running \subseteq deployed

\* A fresh loop record is one.
LEMMA FreshLoop ==
  /\ Asleep \in LoopRecord
  /\ \A v \in Services : ScaleFrom(v) \in LoopRecord
  /\ [Asleep EXCEPT !.at = "crashed"] \in LoopRecord
  /\ 1 \in Services /\ (\A v \in Services : v # NServices => v + 1 \in Services)
<1>1. /\ 0 \in 0..NServices /\ 1 \in Services
      /\ \A v \in Services : v \in 0..NServices /\ (v # NServices => v + 1 \in Services)
  BY ServicesAssumption DEF Services
<1> QED
  BY <1>1 DEF Asleep, ScaleFrom, LoopRecord

\* _create_replica keeps the types of the books.
LEMMA CreateTypes ==
  ASSUME TypeOK, NEW slots \in SUBSET Slots, Create(slots), running' = running
  PROVE  BooksType' /\ New(slots) \subseteq Replicas
<1>1. /\ New(slots) \subseteq Replicas \ (hosted \cup listed \cup polls \cup deleting)
      /\ \A r \in New(slots) : Slot(r) \in slots
      /\ \A q, r \in New(slots) : Slot(q) = Slot(r) => q = r
  BY NewReplicas DEF Create
<1> DEFINE gone == UNION {In(slot) : slot \in slots}
<1>2. ASSUME NEW r \in hosted \ gone
      PROVE  Slot(r) \notin slots
  BY <1>2 DEF In
<1>3. hosted' = (hosted \ gone) \cup New(slots)
  BY DEF Create
<1> HIDE DEF gone
<1>4. \A q, r \in hosted' : Slot(q) = Slot(r) => q = r
  BY <1>1, <1>2, <1>3 DEF TypeOK
<1>5. hosted' \subseteq Replicas /\ listed' \subseteq Replicas /\ polls' \subseteq Replicas
  BY <1>1, <1>3 DEF Create, TypeOK
<1>6. replica' \in [Replicas -> {"STARTING", "READY", "DRAINING", "TERMINATED"}]
  BY DEF Create, TypeOK
<1>7. deployed' \subseteq Slots /\ running' \subseteq Slots /\ running' \subseteq deployed'
  BY DEF Create, TypeOK
<1>8. \A q, r \in hosted' : (Slot(q) = Slot(r))' => q = r
  BY <1>4 DEF Slot
<1> QED
  BY <1>1, <1>5, <1>6, <1>7, <1>8 DEF BooksType

\* The end of _delete_replica keeps the types of the books.
LEMMA DeleteTypes ==
  ASSUME TypeOK, NEW r \in Replicas, Delete(r), polls' = polls
  PROVE  BooksType'
<1>1. /\ hosted' \subseteq hosted /\ listed' \subseteq listed
      /\ deployed' \subseteq Slots /\ running' \subseteq deployed'
  BY DEF Delete, Undeployed, TypeOK
<1>2. replica' \in [Replicas -> {"STARTING", "READY", "DRAINING", "TERMINATED"}]
  BY DEF Delete, TypeOK
<1>3. \A p, q \in hosted' : (Slot(p) = Slot(q))' => p = q
  BY <1>1 DEF TypeOK, Slot
<1> QED
  BY <1>1, <1>2, <1>3 DEF BooksType, TypeOK

\* The books type and the rest of the types make TypeOK.
LEMMA TypesFromParts ==
  ASSUME BooksType, state \in [Servers -> {"OFF", "ACTIVE", "DRAINING"}],
         deleting \subseteq Replicas, spawned \subseteq Slots,
         emergencyBoot \in [Services -> Servers \cup {None}],
         loop \in LoopRecord, rejection \in {"none", "new", "seen"}
  PROVE  Types
BY DEF BooksType, Types, TypeOK, LoopRecord

\* The same for the state after a step.
LEMMA TypesFromPartsNext ==
  ASSUME BooksType', state' \in [Servers -> {"OFF", "ACTIVE", "DRAINING"}],
         deleting' \subseteq Replicas, spawned' \subseteq Slots,
         emergencyBoot' \in [Services -> Servers \cup {None}],
         loop' \in LoopRecord, rejection' \in {"none", "new", "seen"}
  PROVE  Types'
BY DEF BooksType, Types, TypeOK, LoopRecord

\* Init, for one choice of servers and one placement.
InitFrom(selected, m) ==
  LET first == {<<m[v], v, 1>> : v \in {u \in Services : m[u] # None}}
  IN /\ state = [s \in Servers |-> IF s \in selected THEN "ACTIVE" ELSE "OFF"]
     /\ hosted = first /\ listed = first /\ polls = first
     /\ replica = [r \in Replicas |-> IF r \in first THEN "STARTING" ELSE "TERMINATED"]
     /\ deployed = {Slot(r) : r \in first} /\ running = {}
     /\ spawned = {} /\ deleting = {}
     /\ loop = Asleep
     /\ emergencyBoot = [v \in Services |-> None]
     /\ rejection = "none"

\* The initial placement has the types.
LEMMA TypesInit == Init => Types
<1> SUFFICES ASSUME NEW selected \in (SUBSET Servers) \ {{}},
                    NEW m \in InitialPlacements(selected), InitFrom(selected, m)
             PROVE  Types
  BY DEF Init, InitFrom
<1>2. m \in [Services -> selected \cup {None}] /\ 1 \in 1..Generations
  BY RealtimeAssumption DEF InitialPlacements
<1> DEFINE first == {<<m[v], v, 1>> : v \in {u \in Services : m[u] # None}}
<1>3. first \subseteq Replicas
  BY <1>2 DEF Replicas
<1>4. \A q, r \in first : Slot(q) = Slot(r) => q = r
  BY DEF Slot
<1>5. {Slot(r) : r \in first} \subseteq Slots
  BY <1>3, SlotType
<1> HIDE DEF first
<1>6. BooksType
  BY <1>3, <1>4, <1>5 DEF InitFrom, BooksType, first
<1> QED
  BY <1>6, FreshLoop, TypesFromParts DEF InitFrom, Slots

\* Types are kept by the tasks that run beside the decision loop.
LEMMA TypesTasks ==
  ASSUME Types, Tasks
  PROVE  Types'
<1> USE DEF Types, TypeOK
<1>1. ASSUME NEW slot \in Slots, PodStarts(slot)
      PROVE  Types'
  BY <1>1 DEF PodStarts, replicas, tasks, LoopRecord, Slot
<1>2. ASSUME NEW slot \in Slots, BeginDeletion(slot)
      PROVE  Types'
  <2>1. PICK r \in In(slot) : replica' = Marked(r) /\ deleting' = deleting \cup {r}
    BY <1>2 DEF BeginDeletion
  <2>2. r \in Replicas
    BY <2>1 DEF In
  <2> QED  BY <1>2, <2>1, <2>2 DEF BeginDeletion, Marked, kubernetes, LoopRecord, Slot
<1>3. ASSUME NEW r \in Replicas, PollSucceeds(r)
      PROVE  Types'
  BY <1>3 DEF PollSucceeds, kubernetes, LoopRecord, Slot
<1>4. ASSUME NEW r \in Replicas, PollTimesOut(r)
      PROVE  Types'
  BY <1>4 DEF PollTimesOut, replicas, kubernetes, LoopRecord, Slot
<1>5. ASSUME NEW r \in Replicas, EndDeletion(r)
      PROVE  Types'
  <2>1. BooksType'
    BY <1>5, DeleteTypes DEF EndDeletion
  <2> QED  BY <1>5, <2>1 DEF EndDeletion, BooksType, LoopRecord
<1>6. ASSUME Reject
      PROVE  Types'
  BY <1>6 DEF Reject, replicas, kubernetes, tasks, LoopRecord, Slot
<1> QED
  BY <1>1, <1>2, <1>3, <1>4, <1>5, <1>6 DEF Tasks

\* The plan of a drain names services and servers.
LEMMA DrainSlots ==
  ASSUME NEW s \in Servers, NEW m \in MigrationPlans(s), NEW room,
         NEW placed \in Packings(EffMips, m, room)
  PROVE  /\ m \in [SoleHosted(s) -> Servers \cup {None}]
         /\ placed \in SUBSET Services /\ SoleHosted(s) \in SUBSET Services
         /\ \A v \in placed : m[v] \in Active \ {s} /\ CanHost(m[v], v) /\ v \in SoleHosted(s)
         /\ {<<m[v], v>> : v \in placed} \in SUBSET Slots
<1>1. m \in [SoleHosted(s) -> Servers \cup {None}]
  BY DEF MigrationPlans, MigrationTargets
<1>2. SoleHosted(s) \in SUBSET Services
  BY DEF SoleHosted, HostedOn
<1>3. ASSUME NEW v \in placed
      PROVE  m[v] \in Active \ {s} /\ CanHost(m[v], v) /\ v \in SoleHosted(s)
  <2>1. v \in SoleHosted(s) /\ m[v] # None
    BY <1>1, <1>3 DEF Packings
  <2> DEFINE candidates == [u \in Services |-> {t \in Active \ {s} : CanHost(t, u)}]
  <2>2. IF candidates[v] = {} THEN m[v] = None ELSE m[v] \in candidates[v]
    BY <2>1 DEF MigrationPlans, MigrationTargets
  <2>3. m[v] \in candidates[v]
    BY <2>1, <2>2
  <2> QED  BY <1>2, <2>1, <2>3
<1>4. {<<m[v], v>> : v \in placed} \in SUBSET Slots
  BY <1>2, <1>3 DEF Slots, Active
<1> QED
  BY <1>1, <1>2, <1>3, <1>4

\* StartTurnOff, for one plan and one outcome of the placement pass.
StartFrom(s, m, placed) ==
  LET slots == {<<m[v], v>> : v \in placed}
  IN /\ TickIsDue /\ MayTurnOff(s)
     /\ SoleHosted(s) \in Packings(RawMips, m, Free)
     /\ Create(slots)
     /\ loop' = [Asleep EXCEPT !.at = "wait", !.server = s, !.fresh = New(slots),
                               !.failed = SoleHosted(s) \ placed]
     /\ state' = [state EXCEPT ![s] = "DRAINING"]
     /\ UNCHANGED <<running, spawned, deleting, emergencyBoot>>

\* Every drain that starts does so for some plan and some outcome.
LEMMA StartTurnOffCases ==
  ASSUME NEW s \in Servers, StartTurnOff(s)
  PROVE  \E m \in MigrationPlans(s) : \E placed \in Packings(EffMips, m, Free) :
           StartFrom(s, m, placed)
BY DEF StartTurnOff, StartFrom

\* The emergency path of AbortTurnOff, for the services that wait for a server,
\* one choice of their servers and of the service each of them boots for.
AbortFrom(s, waiting, p, first) ==
  LET named == {p[v] : v \in waiting} \ {None}
  IN /\ TickIsDue /\ MayTurnOff(s)
     /\ Activate(named)
     /\ emergencyBoot' = [v \in Services |->
          IF v \in waiting /\ p[v] # None /\ first[p[v]] # v
            THEN p[v] ELSE Cleared(named)[v]]
     /\ loop' = ScaleFrom(1)
     /\ UNCHANGED <<replicas, kubernetes, tasks>>

\* Every drain that is given up takes it, for some of each.
LEMMA AbortTurnOffCases ==
  ASSUME NEW s \in Servers, AbortTurnOff(s)
  PROVE  \E waiting \in SUBSET Services :
           \E p \in EmergencyTargets(waiting, {t \in Servers : state[t] = "OFF"}) :
             \E first : AbortFrom(s, waiting, p, first)
<1> DEFINE off == {t \in Servers : state[t] = "OFF"}
           Path(moved) ==
             LET unmigrated == SoleHosted(s) \ moved
                 waiting == {v \in unmigrated : emergencyBoot[v] = None}
             IN /\ TickIsDue /\ MayTurnOff(s) /\ unmigrated # {}
                /\ \E p \in EmergencyTargets(waiting, off) :
                     LET named == {p[v] : v \in waiting} \ {None}
                     IN \E first \in [named -> waiting] :
                          /\ \A t \in named : p[first[t]] = t
                          /\ Activate(named)
                          /\ emergencyBoot' = [v \in Services |->
                               IF v \in waiting /\ p[v] # None /\ first[p[v]] # v
                                 THEN p[v] ELSE Cleared(named)[v]]
                /\ loop' = ScaleFrom(1)
                /\ UNCHANGED <<replicas, kubernetes, tasks>>
<1>1. \E m \in MigrationPlans(s) : \E moved \in Packings(RawMips, m, Free) : Path(moved)
  BY Zenon DEF AbortTurnOff
<1> HIDE DEF Path
<1>a. PICK m \in MigrationPlans(s) : \E moved \in Packings(RawMips, m, Free) : Path(moved)
  BY <1>1
<1>2. PICK moved \in Packings(RawMips, m, Free) : Path(moved)
  BY <1>a
<1> DEFINE waiting == {v \in SoleHosted(s) \ moved : emergencyBoot[v] = None}
<1>3. PICK p \in EmergencyTargets(waiting, off) :
        LET named == {p[v] : v \in waiting} \ {None}
        IN \E first \in [named -> waiting] :
             /\ Activate(named)
             /\ emergencyBoot' = [v \in Services |->
                  IF v \in waiting /\ p[v] # None /\ first[p[v]] # v
                    THEN p[v] ELSE Cleared(named)[v]]
  BY <1>2 DEF Path
<1> DEFINE named == {p[v] : v \in waiting} \ {None}
<1>4. PICK first \in [named -> waiting] :
        /\ Activate(named)
        /\ emergencyBoot' = [v \in Services |->
             IF v \in waiting /\ p[v] # None /\ first[p[v]] # v
               THEN p[v] ELSE Cleared(named)[v]]
  BY <1>3
<1>5. waiting \in SUBSET Services
  BY DEF SoleHosted, HostedOn
<1>6. AbortFrom(s, waiting, p, first)
  BY <1>2, <1>4 DEF AbortFrom, Path
<1> HIDE DEF waiting, off
<1>7. \E q \in EmergencyTargets(waiting, off) : \E f : AbortFrom(s, waiting, q, f)
  BY <1>6
<1>8. \E w \in SUBSET Services : \E q \in EmergencyTargets(w, off) : \E f : AbortFrom(s, w, q, f)
  BY <1>5, <1>7
<1> QED
  BY <1>8 DEF off

\* A provisioning step that starts no drain creates and deletes nothing, turns no
\* server off and goes on to the scale decisions.
LEMMA NoDrainStarts ==
  ASSUME NoProvisioning \/ \E s \in Servers : TurnOn(s) \/ AbortTurnOff(s)
  PROVE  /\ TickIsDue /\ loop' = ScaleFrom(1)
         /\ loop'.at = "scale" /\ loop'.current = None /\ loop'.fresh = {}
         /\ UNCHANGED <<hosted, listed, replica, deployed, running, polls, spawned, deleting>>
         /\ \A t \in Servers : state'[t] = "OFF" => state[t] = "OFF"
<1> DEFINE Kept == UNCHANGED <<hosted, listed, replica, deployed, running, polls, spawned, deleting>>
           Wakes == \A t \in Servers : state'[t] = "OFF" => state[t] = "OFF"
<1>1. ASSUME NoProvisioning
      PROVE  TickIsDue /\ loop' = ScaleFrom(1) /\ Kept /\ Wakes
  BY <1>1 DEF NoProvisioning, replicas, kubernetes, tasks
<1>2. ASSUME NEW S, Activate(S)
      PROVE  Wakes
  BY <1>2 DEF Activate
<1>3. ASSUME NEW s \in Servers, TurnOn(s)
      PROVE  TickIsDue /\ loop' = ScaleFrom(1) /\ Kept /\ Wakes
  <2>1. TickIsDue /\ loop' = ScaleFrom(1) /\ Kept
    BY <1>3 DEF TurnOn, replicas, kubernetes, tasks
  <2>2. Activate({s})
    BY <1>3 DEF TurnOn
  <2> QED  BY <1>2, <2>1, <2>2
<1>4. ASSUME NEW s \in Servers, AbortTurnOff(s)
      PROVE  TickIsDue /\ loop' = ScaleFrom(1) /\ Kept /\ Wakes
  <2>1. PICK waiting \in SUBSET Services :
          \E p \in EmergencyTargets(waiting, {t \in Servers : state[t] = "OFF"}) :
            \E first : AbortFrom(s, waiting, p, first)
    BY <1>4, AbortTurnOffCases
  <2>2. PICK p, first : AbortFrom(s, waiting, p, first)
    BY <2>1
  <2>3. TickIsDue /\ loop' = ScaleFrom(1) /\ Kept
    BY <2>2 DEF AbortFrom, replicas, kubernetes, tasks
  <2>4. Activate({p[v] : v \in waiting} \ {None})
    BY <2>2 DEF AbortFrom
  <2> QED  BY <1>2, <2>3, <2>4
<1> HIDE DEF Kept, Wakes
<1>5. TickIsDue /\ loop' = ScaleFrom(1) /\ Kept /\ Wakes
  BY <1>1, <1>3, <1>4
<1>6. loop'.at = "scale" /\ loop'.current = None /\ loop'.fresh = {}
  BY <1>5 DEF ScaleFrom, Asleep
<1> QED
  BY <1>5, <1>6 DEF Kept, Wakes

\* Types are kept by provisioning.
LEMMA TypesProvision ==
  ASSUME Types, Provision
  PROVE  Types'
<1>0. rejection' \in {"none", "new", "seen"}
  BY DEF Provision, Snapshot, Types, TypeOK
<1>1. CASE NoProvisioning
  BY <1>0, <1>1, FreshLoop
     DEF NoProvisioning, Types, TypeOK, replicas, kubernetes, tasks, Slot, LoopRecord
<1>2. ASSUME NEW s \in Servers, TurnOn(s)
      PROVE  Types'
  <2>1. /\ state' \in [Servers -> {"OFF", "ACTIVE", "DRAINING"}]
        /\ emergencyBoot' \in [Services -> Servers \cup {None}]
    BY <1>2 DEF TurnOn, Activate, Cleared, Types, TypeOK
  <2>2. loop' \in LoopRecord
    BY <1>2, FreshLoop DEF TurnOn
  <2> QED
    BY <1>0, <1>2, <2>1, <2>2
       DEF TurnOn, Types, TypeOK, replicas, kubernetes, tasks, Slot, LoopRecord
<1>3. ASSUME NEW s \in Servers, AbortTurnOff(s)
      PROVE  Types'
  <2> DEFINE off == {t \in Servers : state[t] = "OFF"}
  <2>1. PICK waiting \in SUBSET Services :
          \E p \in EmergencyTargets(waiting, off) : \E first : AbortFrom(s, waiting, p, first)
    BY <1>3, AbortTurnOffCases
  <2>2. PICK p \in EmergencyTargets(waiting, off) : \E first : AbortFrom(s, waiting, p, first)
    BY <2>1
  <2>3. p \in [waiting -> off \cup {None}] /\ off \subseteq Servers
    BY <2>2 DEF EmergencyTargets
  <2> DEFINE named == {p[v] : v \in waiting} \ {None}
  <2>a. PICK first :
          /\ Activate(named)
          /\ emergencyBoot' = [v \in Services |->
               IF v \in waiting /\ p[v] # None /\ first[p[v]] # v
                 THEN p[v] ELSE Cleared(named)[v]]
          /\ loop' = ScaleFrom(1)
          /\ UNCHANGED <<replicas, kubernetes, tasks>>
    BY <2>2 DEF AbortFrom
  <2> HIDE DEF off, named
  <2>4. /\ state' \in [Servers -> {"OFF", "ACTIVE", "DRAINING"}]
        /\ emergencyBoot' \in [Services -> Servers \cup {None}]
    <3>1. state' \in [Servers -> {"OFF", "ACTIVE", "DRAINING"}]
      BY <2>a DEF Activate, Types, TypeOK
    <3>2. ASSUME NEW v \in Services
          PROVE  Cleared(named)[v] \in Servers \cup {None}
      BY DEF Cleared, Types, TypeOK
    <3>3. ASSUME NEW v \in waiting
          PROVE  p[v] \in Servers \cup {None}
      BY <2>3
    <3>4. emergencyBoot' \in [Services -> Servers \cup {None}]
      BY <2>a, <3>2, <3>3
    <3> QED  BY <3>1, <3>4
  <2>5. loop' \in LoopRecord /\ UNCHANGED <<replicas, kubernetes, tasks>>
    BY <2>a, FreshLoop
  <2> QED
    BY <1>0, <2>4, <2>5
       DEF Types, TypeOK, replicas, kubernetes, tasks, Slot, LoopRecord
<1>4. ASSUME NEW s \in Servers, StartTurnOff(s)
      PROVE  Types'
  <2>1. PICK m \in MigrationPlans(s) : \E placed \in Packings(EffMips, m, Free) :
               StartFrom(s, m, placed)
    BY <1>4, StartTurnOffCases
  <2>2. PICK placed \in Packings(EffMips, m, Free) : StartFrom(s, m, placed)
    BY <2>1
  <2> DEFINE slots == {<<m[v], v>> : v \in placed}
  <2>3. slots \in SUBSET Slots /\ SoleHosted(s) \in SUBSET Services
    BY DrainSlots
  <2>4. /\ Create(slots) /\ UNCHANGED <<running, spawned, deleting, emergencyBoot>>
        /\ loop' = [Asleep EXCEPT !.at = "wait", !.server = s, !.fresh = New(slots),
                                 !.failed = SoleHosted(s) \ placed]
        /\ state' = [state EXCEPT ![s] = "DRAINING"]
    BY <2>2 DEF StartFrom
  <2> HIDE DEF slots
  <2>5. BooksType' /\ New(slots) \subseteq Replicas
    BY <2>3, <2>4, CreateTypes DEF Types
  <2>6. loop' \in LoopRecord
    BY <2>3, <2>4, <2>5, FreshLoop DEF LoopRecord, Asleep
  <2>7. state' \in [Servers -> {"OFF", "ACTIVE", "DRAINING"}]
    BY <2>4 DEF Types, TypeOK
  <2> QED
    BY <1>0, <2>4, <2>5, <2>6, <2>7, TypesFromPartsNext DEF Types, TypeOK
<1> QED
  BY <1>1, <1>2, <1>3, <1>4 DEF Provision

\* Types are kept by a drain.
LEMMA TypesDrain ==
  ASSUME Types, Drain
  PROVE  Types'
<1>0. loop \in LoopRecord /\ loop.server \in Servers \cup {None}
  BY DEF Types, LoopRecord
<1>1. CASE EndWait
  <2>1. NowFailed \subseteq Services /\ HostedOn(loop.server) \subseteq Services
    BY <1>0, SlotType DEF NowFailed, NotReady, LoopRecord, HostedOn
  <2>2. loop' \in LoopRecord
    BY <1>0, <1>1, <2>1 DEF EndWait, LoopRecord
  <2> QED
    BY <1>1, <2>2 DEF EndWait, Types, TypeOK, replicas, kubernetes, tasks, Slot, LoopRecord
<1>2. ASSUME NEW v \in Services, SkipDelete(v)
      PROVE  Types'
  <2>1. loop' \in LoopRecord
    BY <1>0, <1>2 DEF SkipDelete, LoopRecord
  <2> QED
    BY <1>2, <2>1 DEF SkipDelete, Types, TypeOK, replicas, kubernetes, tasks, Slot, LoopRecord
<1>3. ASSUME NEW v \in Services, DeleteAtOnce(v)
      PROVE  Types'
  <2>1. PICK r \in In(<<loop.server, v>>) : Delete(r)
    BY <1>3 DEF DeleteAtOnce
  <2>2. r \in Replicas /\ polls' = polls
    BY <1>3, <2>1 DEF In, Types, TypeOK, DeleteAtOnce, tasks
  <2>3. BooksType'
    BY <2>1, <2>2, DeleteTypes DEF Types
  <2>4. loop' \in LoopRecord
    BY <1>0, <1>3 DEF DeleteAtOnce, LoopRecord
  <2> QED
    BY <1>3, <2>3, <2>4, TypesFromPartsNext DEF DeleteAtOnce, Types, TypeOK, tasks
<1>4. ASSUME NEW v \in Services, BeginDelete(v)
      PROVE  Types'
  <2>1. PICK r \in In(<<loop.server, v>>) :
               /\ replica' = Marked(r)
               /\ loop' = [loop EXCEPT !.todo = @ \ {v}, !.current = r]
    BY <1>4 DEF BeginDelete
  <2>2. r \in Replicas
    BY <2>1 DEF In, Types, TypeOK
  <2>3. loop' \in LoopRecord
    BY <1>0, <2>1, <2>2 DEF LoopRecord
  <2>4. replica' \in [Replicas -> {"STARTING", "READY", "DRAINING", "TERMINATED"}]
    BY <2>1 DEF Marked, Types, TypeOK
  <2>5. BooksType'
    BY <1>4, <2>4 DEF BeginDelete, Types, TypeOK, kubernetes, tasks, Slot, BooksType
  <2> QED
    BY <1>4, <2>3, <2>5, TypesFromPartsNext DEF BeginDelete, Types, TypeOK, tasks
<1>5. CASE EndDelete
  <2>1. loop.current \in Replicas /\ polls' = polls
    BY <1>0, <1>5 DEF EndDelete, LoopRecord, tasks
  <2>2. BooksType'
    BY <1>5, <2>1, DeleteTypes DEF EndDelete, Types
  <2>3. loop' \in LoopRecord
    BY <1>0, <1>5, FreshLoop DEF EndDelete, LoopRecord
  <2> QED
    BY <1>5, <2>2, <2>3, TypesFromPartsNext DEF EndDelete, Types, TypeOK, tasks
<1>6. CASE EndTurnOff
  <2>1. state' \in [Servers -> {"OFF", "ACTIVE", "DRAINING"}]
    BY <1>6 DEF EndTurnOff, EndState, Types, TypeOK
  <2>2. loop' \in LoopRecord
    BY <1>6, FreshLoop DEF EndTurnOff
  <2> QED
    BY <1>6, <2>1, <2>2
       DEF EndTurnOff, Types, TypeOK, replicas, kubernetes, tasks, Slot, LoopRecord
<1> QED
  BY <1>1, <1>2, <1>3, <1>4, <1>5, <1>6 DEF Drain

\* Types are kept by the scale decisions.
LEMMA TypesScale ==
  ASSUME Types, Scale
  PROVE  Types'
<1>1. ASSUME NEW v \in Services, EndScale(v)
      PROVE  loop' \in LoopRecord /\ rejection' \in {"none", "new", "seen"}
  BY <1>1, FreshLoop DEF EndScale, Types, TypeOK
<1>2. ASSUME NEW v \in Services, NoScale(v)
      PROVE  Types'
  BY <1>1, <1>2 DEF NoScale, Types, TypeOK, replicas, kubernetes, tasks, Slot, LoopRecord
<1>3. ASSUME NEW v \in Services, NEW s \in Servers, ScaleUp(v, s)
      PROVE  Types'
  <2>1. {<<s, v>>} \in SUBSET Slots
    BY DEF Slots
  <2>2. BooksType'
    BY <1>3, <2>1, CreateTypes DEF ScaleUp, Types
  <2> QED
    BY <1>1, <1>3, <2>2, TypesFromPartsNext DEF ScaleUp, Types, TypeOK
<1>4. ASSUME NEW v \in Services, NEW r \in Replicas, ScaleDown(v, r)
      PROVE  Types'
  <2>1. spawned' \subseteq Slots
    BY <1>4, SlotType DEF ScaleDown, Types, TypeOK
  <2>2. BooksType'
    BY <1>4 DEF ScaleDown, Types, TypeOK, replicas, kubernetes, Slot, BooksType
  <2> QED
    BY <1>1, <1>4, <2>1, <2>2, TypesFromPartsNext DEF ScaleDown, Types, TypeOK
<1> QED
  BY <1>2, <1>3, <1>4 DEF Scale

\* Every step keeps the types.
LEMMA TypesStep ==
  ASSUME Types, [Next]_vars
  PROVE  Types'
<1>1. CASE UNCHANGED vars
  BY <1>1 DEF vars, Types, TypeOK, Slot, LoopRecord
<1> QED
  BY <1>1, TypesTasks, TypesProvision, TypesDrain, TypesScale DEF Next

\* The state of the engine is well typed, and no server ever lists two replica
\* objects for one service.
THEOREM RealtimeTypeCorrect == Spec => []TypeOK
<1>1. Init => Types
  BY TypesInit
<1>2. Types /\ [Next]_vars => Types'
  BY TypesStep
<1>3. Types => TypeOK
  BY DEF Types
<1> QED
  BY <1>1, <1>2, <1>3, PTL DEF Spec

----------------------------------------------------------------------------
(* Capacity.                                                               *)

\* Capacities, and what is used of them, are integers.
LEMMA UsedType ==
  ASSUME Types
  PROVE  /\ \A s \in Servers : UsedCpu(s) \in Nat /\ Free[s] = Capacity[s] - UsedCpu(s)
         /\ Free \in [Servers -> Int]
<1>1. ASSUME NEW s \in Servers
      PROVE  UsedCpu(s) \in Nat /\ Capacity[s] \in Int
  <2>1. HostedOn(s) \in SUBSET Services /\ HostedOn(s) \in SUBSET HostedOn(s)
    BY DEF HostedOn
  <2>2. SumFunctionOnSet(EffMips[s], HostedOn(s)) \in Nat
    BY <2>1, Reserved
  <2> QED  BY <2>2, DemandAssumption DEF UsedCpu
<1> QED
  BY <1>1 DEF Free

\* A step that only removes replicas overloads no server.
LEMMA ShrinkCapacity ==
  ASSUME Types, CapacityRespected, hosted' \subseteq hosted
  PROVE  CapacityRespected'
<1> SUFFICES ASSUME NEW s \in Servers
             PROVE  UsedCpu(s)' <= Capacity[s]
  BY DEF CapacityRespected
<1>1. HostedOn(s)' \in SUBSET HostedOn(s) /\ HostedOn(s) \in SUBSET Services
  BY DEF HostedOn, In, Slot
<1>2. UsedCpu(s)' = SumFunctionOnSet(EffMips[s], HostedOn(s)')
  BY DEF UsedCpu
<1>3. /\ SumFunctionOnSet(EffMips[s], HostedOn(s)') <= SumFunctionOnSet(EffMips[s], HostedOn(s))
      /\ SumFunctionOnSet(EffMips[s], HostedOn(s)) \in Nat
  BY <1>1, Reserved
<1>4. /\ SumFunctionOnSet(EffMips[s], HostedOn(s)') \in Nat
      /\ HostedOn(s)' \in SUBSET Services /\ HostedOn(s)' \in SUBSET (HostedOn(s)')
  <2>1. HostedOn(s)' \in SUBSET Services /\ HostedOn(s)' \in SUBSET (HostedOn(s)')
    BY <1>1
  <2> QED  BY <2>1, Reserved
<1>5. UsedCpu(s) <= Capacity[s] /\ UsedCpu(s) = SumFunctionOnSet(EffMips[s], HostedOn(s))
  BY DEF CapacityRespected, UsedCpu
<1>6. Capacity[s] \in Nat
  BY DemandAssumption
<1> QED
  BY <1>2, <1>3, <1>4, <1>5, <1>6

\* After _create_replica, a server hosts the services of the new slots too.
LEMMA HostedAfterCreate ==
  ASSUME Types, NEW slots \in SUBSET Slots, Create(slots), NEW s \in Servers
  PROVE  HostedOn(s)' = HostedOn(s) \cup {v \in Services : <<s, v>> \in slots}
<1>1. /\ \A r \in New(slots) : Slot(r) \in slots
      /\ \A slot \in slots : \E r \in New(slots) : Slot(r) = slot
  BY NewReplicas DEF Create
<1> DEFINE gone == UNION {In(slot) : slot \in slots}
<1>2. hosted' = (hosted \ gone) \cup New(slots)
  BY DEF Create
<1>3. \A r \in hosted : r \in gone <=> Slot(r) \in slots
  BY DEF In
<1> HIDE DEF gone
<1>4. ASSUME NEW v \in Services
      PROVE  (\E r \in hosted' : Slot(r) = <<s, v>>)
               <=> (\E r \in hosted : Slot(r) = <<s, v>>) \/ <<s, v>> \in slots
  BY <1>1, <1>2, <1>3
<1>5. HostedOn(s)' = {v \in Services : \E r \in hosted' : Slot(r) = <<s, v>>}
  BY DEF HostedOn, In, Slot
<1>6. HostedOn(s) = {v \in Services : \E r \in hosted : Slot(r) = <<s, v>>}
  BY DEF HostedOn, In
<1> QED
  BY <1>4, <1>5, <1>6

\* New replicas overload no server that has room for all it gets.
LEMMA CreateCapacity ==
  ASSUME Types, CapacityRespected, NEW slots \in SUBSET Slots, Create(slots),
         \A s \in Servers :
           LET new == {v \in Services : <<s, v>> \in slots}
           IN new # {} => /\ new \cap HostedOn(s) = {}
                          /\ SumFunctionOnSet(EffMips[s], new) <= Free[s]
  PROVE  CapacityRespected'
<1> SUFFICES ASSUME NEW s \in Servers
             PROVE  UsedCpu(s)' <= Capacity[s]
  BY DEF CapacityRespected
<1> DEFINE new == {v \in Services : <<s, v>> \in slots}
           Sum(W) == SumFunctionOnSet(EffMips[s], W)
<1>1. UsedCpu(s)' = Sum(HostedOn(s) \cup new)
  BY HostedAfterCreate DEF UsedCpu
<1>2. HostedOn(s) \in SUBSET Services /\ new \in SUBSET Services
  BY DEF HostedOn
<1>3. UsedCpu(s) \in Nat /\ Free[s] = Capacity[s] - UsedCpu(s) /\ UsedCpu(s) <= Capacity[s]
  BY UsedType DEF CapacityRespected
<1>4. Capacity[s] \in Nat /\ UsedCpu(s) = Sum(HostedOn(s))
  BY DemandAssumption DEF UsedCpu
<1>5. CASE new = {}
  <2>1. HostedOn(s) \cup new = HostedOn(s)
    BY <1>5
  <2> QED  BY <1>1, <1>3, <1>4, <2>1
<1>6. CASE new # {}
  <2>1. new \cap HostedOn(s) = {} /\ Sum(new) <= Free[s]
    BY <1>6
  <2> HIDE DEF new
  <2>2. /\ HostedOn(s) \cup new \in SUBSET Services
        /\ HostedOn(s) \in SUBSET (HostedOn(s) \cup new)
        /\ (HostedOn(s) \cup new) \ HostedOn(s) = new
    BY <1>2, <2>1
  <2>3. Sum(HostedOn(s) \cup new) = Sum(HostedOn(s)) + Sum((HostedOn(s) \cup new) \ HostedOn(s))
    BY <2>2, Reserved
  <2>4. Sum(new) \in Nat
    BY <1>2, Reserved
  <2> HIDE DEF Sum
  <2>5. Sum(HostedOn(s) \cup new) = UsedCpu(s) + Sum(new)
    BY <1>4, <2>2, <2>3
  <2> QED  BY <1>1, <1>3, <1>4, <2>1, <2>4, <2>5
<1> QED  BY <1>5, <1>6

\* A drain's new replicas fit where they are placed.
LEMMA StartCapacity ==
  ASSUME Types, CapacityRespected, NEW s \in Servers, StartTurnOff(s)
  PROVE  CapacityRespected'
<1>1. PICK m \in MigrationPlans(s) : \E placed \in Packings(EffMips, m, Free) :
             StartFrom(s, m, placed)
  BY StartTurnOffCases
<1>2. PICK placed \in Packings(EffMips, m, Free) : StartFrom(s, m, placed)
  BY <1>1
<1> DEFINE slots == {<<m[v], v>> : v \in placed}
<1>3. /\ slots \in SUBSET Slots /\ placed \in SUBSET Services
      /\ \A v \in placed : m[v] \in Active \ {s} /\ CanHost(m[v], v)
  BY DrainSlots
<1>4. Create(slots)
  BY <1>2 DEF StartFrom
<1>5. \A v \in placed : Load(EffMips, m, placed, m[v]) <= Free[m[v]]
  BY DEF Packings
<1>6. ASSUME NEW t \in Servers, {v \in Services : <<t, v>> \in slots} # {}
      PROVE  LET new == {v \in Services : <<t, v>> \in slots}
             IN /\ new \cap HostedOn(t) = {}
                /\ SumFunctionOnSet(EffMips[t], new) <= Free[t]
  <2> DEFINE new == {v \in Services : <<t, v>> \in slots}
  <2>1. new = {v \in placed : m[v] = t}
    BY <1>3
  <2>2. PICK v \in placed : m[v] = t
    BY <1>6, <2>1
  <2>3. SumFunctionOnSet(EffMips[t], {u \in placed : m[u] = t}) <= Free[t]
    BY <1>5, <2>2 DEF Load
  <2>4. \A u \in new : u \notin HostedOn(t)
    BY <1>3, <2>1 DEF CanHost
  <2> HIDE DEF new
  <2>5. new \cap HostedOn(t) = {} /\ SumFunctionOnSet(EffMips[t], new) <= Free[t]
    BY <2>1, <2>3, <2>4
  <2> QED  BY <2>5 DEF new
<1> HIDE DEF slots
<1> QED
  BY <1>3, <1>4, <1>6, CreateCapacity

\* A scale-up's new replica fits.
LEMMA ScaleUpCapacity ==
  ASSUME Types, CapacityRespected, NEW v \in Services, NEW s \in Servers, ScaleUp(v, s)
  PROVE  CapacityRespected'
<1> DEFINE slots == {<<s, v>>}
<1>1. slots \in SUBSET Slots /\ Create(slots) /\ v \notin HostedOn(s) /\ Free[s] >= EffMips[s][v]
  BY DEF Slots, ScaleUp, CanHost
<1>2. SumFunctionOnSet(EffMips[s], {v}) = EffMips[s][v]
  <2>1. {} \in SUBSET Services /\ {} \in SUBSET {} /\ v \in Services \ {} /\ {} \cup {v} = {v}
    OBVIOUS
  <2>2. /\ SumFunctionOnSet(EffMips[s], {}) = 0
        /\ SumFunctionOnSet(EffMips[s], {} \cup {v}) =
             SumFunctionOnSet(EffMips[s], {}) + EffMips[s][v]
    BY <2>1, Reserved
  <2>3. EffMips[s][v] \in Nat
    BY DemandAssumption
  <2> QED  BY <2>1, <2>2, <2>3
<1>3. ASSUME NEW t \in Servers, {u \in Services : <<t, u>> \in slots} # {}
      PROVE  LET new == {u \in Services : <<t, u>> \in slots}
             IN /\ new \cap HostedOn(t) = {}
                /\ SumFunctionOnSet(EffMips[t], new) <= Free[t]
  <2>1. t = s /\ {u \in Services : <<t, u>> \in slots} = {v}
    BY <1>3
  <2>2. Free[s] \in Int /\ EffMips[s][v] \in Nat
    BY UsedType, DemandAssumption
  <2>3. {v} \cap HostedOn(s) = {} /\ SumFunctionOnSet(EffMips[s], {v}) <= Free[s]
    BY <1>1, <1>2, <2>2
  <2> QED  BY <2>1, <2>3
<1> HIDE DEF slots
<1> QED
  BY <1>1, <1>3, CreateCapacity

\* The initial placement fits.
LEMMA InitCapacity == Init => CapacityRespected
<1> SUFFICES ASSUME NEW selected \in (SUBSET Servers) \ {{}},
                    NEW m \in InitialPlacements(selected), InitFrom(selected, m),
                    NEW s \in Servers
             PROVE  UsedCpu(s) <= Capacity[s]
  BY DEF Init, InitFrom, CapacityRespected
<1>1. hosted = {<<m[v], v, 1>> : v \in {u \in Services : m[u] # None}}
  BY DEF InitFrom
<1>2. HostedOn(s) = {v \in Services : m[v] = s}
  <2>1. HostedOn(s) = {v \in Services : \E r \in hosted : Slot(r) = <<s, v>>}
    BY DEF HostedOn, In
  <2>2. ASSUME NEW v \in Services
        PROVE  (\E r \in hosted : Slot(r) = <<s, v>>) <=> m[v] = s
    <3>1. ASSUME NEW r \in hosted, Slot(r) = <<s, v>>
          PROVE  m[v] = s
      BY <1>1, <3>1 DEF Slot
    <3>2. ASSUME m[v] = s
          PROVE  \E r \in hosted : Slot(r) = <<s, v>>
      <4>1. <<m[v], v, 1>> \in hosted
        BY <1>1, <3>2, ServersAssumption
      <4>2. Slot(<<m[v], v, 1>>) = <<s, v>>
        BY <3>2 DEF Slot
      <4> QED  BY <4>1, <4>2
    <3> QED  BY <3>1, <3>2
  <2> QED  BY <2>1, <2>2
<1>3. CASE s \in selected
  <2>1. selected \in SUBSET Servers
    OBVIOUS
  <2> QED  BY <1>2, <1>3, <2>1, InitialFits DEF UsedCpu
<1>4. CASE s \notin selected
  <2>1. HostedOn(s) = {}
    BY <1>2, <1>4, ServersAssumption DEF InitialPlacements
  <2>2. {} \in SUBSET Services /\ {} \in SUBSET {}
    OBVIOUS
  <2>3. SumFunctionOnSet(EffMips[s], {}) = 0 /\ Capacity[s] \in Nat
    BY <2>2, Reserved, DemandAssumption
  <2> QED  BY <2>1, <2>3 DEF UsedCpu
<1> QED  BY <1>3, <1>4

\* Every step keeps the servers within their capacity.
LEMMA CapacityStep ==
  ASSUME Types, CapacityRespected, [Next]_vars
  PROVE  CapacityRespected'
<1>1. CASE UNCHANGED vars
  BY <1>1, ShrinkCapacity DEF vars
<1>2. CASE Tasks
  <2>1. hosted' \subseteq hosted
    BY <1>2 DEF Tasks, PodStarts, BeginDeletion, PollSucceeds, PollTimesOut, EndDeletion,
                Reject, Delete, replicas
  <2> QED  BY <2>1, ShrinkCapacity
<1>3. CASE Provision
  <2>1. CASE NoProvisioning \/ \E s \in Servers : TurnOn(s) \/ AbortTurnOff(s)
    <3>1. hosted' = hosted
      BY <2>1, NoDrainStarts
    <3> QED  BY <3>1, ShrinkCapacity
  <2> QED  BY <1>3, <2>1, StartCapacity DEF Provision
<1>4. CASE Drain
  <2>1. hosted' \subseteq hosted
    BY <1>4 DEF Drain, EndWait, SkipDelete, DeleteAtOnce, BeginDelete, EndDelete,
                EndTurnOff, Delete, replicas
  <2> QED  BY <2>1, ShrinkCapacity
<1>5. CASE Scale
  <2>1. CASE \E v \in Services : NoScale(v) \/ \E r \in Replicas : ScaleDown(v, r)
    <3>1. hosted' = hosted
      BY <2>1 DEF NoScale, ScaleDown, replicas
    <3> QED  BY <3>1, ShrinkCapacity
  <2> QED  BY <1>5, <2>1, ScaleUpCapacity DEF Scale
<1> QED
  BY <1>1, <1>2, <1>3, <1>4, <1>5 DEF Next

\* No server ever hosts more than its capacity: the room that a drain reserves
\* by raw demand, and the placement it then makes by effective demand, agree
\* with what _can_host admits.
THEOREM RealtimeCapacity == Spec => []CapacityRespected
<1>1. Init => Types /\ CapacityRespected
  BY TypesInit, InitCapacity
<1>2. (Types /\ CapacityRespected) /\ [Next]_vars => (Types /\ CapacityRespected)'
  BY TypesStep, CapacityStep
<1> QED
  BY <1>1, <1>2, PTL DEF Spec

----------------------------------------------------------------------------
(* The decision loop's own variables, and servers that are off.            *)

\* Where the loop is tells what its variables hold; a drained server is
\* DRAINING until the end; and, since the pass by effective demand takes all
\* that the pass by raw demand admits, a migration fails only on a timeout.
LoopOK ==
  /\ loop.at \notin {"wait", "delete"} =>
       /\ loop.server = None /\ loop.fresh = {} /\ loop.failed = {}
       /\ loop.todo = {} /\ loop.current = None
  /\ loop.at \in {"wait", "delete"} =>
       /\ loop.server \in Servers /\ state[loop.server] = "DRAINING"
       /\ \A r \in loop.fresh : r[1] # loop.server
  /\ loop.at = "wait" => loop.todo = {} /\ loop.current = None
  /\ loop.current # None =>
       loop.current[1] = loop.server /\ loop.current[2] \notin loop.todo \cup loop.failed
  /\ loop.todo \cap loop.failed = {}
  /\ loop.failed # {} => SlowPods
  /\ loop.at = "scale" => loop.turn \in Services

\* LoopOK holds of the loop records that the code starts afresh.
LEMMA FreshLoopOK ==
  ASSUME \/ loop' = Asleep \/ loop' = [Asleep EXCEPT !.at = "crashed"]
         \/ \E v \in Services : loop' = ScaleFrom(v)
  PROVE  LoopOK'
<1>1. /\ loop'.at \in {"sleep", "crashed", "scale"}
      /\ loop'.server = None /\ loop'.fresh = {} /\ loop'.failed = {}
      /\ loop'.todo = {} /\ loop'.current = None
      /\ loop'.at = "scale" => loop'.turn \in Services
  <2>1. CASE loop' = Asleep
    BY <2>1 DEF Asleep
  <2>2. CASE loop' = [Asleep EXCEPT !.at = "crashed"]
    BY <2>2 DEF Asleep
  <2>3. ASSUME NEW v \in Services, loop' = ScaleFrom(v)
        PROVE  loop'.at = "scale" /\ loop'.turn = v /\ loop'.server = None /\ loop'.fresh = {}
               /\ loop'.failed = {} /\ loop'.todo = {} /\ loop'.current = None
    BY <2>3 DEF Asleep, ScaleFrom
  <2> QED  BY <2>1, <2>2, <2>3
<1> QED
  BY <1>1 DEF LoopOK

\* A drain that starts leaves no service out of its placement.
LEMMA StartLoop ==
  ASSUME Types, NEW s \in Servers, StartTurnOff(s)
  PROVE  LoopOK' /\ loop'.failed = {}
<1>1. PICK m \in MigrationPlans(s) : \E placed \in Packings(EffMips, m, Free) :
             StartFrom(s, m, placed)
  BY StartTurnOffCases
<1>2. PICK placed \in Packings(EffMips, m, Free) : StartFrom(s, m, placed)
  BY <1>1
<1> DEFINE slots == {<<m[v], v>> : v \in placed}
<1>3. /\ slots \in SUBSET Slots /\ SoleHosted(s) \in SUBSET Services
      /\ m \in [SoleHosted(s) -> Servers \cup {None}]
      /\ \A v \in placed : m[v] \in Active \ {s}
  BY DrainSlots
<1>4. \A slot \in slots : slot[1] # s
  BY <1>3
<1> HIDE DEF slots
<1>5. /\ Create(slots) /\ SoleHosted(s) \in Packings(RawMips, m, Free)
      /\ loop' = [Asleep EXCEPT !.at = "wait", !.server = s, !.fresh = New(slots),
                                !.failed = SoleHosted(s) \ placed]
      /\ state' = [state EXCEPT ![s] = "DRAINING"]
  BY <1>2 DEF StartFrom, slots
<1>6. \A r \in New(slots) : r \in Replicas /\ Slot(r) \in slots
  BY <1>3, <1>5, NewReplicas DEF Create
<1>7. \A r \in New(slots) : r[1] # s
  BY <1>4, <1>6 DEF Slot
<1>8. placed = SoleHosted(s)
  BY <1>3, <1>5, UsedType, NothingLeftOut
<1>9. /\ loop'.at = "wait" /\ loop'.server = s /\ loop'.fresh = New(slots)
      /\ loop'.failed = {} /\ loop'.todo = {} /\ loop'.current = None
      /\ state'[s] = "DRAINING"
  BY <1>5, <1>8 DEF Asleep, Types, TypeOK
<1> QED
  BY <1>7, <1>9 DEF LoopOK

\* Every step keeps the loop's variables in order.
LEMMA LoopStep ==
  ASSUME Types, LoopOK, [Next]_vars
  PROVE  LoopOK'
<1>0. loop \in LoopRecord
  BY DEF Types
<1>1. CASE UNCHANGED vars
  BY <1>1 DEF vars, LoopOK
<1>2. CASE Tasks
  <2>1. UNCHANGED <<loop, state>>
    BY <1>2 DEF Tasks, PodStarts, BeginDeletion, PollSucceeds, PollTimesOut, EndDeletion, Reject
  <2> QED  BY <2>1 DEF LoopOK
<1>3. CASE Provision
  <2>1. CASE NoProvisioning \/ \E s \in Servers : TurnOn(s) \/ AbortTurnOff(s)
    <3>1. loop' = ScaleFrom(1)
      BY <2>1, NoDrainStarts
    <3> QED  BY <3>1, FreshLoop, FreshLoopOK
  <2> QED  BY <1>3, <2>1, StartLoop DEF Provision
<1>4. CASE EndWait
  <2>1. NotReady # {} => SlowPods
    BY <1>4 DEF EndWait, WaitIsOver
  <2>2. NowFailed # {} => SlowPods
    BY <2>1 DEF NowFailed, LoopOK
  <2>3. /\ loop' = [loop EXCEPT !.at = "delete", !.failed = NowFailed,
                               !.todo = HostedOn(loop.server) \ NowFailed]
        /\ state' = state /\ loop.at = "wait"
    BY <1>4 DEF EndWait
  <2>4. /\ loop'.at = "delete" /\ loop'.server = loop.server /\ loop'.fresh = loop.fresh
        /\ loop'.failed = NowFailed /\ loop'.current = loop.current
        /\ loop'.todo = HostedOn(loop.server) \ NowFailed
    BY <1>0, <2>3 DEF LoopRecord
  <2> QED
    BY <2>2, <2>3, <2>4 DEF LoopOK
<1>5. ASSUME NEW v \in Services, SkipDelete(v) \/ DeleteAtOnce(v)
      PROVE  LoopOK'
  <2>1. /\ loop' = [loop EXCEPT !.todo = @ \ {v}] /\ state' = state
        /\ loop.at = "delete" /\ loop.current = None
    BY <1>5 DEF SkipDelete, DeleteAtOnce, Next1
  <2>2. /\ loop'.at = "delete" /\ loop'.server = loop.server /\ loop'.fresh = loop.fresh
        /\ loop'.failed = loop.failed /\ loop'.current = None
        /\ loop'.todo \subseteq loop.todo
    BY <1>0, <2>1 DEF LoopRecord
  <2> QED
    BY <2>1, <2>2 DEF LoopOK
<1>6. ASSUME NEW v \in Services, BeginDelete(v)
      PROVE  LoopOK'
  <2>1. PICK r \in In(<<loop.server, v>>) : loop' = [loop EXCEPT !.todo = @ \ {v}, !.current = r]
    BY <1>6 DEF BeginDelete
  <2>2. r[1] = loop.server /\ r[2] = v
    BY <2>1 DEF In, Slot
  <2>3. /\ loop.at = "delete" /\ loop.current = None /\ v \in loop.todo /\ state' = state
    BY <1>6 DEF BeginDelete, Next1
  <2>4. /\ loop'.at = "delete" /\ loop'.server = loop.server /\ loop'.fresh = loop.fresh
        /\ loop'.failed = loop.failed /\ loop'.current = r /\ loop'.todo = loop.todo \ {v}
    BY <1>0, <2>1, <2>3 DEF LoopRecord
  <2> QED
    BY <2>2, <2>3, <2>4 DEF LoopOK
<1>7. CASE EndDelete
  <2>1. CASE DeleteFails(loop.current)
    BY <1>7, <2>1, FreshLoopOK DEF EndDelete
  <2>2. CASE ~DeleteFails(loop.current)
    <3>1. loop' = [loop EXCEPT !.current = None] /\ state' = state /\ loop.at = "delete"
      BY <1>7, <2>2 DEF EndDelete
    <3>2. /\ loop'.at = "delete" /\ loop'.server = loop.server /\ loop'.fresh = loop.fresh
          /\ loop'.failed = loop.failed /\ loop'.current = None
          /\ loop'.todo = loop.todo
      BY <1>0, <3>1 DEF LoopRecord
    <3> QED
      BY <3>1, <3>2 DEF LoopOK
  <2> QED  BY <2>1, <2>2
<1>8. CASE EndTurnOff
  <2>1. loop' = ScaleFrom(1)
    BY <1>8 DEF EndTurnOff
  <2> QED  BY <2>1, FreshLoop, FreshLoopOK
<1>9. CASE Scale
  <2>1. PICK v \in Services : EndScale(v)
    BY <1>9 DEF Scale, NoScale, ScaleUp, ScaleDown
  <2> QED  BY <2>1, FreshLoop, FreshLoopOK DEF EndScale
<1> QED
  BY <1>1, <1>2, <1>3, <1>4, <1>5, <1>6, <1>7, <1>8, <1>9 DEF Next, Drain

\* After _delete_replica, the server no longer hosts the service.
LEMMA HostedAfterDelete ==
  ASSUME Types, NEW r \in Replicas, Delete(r), NEW s \in Servers
  PROVE  HostedOn(s)' = {v \in HostedOn(s) : <<s, v>> # Slot(r)}
<1>1. hosted' = hosted \ In(Slot(r))
  BY DEF Delete
<1>2. \A q \in hosted : q \in In(Slot(r)) <=> Slot(q) = Slot(r)
  BY DEF In
<1>3. HostedOn(s)' = {v \in Services : \E q \in hosted' : Slot(q) = <<s, v>>}
  BY DEF HostedOn, In, Slot
<1>4. HostedOn(s) = {v \in Services : \E q \in hosted : Slot(q) = <<s, v>>}
  BY DEF HostedOn, In
<1>5. \A v : (\E q \in hosted' : Slot(q) = <<s, v>>)
               <=> (\E q \in hosted : Slot(q) = <<s, v>>) /\ <<s, v>> # Slot(r)
  BY <1>1, <1>2
<1> QED
  BY <1>3, <1>4, <1>5

\* What a drain has left to do covers what its server still hosts.
Left == loop.todo \cup loop.failed
          \cup (IF loop.current = None THEN {} ELSE {loop.current[2]})
OffInv ==
  /\ OffServersHostNothing
  /\ loop.at = "delete" => HostedOn(loop.server) \subseteq Left

\* The initial placement uses servers that are ACTIVE.
LEMMA InitOff == Init => LoopOK /\ OffInv
<1> SUFFICES ASSUME NEW selected \in (SUBSET Servers) \ {{}},
                    NEW m \in InitialPlacements(selected), InitFrom(selected, m)
             PROVE  LoopOK /\ OffInv
  BY DEF Init, InitFrom
<1>1. loop = Asleep
  BY DEF InitFrom
<1>2. LoopOK
  BY <1>1 DEF LoopOK, Asleep
<1>3. \A r \in hosted : \E v \in Services : m[v] # None /\ r = <<m[v], v, 1>>
  BY DEF InitFrom
<1>4. m \in [Services -> selected \cup {None}]
  BY DEF InitialPlacements
<1>5. \A r \in hosted : r[1] \in selected
  BY <1>3, <1>4
<1>6. ASSUME NEW s \in Servers, state[s] = "OFF"
      PROVE  HostedOn(s) = {}
  <2>1. s \notin selected
    BY <1>6 DEF InitFrom
  <2> QED  BY <1>5, <2>1 DEF HostedOn, In, Slot
<1> QED
  BY <1>1, <1>2, <1>6 DEF OffInv, OffServersHostNothing, Asleep

\* Replicas go to servers that are ACTIVE, and a drain ends with its server off
\* only when nothing is left on it.
LEMMA OffStep ==
  ASSUME Types, LoopOK, OffInv, [Next]_vars
  PROVE  OffInv'
<1>0. loop \in LoopRecord
  BY DEF Types
<1>a. ASSUME hosted' \subseteq hosted, NEW s \in Servers
      PROVE  HostedOn(s)' \subseteq HostedOn(s)
  BY <1>a DEF HostedOn, In, Slot
<1>b. ASSUME hosted' \subseteq hosted, \A s \in Servers : state'[s] = "OFF" => state[s] = "OFF"
      PROVE  OffServersHostNothing'
  <2>1. \A s \in Servers : HostedOn(s)' \subseteq HostedOn(s)
    BY <1>a, <1>b
  <2>2. \A s \in Servers : state'[s] = "OFF" => HostedOn(s)' = {}
    BY <1>b, <2>1 DEF OffInv, OffServersHostNothing
  <2> QED  BY <2>2 DEF OffServersHostNothing
<1>c. ASSUME hosted' \subseteq hosted, state' = state,
             loop'.server = loop.server, loop'.at = loop.at, Left \subseteq Left'
      PROVE  OffInv'
  <2>1. loop.at = "delete" => loop.server \in Servers
    BY DEF LoopOK
  <2>2. loop.at = "delete" => HostedOn(loop.server)' \subseteq HostedOn(loop.server)
    BY <1>a, <1>c, <2>1 DEF HostedOn, In, Slot
  <2> QED  BY <1>b, <1>c, <2>2 DEF OffInv
<1>1. CASE UNCHANGED vars
  BY <1>1, <1>c DEF vars, Left
<1>2. CASE Tasks
  <2>1. hosted' \subseteq hosted /\ UNCHANGED <<loop, state>>
    BY <1>2 DEF Tasks, PodStarts, BeginDeletion, PollSucceeds, PollTimesOut, EndDeletion,
                Reject, Delete, replicas
  <2> QED  BY <2>1, <1>c DEF Left
<1>3. CASE Provision
  <2>1. CASE NoProvisioning \/ \E s \in Servers : TurnOn(s) \/ AbortTurnOff(s)
    <3>1. hosted' = hosted /\ loop'.at = "scale"
      BY <2>1, NoDrainStarts
    <3>2. \A s \in Servers : state'[s] = "OFF" => state[s] = "OFF"
      BY <2>1, NoDrainStarts
    <3> QED  BY <1>b, <3>1, <3>2 DEF OffInv
  <2>2. ASSUME NEW s \in Servers, StartTurnOff(s)
        PROVE  OffInv'
    <3>1. PICK m \in MigrationPlans(s) : \E placed \in Packings(EffMips, m, Free) :
                 StartFrom(s, m, placed)
      BY <2>2, StartTurnOffCases
    <3>2. PICK placed \in Packings(EffMips, m, Free) : StartFrom(s, m, placed)
      BY <3>1
    <3> DEFINE slots == {<<m[v], v>> : v \in placed}
    <3>3. slots \in SUBSET Slots /\ \A slot \in slots : slot[1] \in Active
      BY DrainSlots
    <3> HIDE DEF slots
    <3>4. /\ Create(slots) /\ loop'.at = "wait" /\ state' = [state EXCEPT ![s] = "DRAINING"]
      BY <3>2 DEF StartFrom, slots, Asleep
    <3>5. ASSUME NEW t \in Servers, state'[t] = "OFF"
          PROVE  HostedOn(t)' = {}
      <4>1. state[t] = "OFF"
        BY <3>4, <3>5 DEF Types, TypeOK
      <4>2. HostedOn(t) = {} /\ {v \in Services : <<t, v>> \in slots} = {}
        BY <3>3, <4>1 DEF OffInv, OffServersHostNothing, Active
      <4> QED  BY <3>3, <3>4, <4>2, HostedAfterCreate
    <3> QED  BY <3>4, <3>5 DEF OffInv, OffServersHostNothing
  <2> QED  BY <1>3, <2>1, <2>2 DEF Provision
<1>4. CASE EndWait
  <2>1. /\ loop' = [loop EXCEPT !.at = "delete", !.failed = NowFailed,
                                !.todo = HostedOn(loop.server) \ NowFailed]
        /\ state' = state /\ hosted' = hosted
    BY <1>4 DEF EndWait, replicas
  <2>2. /\ loop'.server = loop.server /\ loop'.failed = NowFailed
        /\ loop'.todo = HostedOn(loop.server) \ NowFailed
    BY <1>0, <2>1 DEF LoopRecord
  <2>3. HostedOn(loop.server)' = HostedOn(loop.server)
    BY <2>1, <2>2 DEF HostedOn, In, Slot
  <2> QED  BY <1>b, <2>1, <2>2, <2>3 DEF OffInv, Left
<1>5. ASSUME NEW v \in Services, SkipDelete(v)
      PROVE  OffInv'
  <2>1. /\ loop' = [loop EXCEPT !.todo = @ \ {v}] /\ loop.at = "delete"
        /\ loop.current = None /\ v \notin HostedOn(loop.server)
        /\ state' = state /\ hosted' = hosted
    BY <1>5 DEF SkipDelete, Next1, replicas
  <2>2. /\ loop'.server = loop.server /\ loop'.failed = loop.failed
        /\ loop'.todo = loop.todo \ {v} /\ loop'.current = None
    BY <1>0, <2>1 DEF LoopRecord
  <2>3. HostedOn(loop.server)' = HostedOn(loop.server)
    BY <2>1, <2>2 DEF HostedOn, In, Slot
  <2> QED  BY <1>b, <2>1, <2>2, <2>3 DEF OffInv, Left
<1>6. ASSUME NEW v \in Services, DeleteAtOnce(v)
      PROVE  OffInv'
  <2>1. PICK r \in In(<<loop.server, v>>) : Delete(r)
    BY <1>6 DEF DeleteAtOnce
  <2>2. /\ loop' = [loop EXCEPT !.todo = @ \ {v}] /\ loop.at = "delete"
        /\ loop.current = None /\ state' = state /\ hosted' \subseteq hosted
    BY <1>6, <2>1 DEF DeleteAtOnce, Next1, Delete
  <2>3. /\ loop'.server = loop.server /\ loop'.failed = loop.failed
        /\ loop'.todo = loop.todo \ {v} /\ loop'.current = None
    BY <1>0, <2>2 DEF LoopRecord
  <2>4. r \in Replicas /\ Slot(r) = <<loop.server, v>> /\ loop.server \in Servers
    BY <2>1, <2>2 DEF In, Types, TypeOK, LoopOK
  <2>5. HostedOn(loop.server)' = {u \in HostedOn(loop.server) : u # v}
    <3>1. \A s \in Servers : HostedOn(s)' = {u \in HostedOn(s) : <<s, u>> # Slot(r)}
      BY <2>1, <2>4, HostedAfterDelete
    <3>2. HostedOn(loop.server)' = {u \in Services : {q \in hosted' : Slot(q) = <<loop.server, u>>} # {}}
      BY <2>3 DEF HostedOn, In, Slot
    <3>3. \A s \in Servers : HostedOn(s)' = {u \in Services : {q \in hosted' : Slot(q) = <<s, u>>} # {}}
      BY DEF HostedOn, In, Slot
    <3>4. HostedOn(loop.server)' = {u \in HostedOn(loop.server) : <<loop.server, u>> # Slot(r)}
      BY <3>1, <3>2, <3>3, <2>4
    <3> QED  BY <2>4, <3>4
  <2> QED  BY <1>b, <2>2, <2>3, <2>5 DEF OffInv, Left
<1>7. ASSUME NEW v \in Services, BeginDelete(v)
      PROVE  OffInv'
  <2>1. PICK r \in In(<<loop.server, v>>) : loop' = [loop EXCEPT !.todo = @ \ {v}, !.current = r]
    BY <1>7 DEF BeginDelete
  <2>2. /\ loop.at = "delete" /\ loop.current = None
        /\ state' = state /\ hosted' = hosted
    BY <1>7 DEF BeginDelete, Next1
  <2>3. /\ loop'.server = loop.server /\ loop'.failed = loop.failed /\ loop'.at = loop.at
        /\ loop'.todo = loop.todo \ {v} /\ loop'.current = r
    BY <1>0, <2>1 DEF LoopRecord
  <2>4. r[2] = v /\ r # None
    <3>1. r \in hosted /\ Slot(r) = <<loop.server, v>> /\ loop.server \in Servers
      BY <2>1, <2>2 DEF In, LoopOK
    <3>2. r \in Replicas
      BY <3>1 DEF Types, TypeOK
    <3> QED  BY <3>1, <3>2, NoneAssumption DEF Slot
  <2>5. Left \subseteq Left'
    BY <2>2, <2>3, <2>4 DEF Left
  <2> QED  BY <1>c, <2>2, <2>3, <2>5
<1>8. CASE EndDelete
  <2>1. /\ loop.current \in Replicas /\ Delete(loop.current) /\ state' = state
        /\ hosted' \subseteq hosted /\ loop.at = "delete" /\ loop.current # None
    BY <1>0, <1>8 DEF EndDelete, LoopRecord, Delete
  <2>2. CASE DeleteFails(loop.current)
    <3>1. loop'.at = "crashed"
      BY <1>8, <2>2 DEF EndDelete, Asleep
    <3> QED  BY <1>b, <2>1, <3>1 DEF OffInv
  <2>3. CASE ~DeleteFails(loop.current)
    <3>1. loop' = [loop EXCEPT !.current = None]
      BY <1>8, <2>3 DEF EndDelete
    <3>2. /\ loop'.server = loop.server /\ loop'.failed = loop.failed
          /\ loop'.todo = loop.todo /\ loop'.current = None
      BY <1>0, <3>1 DEF LoopRecord
    <3>3. /\ loop.server \in Servers
          /\ Slot(loop.current) = <<loop.server, loop.current[2]>>
      BY <2>1 DEF LoopOK, Slot
    <3>4. \A s \in Servers : HostedOn(s)' = {u \in HostedOn(s) : <<s, u>> # Slot(loop.current)}
      BY <2>1, HostedAfterDelete
    <3>5. HostedOn(loop.server)' = {u \in Services : {q \in hosted' : Slot(q) = <<loop.server, u>>} # {}}
      BY <3>2 DEF HostedOn, In, Slot
    <3>6. \A s \in Servers : HostedOn(s)' = {u \in Services : {q \in hosted' : Slot(q) = <<s, u>>} # {}}
      BY DEF HostedOn, In, Slot
    <3>7. HostedOn(loop.server)' =
            {u \in HostedOn(loop.server) : <<loop.server, u>> # <<loop.server, loop.current[2]>>}
      BY <3>3, <3>4, <3>5, <3>6
    <3> QED  BY <1>b, <2>1, <3>2, <3>7 DEF OffInv, Left
  <2> QED  BY <2>2, <2>3
<1>9. CASE EndTurnOff
  <2>1. /\ loop'.at = "scale" /\ hosted' = hosted /\ loop.todo = {} /\ loop.current = None
        /\ state' = [state EXCEPT ![loop.server] = EndState] /\ loop.at = "delete"
    BY <1>9 DEF EndTurnOff, Next1, replicas, ScaleFrom, Asleep
  <2>2. ASSUME NEW s \in Servers, state'[s] = "OFF"
        PROVE  HostedOn(s)' = {}
    <3>0. HostedOn(s)' \subseteq HostedOn(s)
      BY <1>a, <2>1
    <3>1. CASE s = loop.server
      <4>1. loop.failed = {}
        BY <2>1, <2>2, <3>1 DEF EndState, Types, TypeOK
      <4> QED  BY <2>1, <3>0, <3>1, <4>1 DEF OffInv, Left
    <3>2. CASE s # loop.server
      <4>1. state[s] = "OFF"
        BY <2>1, <2>2, <3>2 DEF Types, TypeOK
      <4> QED  BY <3>0, <4>1 DEF OffInv, OffServersHostNothing
    <3> QED  BY <3>1, <3>2
  <2> QED  BY <2>1, <2>2 DEF OffInv, OffServersHostNothing
<1>10. CASE Scale
  <2>1. loop'.at # "delete" /\ state' = state
    <3>1. PICK v \in Services : EndScale(v) /\ state' = state
      BY <1>10 DEF Scale, NoScale, ScaleUp, ScaleDown
    <3>2. loop' = Asleep \/ loop' = ScaleFrom(v + 1)
      BY <3>1 DEF EndScale
    <3>3. CASE loop' = Asleep
      BY <3>1, <3>3 DEF Asleep
    <3>4. CASE loop' = ScaleFrom(v + 1)
      BY <3>1, <3>4 DEF ScaleFrom, Asleep
    <3> QED  BY <3>2, <3>3, <3>4
  <2>2. CASE \E v \in Services : NoScale(v) \/ \E r \in Replicas : ScaleDown(v, r)
    <3>1. hosted' = hosted
      BY <2>2 DEF NoScale, ScaleDown, replicas
    <3> QED  BY <1>b, <2>1, <3>1 DEF OffInv
  <2>3. ASSUME NEW v \in Services, NEW s \in Servers, ScaleUp(v, s)
        PROVE  OffInv'
    <3> DEFINE slots == {<<s, v>>}
    <3>1. slots \in SUBSET Slots /\ Create(slots) /\ state[s] = "ACTIVE"
      BY <2>3 DEF ScaleUp, Slots
    <3>2. ASSUME NEW t \in Servers, state[t] = "OFF"
          PROVE  HostedOn(t)' = {}
      <4>1. HostedOn(t) = {} /\ {u \in Services : <<t, u>> \in slots} = {}
        BY <3>1, <3>2 DEF OffInv, OffServersHostNothing
      <4> HIDE DEF slots
      <4> QED  BY <3>1, <4>1, HostedAfterCreate
    <3> QED  BY <2>1, <3>2 DEF OffInv, OffServersHostNothing
  <2> QED  BY <1>10, <2>2, <2>3 DEF Scale
<1> QED
  BY <1>1, <1>2, <1>3, <1>4, <1>5, <1>6, <1>7, <1>8, <1>9, <1>10 DEF Next, Drain

\* A server that is off hosts nothing, whatever fails in the drain before it.
THEOREM RealtimeOffIsEmpty == Spec => []OffServersHostNothing
<1> DEFINE Inv == Types /\ LoopOK /\ OffInv
<1>1. Init => Inv
  BY TypesInit, InitOff
<1>2. Inv /\ [Next]_vars => Inv'
  BY TypesStep, LoopStep, OffStep
<1>3. Inv => OffServersHostNothing
  BY DEF OffInv
<1> QED
  BY <1>1, <1>2, <1>3, PTL DEF Spec

----------------------------------------------------------------------------
(* The books, when deletions outlast the decision interval or pods are     *)
(* slow, but not both.  With both, a migration that times out leaves its   *)
(* server ACTIVE while a deletion still holds a replica that the drain has *)
(* deleted; a scale-up fills the slot again, and the deletion then takes   *)
(* the new replica's deployment and its hosted_replicas entry.             *)

NotBoth == ~(LongDrains /\ SlowPods)

\* Replicas that a deletion or the drain holds across an await.
Held == deleting \cup ({loop.current} \ {None})

\* A held replica is in its place, or its slot is empty and no scale-up can fill
\* it; and only a deletion marks a replica DRAINING, never one that is polled.
HeldOK ==
  /\ \A r \in Held : r \in hosted \/ (\A q \in hosted : Slot(q) # Slot(r))
  /\ \A r \in deleting : r \in hosted \/ state[r[1]] # "ACTIVE"
  /\ \A r \in Held \cap hosted : replica[r] = "DRAINING"
  /\ \A r \in polls \cap hosted : replica[r] = "STARTING"
  /\ Held \cap loop.fresh = {}
  /\ ~LongDrains /\ loop.at # "sleep" => deleting = {}

\* A spawned deletion has begun before the next tick, and finds a READY replica.
SpawnedOK ==
  /\ loop.at \notin {"sleep", "scale"} => spawned = {}
  /\ \A slot \in spawned : \E r \in hosted : Slot(r) = slot /\ replica[r] = "READY"

\* What a drain knows of its new replicas and of the sources of failed migrations.
Source(v) == \E q \in hosted : Slot(q) = <<loop.server, v>>
DrainOK ==
  /\ loop.at = "wait" => loop.failed = {}
  /\ loop.at = "wait" /\ SlowPods => \A r \in loop.fresh : Source(r[2])
  /\ loop.at = "delete" =>
       /\ \A v \in loop.failed : Source(v)
       /\ \A r \in loop.fresh : replica[r] = "READY" \/ r[2] \in loop.failed

Books == BooksAgree /\ ReadyIsRunning
BooksInv == Types /\ LoopOK /\ Books /\ HeldOK /\ SpawnedOK /\ DrainOK

\* _delete_replica of a replica that is in its place, or whose slot is empty:
\* the three books lose it, and nothing else.
LEMMA DeleteEffect ==
  ASSUME Types, Books, NEW r \in Replicas, Delete(r),
         r \in hosted \/ (\A q \in hosted : Slot(q) # Slot(r))
  PROVE  /\ hosted' = hosted \ {r} /\ listed' = hosted'
         /\ deployed' = deployed \ {Slot(r)} /\ running' = running \ {Slot(r)}
         /\ replica' = [replica EXCEPT ![r] = "TERMINATED"]
         /\ \A q \in hosted' : Slot(q) # Slot(r)
<1>1. In(Slot(r)) = hosted \cap {r}
  BY DEF In, Types, TypeOK
<1>2. hosted' = hosted \ {r}
  BY <1>1 DEF Delete
<1>3. listed' = hosted \ {r}
  BY <1>1 DEF Delete, DeleteFails, Books, BooksAgree
<1>4. \A q \in hosted' : Slot(q) # Slot(r)
  BY <1>2 DEF Types, TypeOK
<1> QED
  BY <1>2, <1>3, <1>4 DEF Delete, Undeployed

\* _create_replica on empty slots: the three books gain the new replicas.
LEMMA CreateEffect ==
  ASSUME Types, Books, NEW slots \in SUBSET Slots, Create(slots),
         \A slot \in slots : \A q \in hosted : Slot(q) # slot
  PROVE  /\ hosted' = hosted \cup New(slots) /\ listed' = hosted'
         /\ deployed' = deployed \cup slots /\ polls' = polls \cup New(slots)
         /\ New(slots) \subseteq Replicas \ (hosted \cup polls \cup deleting)
         /\ \A r \in New(slots) : Slot(r) \in slots
         /\ \A slot \in slots : \E r \in New(slots) : Slot(r) = slot
         /\ \A r \in Replicas : replica'[r] = IF r \in New(slots) THEN "STARTING" ELSE replica[r]
<1>1. UNION {In(slot) : slot \in slots} = {}
  BY DEF In
<1>2. hosted' = hosted \cup New(slots) /\ listed' = hosted'
  BY <1>1 DEF Create, Books, BooksAgree
<1>3. /\ New(slots) \subseteq Replicas \ (hosted \cup listed \cup polls \cup deleting)
      /\ \A r \in New(slots) : Slot(r) \in slots
      /\ \A slot \in slots : \E r \in New(slots) : Slot(r) = slot
  BY NewReplicas DEF Create
<1> QED
  BY <1>2, <1>3 DEF Create

\* The books after a deletion.
LEMMA DeleteBooks ==
  ASSUME Types, Books, NEW r \in Replicas, Delete(r),
         r \in hosted \/ (\A q \in hosted : Slot(q) # Slot(r))
  PROVE  Books'
<1>1. /\ hosted' = hosted \ {r} /\ listed' = hosted'
      /\ deployed' = deployed \ {Slot(r)} /\ running' = running \ {Slot(r)}
      /\ replica' = [replica EXCEPT ![r] = "TERMINATED"]
      /\ \A q \in hosted' : Slot(q) # Slot(r)
  BY DeleteEffect
<1>2. {Slot(q) : q \in hosted'} = deployed'
  <2>1. {Slot(q) : q \in hosted} = deployed
    BY DEF Books, BooksAgree
  <2>2. ASSUME NEW q \in hosted, Slot(q) # Slot(r)
        PROVE  q \in hosted'
    BY <1>1, <2>2
  <2> QED  BY <1>1, <2>1, <2>2
<1>3. ASSUME NEW q \in listed', replica'[q] = "READY"
      PROVE  Slot(q) \in running'
  <2>1. q # r /\ q \in listed /\ q \in Replicas
    BY <1>1, <1>3 DEF Books, BooksAgree, Types, TypeOK
  <2>2. replica[q] = "READY"
    BY <1>1, <1>3, <2>1 DEF Types, TypeOK
  <2>3. Slot(q) \in running
    BY <2>1, <2>2 DEF Books, ReadyIsRunning
  <2> QED  BY <1>1, <1>3, <2>3
<1> QED
  BY <1>1, <1>2, <1>3 DEF Books, BooksAgree, ReadyIsRunning, Slot

\* The books after a creation.
LEMMA CreateBooks ==
  ASSUME Types, Books, NEW slots \in SUBSET Slots, Create(slots), running' = running,
         \A slot \in slots : \A q \in hosted : Slot(q) # slot
  PROVE  Books'
<1>1. /\ hosted' = hosted \cup New(slots) /\ listed' = hosted'
      /\ deployed' = deployed \cup slots
      /\ New(slots) \subseteq Replicas \ (hosted \cup polls \cup deleting)
      /\ \A r \in New(slots) : Slot(r) \in slots
      /\ \A slot \in slots : \E r \in New(slots) : Slot(r) = slot
      /\ \A r \in Replicas : replica'[r] = IF r \in New(slots) THEN "STARTING" ELSE replica[r]
  BY CreateEffect
<1>2. {Slot(q) : q \in hosted'} = deployed'
  <2>1. {Slot(q) : q \in hosted} = deployed
    BY DEF Books, BooksAgree
  <2> QED  BY <1>1, <2>1
<1>3. ASSUME NEW q \in listed', replica'[q] = "READY"
      PROVE  Slot(q) \in running'
  <2>1. q \in listed /\ replica[q] = "READY"
    BY <1>1, <1>3 DEF Books, BooksAgree, Types, TypeOK
  <2> QED  BY <2>1 DEF Books, ReadyIsRunning
<1> QED
  BY <1>1, <1>2, <1>3 DEF Books, BooksAgree, ReadyIsRunning, Slot

\* The part of the invariant that a step must establish again.
Rest == Books /\ HeldOK /\ SpawnedOK /\ DrainOK

\* Steps of the other coroutines that leave the books' sets alone.
LEMMA RestPod ==
  ASSUME BooksInv, NEW slot \in Slots, PodStarts(slot)
  PROVE  Rest'
<1>1. /\ running' = running \cup {slot}
      /\ UNCHANGED <<state, hosted, listed, replica, deployed, polls, spawned, deleting, loop>>
  BY DEF PodStarts, replicas, tasks
<1>2. Books'
  BY <1>1 DEF BooksInv, Books, BooksAgree, ReadyIsRunning, Slot
<1>3. HeldOK' /\ SpawnedOK' /\ DrainOK'
  BY <1>1 DEF BooksInv, HeldOK, SpawnedOK, DrainOK, Held, Source, Slot
<1> QED  BY <1>2, <1>3 DEF Rest

\* A poll reports that the replica is READY.
LEMMA RestPoll ==
  ASSUME BooksInv, NEW r \in Replicas, PollSucceeds(r)
  PROVE  Rest'
<1>1. /\ replica' = [replica EXCEPT ![r] = "READY"] /\ polls' = polls \ {r}
      /\ r \in polls /\ Slot(r) \in running
      /\ UNCHANGED <<state, hosted, listed, deployed, running, spawned, deleting, loop>>
  BY DEF PollSucceeds, PollFinds, kubernetes
<1>2. /\ replica'[r] = "READY"
      /\ \A q \in Replicas : q # r => replica'[q] = replica[q]
      /\ hosted \subseteq Replicas /\ listed \subseteq Replicas /\ loop.fresh \subseteq Replicas
  BY <1>1 DEF BooksInv, Types, TypeOK
<1>3. Books'
  BY <1>1, <1>2 DEF BooksInv, Books, BooksAgree, ReadyIsRunning, Slot
<1>4. HeldOK'
  <2>1. r \notin Held \cap hosted
    BY <1>1 DEF BooksInv, HeldOK
  <2> QED  BY <1>1, <1>2, <2>1 DEF BooksInv, HeldOK, Held, Slot
<1>5. SpawnedOK' /\ DrainOK'
  BY <1>1, <1>2 DEF BooksInv, SpawnedOK, DrainOK, Source, Slot
<1> QED  BY <1>3, <1>4, <1>5 DEF Rest

\* A poll gives up; a request is rejected.
LEMMA RestQuiet ==
  ASSUME BooksInv, (\E r \in Replicas : PollTimesOut(r)) \/ Reject
  PROVE  Rest'
<1>1. /\ polls' \subseteq polls
      /\ UNCHANGED <<state, hosted, listed, replica, deployed, running, spawned, deleting, loop>>
  BY DEF PollTimesOut, Reject, replicas, kubernetes, tasks
<1>2. Books' /\ SpawnedOK' /\ DrainOK'
  BY <1>1 DEF BooksInv, Books, BooksAgree, ReadyIsRunning, SpawnedOK, DrainOK, Source, Slot
<1>3. HeldOK'
  BY <1>1 DEF BooksInv, HeldOK, Held, Slot
<1> QED  BY <1>2, <1>3 DEF Rest

\* A spawned deletion takes hold of the READY replica in its slot.
LEMMA RestBeginDeletion ==
  ASSUME BooksInv, NEW slot \in Slots, BeginDeletion(slot)
  PROVE  Rest'
<1>1. PICK r \in In(slot) : replica' = Marked(r) /\ deleting' = deleting \cup {r}
  BY DEF BeginDeletion
<1>2. /\ r \in hosted /\ Slot(r) = slot /\ r \in Replicas /\ slot \in spawned
      /\ spawned' = spawned \ {slot} /\ Suspended
      /\ UNCHANGED <<state, hosted, listed, deployed, running, polls, loop>>
  BY <1>1 DEF BeginDeletion, In, kubernetes, BooksInv, Types, TypeOK
<1>3. loop.at = "sleep" /\ loop.fresh = {}
  BY <1>2 DEF Suspended, BooksInv, SpawnedOK, LoopOK
<1>4. replica[r] = "READY"
  BY <1>2 DEF BooksInv, SpawnedOK, Types, TypeOK
<1>5. /\ replica'[r] = "DRAINING"
      /\ \A q \in Replicas : q # r => replica'[q] = replica[q]
      /\ hosted \subseteq Replicas /\ listed \subseteq Replicas
  BY <1>1, <1>2 DEF Marked, BooksInv, Types, TypeOK
<1>6. Books'
  BY <1>2, <1>5 DEF BooksInv, Books, BooksAgree, ReadyIsRunning, Slot
<1>7. HeldOK'
  <2>1. Held' = Held \cup {r}
    BY <1>1, <1>2 DEF Held
  <2>2. r \notin polls
    BY <1>2, <1>4 DEF BooksInv, HeldOK
  <2> QED  BY <1>1, <1>2, <1>3, <1>5, <2>1, <2>2 DEF BooksInv, HeldOK, Slot
<1>8. SpawnedOK'
  <2>1. ASSUME NEW other \in spawned'
        PROVE  \E q \in hosted : Slot(q) = other /\ replica'[q] = "READY"
    <3>1. PICK q \in hosted : Slot(q) = other /\ replica[q] = "READY"
      BY <1>2, <2>1 DEF BooksInv, SpawnedOK
    <3>2. q # r
      BY <1>2, <2>1, <3>1
    <3> QED  BY <1>5, <3>1, <3>2
  <2> QED  BY <1>2, <1>3, <2>1 DEF SpawnedOK, Slot
<1>9. DrainOK'
  BY <1>2, <1>3 DEF DrainOK
<1> QED  BY <1>6, <1>7, <1>8, <1>9 DEF Rest

\* A deletion ends.
LEMMA RestEndDeletion ==
  ASSUME BooksInv, NotBoth, NEW r \in Replicas, EndDeletion(r)
  PROVE  Rest'
<1>1. /\ r \in deleting /\ Delete(r) /\ deleting' = deleting \ {r}
      /\ UNCHANGED <<state, polls, spawned, loop>>
  BY DEF EndDeletion
<1>2. r \in Held /\ (r \in hosted \/ (\A q \in hosted : Slot(q) # Slot(r)))
  BY <1>1 DEF BooksInv, HeldOK, Held
<1>3. /\ hosted' = hosted \ {r} /\ listed' = hosted'
      /\ replica' = [replica EXCEPT ![r] = "TERMINATED"]
      /\ \A q \in hosted' : Slot(q) # Slot(r)
  BY <1>1, <1>2, DeleteEffect DEF BooksInv
<1>4. /\ \A q \in Replicas : q # r => replica'[q] = replica[q]
      /\ hosted \subseteq Replicas /\ loop.fresh \subseteq Replicas
      /\ \A p, q \in hosted : Slot(p) = Slot(q) => p = q
  BY <1>3 DEF BooksInv, Types, TypeOK
<1>5. Books'
  BY <1>1, <1>2, DeleteBooks DEF BooksInv
<1>6. HeldOK'
  <2>1. Held' \subseteq Held
    BY <1>1 DEF Held
  <2>2. ASSUME NEW q \in Held'
        PROVE  q \in hosted' \/ (\A p \in hosted' : Slot(p) # Slot(q))
    <3>1. CASE q = r
      BY <1>3, <3>1
    <3>2. CASE q # r
      BY <1>3, <2>1, <3>2 DEF BooksInv, HeldOK
    <3> QED  BY <3>1, <3>2
  <2>3. \A q \in deleting' : q \in hosted' \/ state'[q[1]] # "ACTIVE"
    BY <1>1, <1>3 DEF BooksInv, HeldOK
  <2>4. /\ \A q \in Held' \cap hosted' : replica'[q] = "DRAINING"
        /\ \A q \in polls' \cap hosted' : replica'[q] = "STARTING"
    BY <1>1, <1>3, <1>4, <2>1 DEF BooksInv, HeldOK
  <2> QED  BY <1>1, <2>1, <2>2, <2>3, <2>4 DEF BooksInv, HeldOK, Slot
<1>7. SpawnedOK'
  <2>1. ASSUME NEW slot \in spawned
        PROVE  \E q \in hosted' : Slot(q) = slot /\ replica'[q] = "READY"
    <3>1. PICK q \in hosted : Slot(q) = slot /\ replica[q] = "READY"
      BY <2>1 DEF BooksInv, SpawnedOK
    <3>2. q # r
      BY <1>2, <3>1 DEF BooksInv, HeldOK
    <3> QED  BY <1>3, <1>4, <3>1, <3>2
  <2> QED  BY <1>1, <2>1 DEF BooksInv, SpawnedOK, Slot
<1>8. DrainOK'
  <2>1. r \notin loop.fresh
    BY <1>2 DEF BooksInv, HeldOK
  <2>2. SlowPods => loop.at = "sleep"
    BY <1>1 DEF NotBoth, BooksInv, HeldOK
  <2>3. \A q \in loop.fresh : replica'[q] = replica[q]
    BY <1>4, <2>1
  <2>4. loop.failed # {} => SlowPods
    BY DEF BooksInv, LoopOK
  <2> QED  BY <1>1, <2>2, <2>3, <2>4 DEF BooksInv, DrainOK, Source
<1> QED  BY <1>5, <1>6, <1>7, <1>8 DEF Rest

\* A tick that starts no drain: every deletion is in its place by then.
LEMMA RestTick ==
  ASSUME BooksInv, NoProvisioning \/ \E s \in Servers : TurnOn(s) \/ AbortTurnOff(s)
  PROVE  Rest'
<1>1. /\ TickIsDue /\ loop' = ScaleFrom(1)
      /\ UNCHANGED <<hosted, listed, replica, deployed, running, polls, spawned, deleting>>
  BY NoDrainStarts
<1>2. /\ spawned = {} /\ deleting \subseteq hosted /\ (~LongDrains => deleting = {})
      /\ loop.at = "sleep"
  BY <1>1 DEF TickIsDue
<1>3. loop'.at = "scale" /\ loop'.current = None /\ loop'.fresh = {}
  BY <1>1 DEF ScaleFrom, Asleep
<1>4. Held' = deleting /\ deleting \subseteq Held
  BY <1>1, <1>3 DEF Held
<1>5. Books'
  BY <1>1 DEF BooksInv, Books, BooksAgree, ReadyIsRunning, Slot
<1>6. HeldOK'
  BY <1>1, <1>2, <1>3, <1>4 DEF BooksInv, HeldOK
<1>7. SpawnedOK' /\ DrainOK'
  BY <1>1, <1>2, <1>3 DEF SpawnedOK, DrainOK
<1> QED  BY <1>5, <1>6, <1>7 DEF Rest

\* A drain starts: the new replicas go to empty slots, and the sources stay.
LEMMA RestStart ==
  ASSUME BooksInv, NEW s \in Servers, StartTurnOff(s)
  PROVE  Rest'
<1>1. PICK m \in MigrationPlans(s) : \E placed \in Packings(EffMips, m, Free) :
             StartFrom(s, m, placed)
  BY StartTurnOffCases
<1>2. PICK placed \in Packings(EffMips, m, Free) : StartFrom(s, m, placed)
  BY <1>1
<1> DEFINE slots == {<<m[v], v>> : v \in placed}
<1>3. /\ slots \in SUBSET Slots /\ placed \in SUBSET Services
      /\ \A v \in placed : m[v] \in Active \ {s} /\ CanHost(m[v], v) /\ v \in SoleHosted(s)
  BY DrainSlots
<1>4. \A slot \in slots : \A q \in hosted : Slot(q) # slot
  <2>1. ASSUME NEW v \in placed
        PROVE  \A q \in hosted : Slot(q) # <<m[v], v>>
    <3>1. v \notin HostedOn(m[v]) /\ v \in Services
      BY <1>3 DEF CanHost
    <3> QED  BY <3>1 DEF HostedOn, In
  <2> QED  BY <2>1
<1>5. \A slot \in slots : \E q \in hosted : Slot(q) = <<s, slot[2]>>
  <2>1. ASSUME NEW v \in placed
        PROVE  \E q \in hosted : Slot(q) = <<s, v>>
    BY <1>3 DEF SoleHosted, HostedOn, In
  <2> QED  BY <2>1
<1> HIDE DEF slots
<1>6. /\ TickIsDue /\ Create(slots) /\ UNCHANGED <<running, spawned, deleting>>
      /\ loop' = [Asleep EXCEPT !.at = "wait", !.server = s, !.fresh = New(slots),
                                !.failed = SoleHosted(s) \ placed]
      /\ state' = [state EXCEPT ![s] = "DRAINING"]
  BY <1>2 DEF StartFrom, slots
<1>7. /\ loop'.at = "wait" /\ loop'.server = s /\ loop'.fresh = New(slots) /\ loop'.current = None
  BY <1>6 DEF Asleep
<1>8. loop'.failed = {}
  BY StartLoop DEF BooksInv
<1>9. /\ hosted' = hosted \cup New(slots) /\ polls' = polls \cup New(slots)
      /\ New(slots) \subseteq Replicas \ (hosted \cup polls \cup deleting)
      /\ \A r \in New(slots) : Slot(r) \in slots
      /\ \A r \in Replicas : replica'[r] = IF r \in New(slots) THEN "STARTING" ELSE replica[r]
  BY <1>3, <1>4, <1>6, CreateEffect DEF BooksInv
<1>10. /\ spawned = {} /\ deleting \subseteq hosted /\ (~LongDrains => deleting = {})
  BY <1>6 DEF TickIsDue
<1>11. Books'
  BY <1>3, <1>4, <1>6, CreateBooks DEF BooksInv
<1>12. HeldOK'
  <2>1. Held' = deleting /\ deleting \subseteq Held
    BY <1>6, <1>7 DEF Held
  <2>2. \A r \in hosted \cup polls : r \in Replicas /\ r \notin New(slots)
    BY <1>9 DEF BooksInv, Types, TypeOK
  <2> QED
    BY <1>6, <1>7, <1>9, <1>10, <2>1, <2>2 DEF BooksInv, HeldOK
<1>13. SpawnedOK'
  BY <1>6, <1>10 DEF SpawnedOK
<1>14. DrainOK'
  <2>1. \A r \in New(slots) : Slot(r)[2] = r[2]
    BY DEF Slot
  <2>2. \A r \in New(slots) : \E q \in hosted' : Slot(q) = <<s, r[2]>>
    BY <1>5, <1>9, <2>1
  <2> QED  BY <1>7, <1>8, <2>2 DEF DrainOK, Source, Slot
<1> QED  BY <1>11, <1>12, <1>13, <1>14 DEF Rest

\* The wait of a drain ends.
LEMMA RestEndWait ==
  ASSUME BooksInv, EndWait
  PROVE  Rest'
<1>1. /\ loop.at = "wait" /\ WaitIsOver
      /\ loop' = [loop EXCEPT !.at = "delete", !.failed = NowFailed,
                              !.todo = HostedOn(loop.server) \ NowFailed]
      /\ UNCHANGED <<state, hosted, listed, replica, deployed, running, polls, spawned, deleting>>
  BY DEF EndWait, replicas, kubernetes, tasks
<1>2. /\ loop'.at = "delete" /\ loop'.server = loop.server /\ loop'.fresh = loop.fresh
      /\ loop'.failed = NowFailed /\ loop'.current = loop.current
  BY <1>1 DEF BooksInv, Types, LoopRecord
<1>3. Books' /\ HeldOK' /\ SpawnedOK'
  BY <1>1, <1>2 DEF BooksInv, Books, BooksAgree, ReadyIsRunning, HeldOK, Held, SpawnedOK, Slot
<1>4. DrainOK'
  <2>1. \A v \in NowFailed : Source(v)
    <3>1. NotReady # {} => SlowPods
      BY <1>1 DEF WaitIsOver
    <3> QED  BY <1>1, <3>1 DEF NowFailed, NotReady, BooksInv, DrainOK
  <2>2. \A r \in loop.fresh : replica[r] = "READY" \/ r[2] \in NowFailed
    BY DEF NowFailed, NotReady
  <2> QED  BY <1>1, <1>2, <2>1, <2>2 DEF DrainOK, Source, Slot
<1> QED  BY <1>3, <1>4 DEF Rest

\* The drain skips a service that a deletion has taken meanwhile.
LEMMA RestSkip ==
  ASSUME BooksInv, NEW v \in Services, SkipDelete(v)
  PROVE  Rest'
<1>1. /\ loop' = [loop EXCEPT !.todo = @ \ {v}]
      /\ UNCHANGED <<state, hosted, listed, replica, deployed, running, polls, spawned, deleting>>
  BY DEF SkipDelete, replicas, kubernetes, tasks
<1>2. /\ loop'.at = loop.at /\ loop'.server = loop.server /\ loop'.fresh = loop.fresh
      /\ loop'.failed = loop.failed /\ loop'.current = loop.current
  BY <1>1 DEF BooksInv, Types, LoopRecord
<1>3. Books' /\ HeldOK' /\ SpawnedOK'
  BY <1>1, <1>2 DEF BooksInv, Books, BooksAgree, ReadyIsRunning, HeldOK, Held, SpawnedOK, Slot
<1>4. DrainOK'
  BY <1>1, <1>2 DEF BooksInv, DrainOK, Source, Slot
<1> QED  BY <1>3, <1>4 DEF Rest

\* The drain deletes a replica r of its server: at once, or after the wait.
LEMMA RestDrainDelete ==
  ASSUME BooksInv, NEW r \in Replicas, Delete(r), loop.at = "delete",
         r[1] = loop.server, r[2] \notin loop.failed,
         r \in hosted \/ (\A q \in hosted : Slot(q) # Slot(r)),
         UNCHANGED <<state, polls, spawned, deleting>>,
         loop'.at \in {"delete", "crashed"}, loop'.server = loop.server \/ loop'.at = "crashed",
         loop'.fresh \subseteq loop.fresh,
         loop'.failed = loop.failed \/ loop'.at = "crashed", loop'.current = None
  PROVE  Rest'
<1>1. /\ hosted' = hosted \ {r} /\ listed' = hosted'
      /\ replica' = [replica EXCEPT ![r] = "TERMINATED"]
      /\ \A q \in hosted' : Slot(q) # Slot(r)
  BY DeleteEffect DEF BooksInv
<1>2. /\ \A q \in Replicas : q # r => replica'[q] = replica[q]
      /\ hosted \subseteq Replicas /\ loop.fresh \subseteq Replicas
      /\ deleting \subseteq Replicas
      /\ \A p, q \in hosted : Slot(p) = Slot(q) => p = q
  BY <1>1 DEF BooksInv, Types, TypeOK
<1>3. Books'
  BY DeleteBooks DEF BooksInv
<1>4. HeldOK'
  <2>1. Held' = deleting /\ deleting \subseteq Held
    BY DEF Held
  <2>2. ASSUME NEW q \in deleting
        PROVE  q \in hosted' \/ (\A p \in hosted' : Slot(p) # Slot(q))
    <3>1. CASE q = r
      BY <1>1, <3>1
    <3>2. CASE q # r
      BY <1>1, <2>1, <3>2 DEF BooksInv, HeldOK
    <3> QED  BY <3>1, <3>2
  <2>3. ASSUME NEW q \in deleting
        PROVE  q \in hosted' \/ state'[q[1]] # "ACTIVE"
    <3>1. state[loop.server] = "DRAINING"
      BY DEF BooksInv, LoopOK
    <3>2. q = r => state'[q[1]] # "ACTIVE"
      BY <3>1
    <3> QED  BY <1>1, <3>2 DEF BooksInv, HeldOK
  <2>4. /\ \A q \in deleting \cap hosted' : replica'[q] = "DRAINING"
        /\ \A q \in polls \cap hosted' : replica'[q] = "STARTING"
    BY <1>1, <1>2, <2>1 DEF BooksInv, HeldOK
  <2> QED  BY <2>1, <2>2, <2>3, <2>4 DEF BooksInv, HeldOK, Slot
<1>5. SpawnedOK'
  BY DEF BooksInv, SpawnedOK
<1>6. DrainOK'
  <2>1. r \notin loop.fresh
    BY DEF BooksInv, LoopOK
  <2>2. \A q \in loop.fresh : replica'[q] = replica[q]
    BY <1>2, <2>1
  <2>3. ASSUME NEW v \in loop.failed
        PROVE  \E q \in hosted' : Slot(q) = <<loop.server, v>>
    <3>1. PICK q \in hosted : Slot(q) = <<loop.server, v>>
      BY <2>3 DEF BooksInv, DrainOK, Source
    <3>2. q # r
      BY <2>3, <3>1 DEF Slot
    <3> QED  BY <1>1, <3>1, <3>2
  <2> QED  BY <2>2, <2>3 DEF BooksInv, DrainOK, Source, Slot
<1> QED  BY <1>3, <1>4, <1>5, <1>6 DEF Rest

\* _delete_replica with an empty queue.
LEMMA RestDeleteAtOnce ==
  ASSUME BooksInv, NEW v \in Services, DeleteAtOnce(v)
  PROVE  Rest'
<1>1. PICK r \in In(<<loop.server, v>>) : Delete(r)
  BY DEF DeleteAtOnce
<1>2. /\ loop' = [loop EXCEPT !.todo = @ \ {v}] /\ loop.at = "delete" /\ loop.current = None
      /\ v \in loop.todo /\ UNCHANGED <<state, polls, spawned, deleting>>
  BY DEF DeleteAtOnce, Next1, tasks
<1>3. /\ r \in hosted /\ r \in Replicas /\ r[1] = loop.server /\ r[2] = v
  BY <1>1 DEF In, Slot, BooksInv, Types, TypeOK
<1>4. /\ loop'.at = "delete" /\ loop'.server = loop.server /\ loop'.fresh = loop.fresh
      /\ loop'.failed = loop.failed /\ loop'.current = None
  BY <1>2 DEF BooksInv, Types, LoopRecord
<1>5. v \notin loop.failed
  BY <1>2 DEF BooksInv, LoopOK
<1> QED  BY <1>1, <1>2, <1>3, <1>4, <1>5, RestDrainDelete

\* _delete_replica of the drain, after its wait.
LEMMA RestEndDelete ==
  ASSUME BooksInv, EndDelete
  PROVE  Rest'
<1> DEFINE r == loop.current
<1>1. /\ r \in Held /\ r \in Replicas /\ Delete(r) /\ loop.at = "delete"
      /\ UNCHANGED <<state, polls, spawned, deleting>>
  BY DEF EndDelete, Held, tasks, BooksInv, Types, LoopRecord
<1>2. r[1] = loop.server /\ r[2] \notin loop.failed
  BY DEF EndDelete, BooksInv, LoopOK
<1>3. r \in hosted \/ (\A q \in hosted : Slot(q) # Slot(r))
  BY <1>1 DEF BooksInv, HeldOK
<1>4. /\ loop'.at \in {"delete", "crashed"} /\ loop'.current = None
      /\ loop'.server = loop.server \/ loop'.at = "crashed"
      /\ loop'.failed = loop.failed \/ loop'.at = "crashed"
      /\ loop'.fresh \subseteq loop.fresh
  <2>1. CASE DeleteFails(r)
    BY <2>1 DEF EndDelete, Asleep
  <2>2. CASE ~DeleteFails(r)
    <3>1. loop' = [loop EXCEPT !.current = None]
      BY <2>2 DEF EndDelete
    <3> QED  BY <1>1, <3>1 DEF BooksInv, Types, LoopRecord
  <2> QED  BY <2>1, <2>2
<1> HIDE DEF r
<1> QED  BY <1>1, <1>2, <1>3, <1>4, RestDrainDelete

\* _delete_replica of the drain, up to its wait.
LEMMA RestBeginDelete ==
  ASSUME BooksInv, NEW v \in Services, BeginDelete(v)
  PROVE  Rest'
<1>1. PICK r \in In(<<loop.server, v>>) :
             /\ replica[r] # "STARTING" /\ replica' = Marked(r)
             /\ loop' = [loop EXCEPT !.todo = @ \ {v}, !.current = r]
  BY DEF BeginDelete
<1>2. /\ loop.at = "delete" /\ loop.current = None /\ v \in loop.todo
      /\ UNCHANGED <<state, hosted, listed, deployed, running, polls, spawned, deleting>>
  BY DEF BeginDelete, Next1, kubernetes, tasks
<1>3. /\ r \in hosted /\ r \in Replicas /\ r[1] = loop.server /\ r # None
  BY <1>1, NoneAssumption DEF In, Slot, BooksInv, Types, TypeOK
<1>4. /\ loop'.at = "delete" /\ loop'.server = loop.server /\ loop'.fresh = loop.fresh
      /\ loop'.failed = loop.failed /\ loop'.current = r
  BY <1>1, <1>2 DEF BooksInv, Types, LoopRecord
<1>5. /\ replica'[r] = "DRAINING" /\ \A q \in Replicas : q # r => replica'[q] = replica[q]
      /\ hosted \subseteq Replicas /\ listed \subseteq Replicas /\ loop.fresh \subseteq Replicas
  BY <1>1, <1>3 DEF Marked, BooksInv, Types, TypeOK
<1>6. r \notin loop.fresh /\ r \notin polls
  BY <1>1, <1>2, <1>3 DEF BooksInv, LoopOK, HeldOK
<1>7. Books'
  BY <1>2, <1>5 DEF BooksInv, Books, BooksAgree, ReadyIsRunning, Slot
<1>8. HeldOK'
  <2>1. Held' = Held \cup {r}
    BY <1>2, <1>3, <1>4 DEF Held
  <2> QED  BY <1>2, <1>3, <1>4, <1>5, <1>6, <2>1 DEF BooksInv, HeldOK, Slot
<1>9. SpawnedOK' /\ DrainOK'
  BY <1>2, <1>4, <1>5, <1>6 DEF BooksInv, SpawnedOK, DrainOK, Source, Slot
<1> QED  BY <1>7, <1>8, <1>9 DEF Rest

\* A drain ends.  Its server is ACTIVE again only after a timeout, and then no
\* deletion is held.
LEMMA RestEndTurnOff ==
  ASSUME BooksInv, NotBoth, EndTurnOff
  PROVE  Rest'
<1>1. /\ loop' = ScaleFrom(1) /\ loop.at = "delete"
      /\ state' = [state EXCEPT ![loop.server] = EndState]
      /\ UNCHANGED <<hosted, listed, replica, deployed, running, polls, spawned, deleting>>
  BY DEF EndTurnOff, Next1, replicas, kubernetes, tasks
<1>2. loop'.at = "scale" /\ loop'.current = None /\ loop'.fresh = {}
  BY <1>1 DEF ScaleFrom, Asleep
<1>3. Held' = deleting /\ deleting \subseteq Held
  BY <1>1, <1>2 DEF Held
<1>4. deleting = {} \/ (\A s \in Servers : state'[s] = "ACTIVE" => state[s] = "ACTIVE")
  <2>1. CASE loop.failed = {}
    BY <1>1, <2>1 DEF EndState, BooksInv, Types, TypeOK
  <2>2. CASE loop.failed # {}
    BY <1>1, <2>2 DEF NotBoth, BooksInv, LoopOK, HeldOK
  <2> QED  BY <2>1, <2>2
<1>5. Books'
  BY <1>1 DEF BooksInv, Books, BooksAgree, ReadyIsRunning, Slot
<1>6. HeldOK'
  <2>1. ASSUME NEW r \in deleting
        PROVE  r \in hosted \/ state'[r[1]] # "ACTIVE"
    <3>1. r[1] \in Servers
      BY SlotType DEF BooksInv, Types, TypeOK
    <3> QED  BY <1>4, <3>1 DEF BooksInv, HeldOK
  <2> QED  BY <1>1, <1>2, <1>3, <2>1 DEF BooksInv, HeldOK, Slot
<1>7. SpawnedOK' /\ DrainOK'
  BY <1>1, <1>2 DEF BooksInv, SpawnedOK, DrainOK
<1> QED  BY <1>5, <1>6, <1>7 DEF Rest

\* Where a scale decision leaves the loop.
LEMMA ScaleLoop ==
  ASSUME Types, LoopOK, NEW v \in Services, loop.at = "scale", EndScale(v)
  PROVE  /\ loop.current = None /\ loop.fresh = {}
         /\ loop'.at \in {"sleep", "scale"} /\ loop'.current = None /\ loop'.fresh = {}
<1>1. CASE loop' = Asleep
  BY <1>1 DEF Asleep, LoopOK
<1>2. CASE loop' = ScaleFrom(v + 1)
  BY <1>2 DEF ScaleFrom, Asleep, LoopOK
<1> QED  BY <1>1, <1>2 DEF EndScale

\* A scale decision that does nothing, or spawns the deletion of a READY replica.
LEMMA RestScaleDown ==
  ASSUME BooksInv, NEW v \in Services, NoScale(v) \/ \E r \in Replicas : ScaleDown(v, r)
  PROVE  Rest'
<1>1. /\ loop.at = "scale" /\ EndScale(v)
      /\ UNCHANGED <<state, hosted, listed, replica, deployed, running, polls, deleting>>
  BY DEF NoScale, ScaleDown, replicas, kubernetes, tasks
<1>2. /\ loop.current = None /\ loop.fresh = {}
      /\ loop'.at \in {"sleep", "scale"} /\ loop'.current = None /\ loop'.fresh = {}
  BY <1>1, ScaleLoop DEF BooksInv
<1>3. Books'
  BY <1>1 DEF BooksInv, Books, BooksAgree, ReadyIsRunning, Slot
<1>4. HeldOK'
  BY <1>1, <1>2 DEF BooksInv, HeldOK, Held, Slot
<1>5. SpawnedOK'
  <2>1. \A slot \in spawned' : \E r \in hosted : Slot(r) = slot /\ replica[r] = "READY"
    <3>1. CASE NoScale(v)
      BY <3>1 DEF NoScale, tasks, BooksInv, SpawnedOK
    <3>2. ASSUME NEW r \in Replicas, ScaleDown(v, r)
          PROVE  \A slot \in spawned' : \E q \in hosted : Slot(q) = slot /\ replica[q] = "READY"
      <4>1. spawned' = spawned \cup {Slot(r)} /\ r \in hosted /\ replica[r] = "READY"
        BY <3>2 DEF ScaleDown, ReadyOf, BooksInv, Books, BooksAgree
      <4> QED  BY <4>1 DEF BooksInv, SpawnedOK
    <3> QED  BY <3>1, <3>2
  <2> QED  BY <1>1, <1>2, <2>1 DEF SpawnedOK, Slot
<1>6. DrainOK'
  BY <1>2 DEF DrainOK
<1> QED  BY <1>3, <1>4, <1>5, <1>6 DEF Rest

\* A scale-up fills an empty slot of an ACTIVE server, where no deletion holds
\* a replica that is gone.
LEMMA RestScaleUp ==
  ASSUME BooksInv, NEW v \in Services, NEW s \in Servers, ScaleUp(v, s)
  PROVE  Rest'
<1> DEFINE slots == {<<s, v>>}
<1>1. /\ loop.at = "scale" /\ EndScale(v) /\ Create(slots) /\ state[s] = "ACTIVE"
      /\ v \notin HostedOn(s) /\ UNCHANGED <<state, running, spawned, deleting>>
  BY DEF ScaleUp, CanHost
<1>2. slots \in SUBSET Slots /\ \A slot \in slots : \A q \in hosted : Slot(q) # slot
  BY <1>1 DEF Slots, HostedOn, In
<1>3. \A slot \in slots : slot[1] = s
  OBVIOUS
<1> HIDE DEF slots
<1>4. /\ hosted' = hosted \cup New(slots) /\ polls' = polls \cup New(slots)
      /\ New(slots) \subseteq Replicas \ (hosted \cup polls \cup deleting)
      /\ \A r \in New(slots) : Slot(r) \in slots
      /\ \A r \in Replicas : replica'[r] = IF r \in New(slots) THEN "STARTING" ELSE replica[r]
  BY <1>1, <1>2, CreateEffect DEF BooksInv
<1>5. /\ loop.current = None /\ loop.fresh = {}
      /\ loop'.at \in {"sleep", "scale"} /\ loop'.current = None /\ loop'.fresh = {}
  BY <1>1, ScaleLoop DEF BooksInv
<1>6. Books'
  BY <1>1, <1>2, CreateBooks DEF BooksInv
<1>7. \A r \in hosted \cup polls : r \in Replicas /\ r \notin New(slots)
  BY <1>4 DEF BooksInv, Types, TypeOK
<1>8. HeldOK'
  <2>1. Held' = deleting /\ Held = deleting
    BY <1>1, <1>5 DEF Held
  <2>2. ASSUME NEW r \in deleting
        PROVE  r \in hosted' \/ (\A q \in hosted' : Slot(q) # Slot(r))
    <3>1. CASE r \in hosted
      BY <1>4, <3>1
    <3>2. CASE r \notin hosted
      <4>1. (\A q \in hosted : Slot(q) # Slot(r)) /\ state[r[1]] # "ACTIVE"
        BY <2>1, <3>2 DEF BooksInv, HeldOK
      <4>2. Slot(r)[1] # s
        BY <1>1, <4>1 DEF Slot
      <4>3. \A q \in New(slots) : Slot(q) # Slot(r)
        BY <1>3, <1>4, <4>2
      <4> QED  BY <1>4, <4>1, <4>3
    <3> QED  BY <3>1, <3>2
  <2>3. /\ \A r \in deleting : r \in hosted' \/ state'[r[1]] # "ACTIVE"
        /\ \A r \in deleting \cap hosted' : replica'[r] = "DRAINING"
        /\ \A r \in polls' \cap hosted' : replica'[r] = "STARTING"
    BY <1>1, <1>4, <1>7, <2>1 DEF BooksInv, HeldOK
  <2> QED  BY <1>1, <1>5, <2>1, <2>2, <2>3 DEF BooksInv, HeldOK, Slot
<1>9. SpawnedOK'
  <2>1. ASSUME NEW slot \in spawned
        PROVE  \E r \in hosted' : Slot(r) = slot /\ replica'[r] = "READY"
    <3>1. PICK r \in hosted : Slot(r) = slot /\ replica[r] = "READY"
      BY <2>1 DEF BooksInv, SpawnedOK
    <3> QED  BY <1>4, <1>7, <3>1
  <2> QED  BY <1>1, <1>5, <2>1 DEF SpawnedOK, Slot
<1>10. DrainOK'
  BY <1>5 DEF DrainOK
<1> QED  BY <1>6, <1>8, <1>9, <1>10 DEF Rest

\* The initial placement agrees in the three books.
LEMMA InitRest == Init => Rest
<1> SUFFICES ASSUME NEW selected \in (SUBSET Servers) \ {{}},
                    NEW m \in InitialPlacements(selected), InitFrom(selected, m)
             PROVE  Rest
  BY DEF Init, InitFrom
<1>1. /\ listed = hosted /\ deployed = {Slot(r) : r \in hosted}
      /\ replica = [r \in Replicas |-> IF r \in hosted THEN "STARTING" ELSE "TERMINATED"]
      /\ spawned = {} /\ deleting = {} /\ loop = Asleep
  BY DEF InitFrom
<1>2. hosted \subseteq Replicas
  BY TypesInit DEF Init, InitFrom, Types, TypeOK
<1>3. \A r \in hosted : replica[r] = "STARTING"
  BY <1>1, <1>2
<1>4. Books
  BY <1>1, <1>3 DEF Books, BooksAgree, ReadyIsRunning
<1>5. loop.at = "sleep" /\ loop.current = None /\ loop.fresh = {}
  BY <1>1 DEF Asleep
<1>6. HeldOK /\ SpawnedOK /\ DrainOK
  BY <1>1, <1>3, <1>5 DEF HeldOK, SpawnedOK, DrainOK, Held
<1> QED  BY <1>4, <1>6 DEF Rest

\* Every step keeps the books in order.
LEMMA BooksStep ==
  ASSUME NotBoth, BooksInv, [Next]_vars
  PROVE  BooksInv'
<1>1. CASE UNCHANGED vars
  BY <1>1, TypesStep, LoopStep
     DEF vars, BooksInv, Books, BooksAgree, ReadyIsRunning, HeldOK, Held, SpawnedOK, DrainOK,
         Source, Slot
<1>2. CASE Next
  <2>1. ASSUME Tasks
        PROVE  Rest'
    BY <2>1, RestPod, RestPoll, RestQuiet, RestBeginDeletion, RestEndDeletion DEF Tasks
  <2>2. ASSUME Provision
        PROVE  Rest'
    BY <2>2, RestTick, RestStart DEF Provision
  <2>3. ASSUME Drain
        PROVE  Rest'
    BY <2>3, RestEndWait, RestSkip, RestDeleteAtOnce, RestBeginDelete, RestEndDelete,
       RestEndTurnOff DEF Drain
  <2>4. ASSUME Scale
        PROVE  Rest'
    BY <2>4, RestScaleDown, RestScaleUp DEF Scale
  <2>5. Rest'
    BY <1>2, <2>1, <2>2, <2>3, <2>4 DEF Next
  <2> QED  BY <1>2, <2>5, TypesStep, LoopStep DEF BooksInv, Rest
<1> QED  BY <1>1, <1>2

\* The invariant, and what it says of the properties that the runs check.
LEMMA BooksInvHolds ==
  ASSUME NotBoth
  PROVE  Spec => []BooksInv
<1>1. Init => BooksInv
  BY TypesInit, InitOff, InitRest DEF BooksInv, Rest
<1>2. BooksInv /\ [Next]_vars => BooksInv'
  BY BooksStep
<1> QED  BY <1>1, <1>2, PTL DEF Spec

\* Server.hosted_replicas, replicas_by_service and the deployments agree, unless
\* deletions outlast the decision interval and pods are slow as well.
THEOREM RealtimeBooksAgree ==
  ASSUME NotBoth
  PROVE  Spec => []BooksAgree
<1>1. BooksInv => BooksAgree
  BY DEF BooksInv, Books
<1> QED  BY <1>1, BooksInvHolds, PTL

\* A replica that requests may be sent to has a running pod (same hypothesis).
THEOREM RealtimeReadyIsRunning ==
  ASSUME NotBoth
  PROVE  Spec => []ReadyIsRunning
<1>1. BooksInv => ReadyIsRunning
  BY DEF BooksInv, Books
<1> QED  BY <1>1, BooksInvHolds, PTL

\* A spawned scale-down finds a replica that no other deletion holds (same
\* hypothesis).
THEOREM RealtimeScaledDownOnce ==
  ASSUME NotBoth
  PROVE  Spec => []ScaledDownOnce
<1>1. BooksInv => ScaledDownOnce
  <2> SUFFICES ASSUME BooksInv, NEW slot \in spawned
               PROVE  In(slot) \ deleting # {}
    BY DEF ScaledDownOnce
  <2>1. PICK r \in hosted : Slot(r) = slot /\ replica[r] = "READY"
    BY DEF BooksInv, SpawnedOK
  <2>2. r \notin deleting
    BY <2>1 DEF BooksInv, HeldOK, Held
  <2> QED  BY <2>1, <2>2 DEF In
<1> QED  BY <1>1, BooksInvHolds, PTL

\* A drain deletes the old replica of a service only after the new one is READY,
\* also when a pod never starts (same hypothesis).
THEOREM RealtimeMigrationKeepsSource ==
  ASSUME NotBoth
  PROVE  Spec => []MigrationKeepsSource
<1>1. BooksInv => MigrationKeepsSource
  BY DEF BooksInv, DrainOK, Source, MigrationKeepsSource, In
<1> QED  BY <1>1, BooksInvHolds, PTL

----------------------------------------------------------------------------
(* Serving goes on: scale-downs never end a service, and drains do not when *)
(* queues empty within the decision interval.  With longer ones a drain      *)
(* counts a replica that a deletion is about to end as another host.         *)

\* Another READY replica stays when a spawned deletion begins.
ScalesOK ==
  /\ \A slot \in spawned :
       \E r \in hosted : r[2] = slot[2] /\ Slot(r) # slot /\ replica[r] = "READY"
  /\ \A p, q \in spawned : p[2] = q[2] => p = q
  /\ loop.at = "scale" => \A slot \in spawned : slot[2] < loop.turn

\* Another server hosts what a drain has yet to delete.
ElsewhereOK ==
  /\ loop.at = "wait" =>
       \A v \in HostedOn(loop.server) : \E r \in hosted : r[2] = v /\ r[1] # loop.server
  /\ loop.at = "delete" =>
       \A v \in loop.todo : \E r \in hosted : r[2] = v /\ r[1] # loop.server

ScalesInv == BooksInv /\ ScalesOK
ServeInv == ScalesInv /\ ElsewhereOK

\* A set with more than one element has another one.
LEMMA Another ==
  ASSUME NEW S, NEW x \in S, Cardinality(S) > 1
  PROVE  \E y \in S : y # x
<1> SUFFICES ASSUME \A y \in S : y = x
             PROVE  FALSE
  OBVIOUS
<1>1. S = {x}
  OBVIOUS
<1>2. Cardinality(S) = 1
  BY <1>1, FS_Singleton
<1> QED  BY <1>2

\* The tasks beside the loop keep it: what ends is DRAINING, and a deletion that
\* begins is the only one of its service.
LEMMA ScalesTasks ==
  ASSUME ScalesInv, Tasks
  PROVE  ScalesOK'
<1> USE DEF ScalesInv
<1>1. UNCHANGED loop
  BY DEF Tasks, PodStarts, BeginDeletion, PollSucceeds, PollTimesOut, EndDeletion, Reject
<1>2. ASSUME spawned' = spawned,
             \A q \in hosted : replica[q] = "READY" => q \in hosted' /\ replica'[q] = "READY"
      PROVE  ScalesOK'
  BY <1>1, <1>2 DEF ScalesOK, Slot
<1>3. CASE (\E slot \in Slots : PodStarts(slot)) \/ (\E r \in Replicas : PollTimesOut(r)) \/ Reject
  <2>1. UNCHANGED <<hosted, replica, spawned>>
    BY <1>3 DEF PodStarts, PollTimesOut, Reject, replicas, tasks
  <2> QED  BY <1>2, <2>1
<1>4. ASSUME NEW r \in Replicas, PollSucceeds(r)
      PROVE  ScalesOK'
  <2>1. UNCHANGED <<hosted, spawned>> /\ replica' = [replica EXCEPT ![r] = "READY"]
    BY <1>4 DEF PollSucceeds
  <2>2. \A q \in hosted : replica[q] = "READY" => replica'[q] = "READY"
    BY <2>1 DEF BooksInv, Types, TypeOK
  <2> QED  BY <1>2, <2>1, <2>2
<1>5. ASSUME NEW slot \in Slots, BeginDeletion(slot)
      PROVE  ScalesOK'
  <2>1. PICK r \in In(slot) : replica' = Marked(r)
    BY <1>5 DEF BeginDeletion
  <2>2. /\ r \in hosted /\ Slot(r) = slot /\ slot \in spawned
        /\ spawned' = spawned \ {slot} /\ hosted' = hosted
    BY <1>5, <2>1 DEF BeginDeletion, In
  <2>3. \A q \in hosted : q # r => replica'[q] = replica[q]
    BY <2>1, <2>2 DEF Marked, BooksInv, Types, TypeOK
  <2>4. ASSUME NEW other \in spawned'
        PROVE  \E q \in hosted : q[2] = other[2] /\ Slot(q) # other /\ replica'[q] = "READY"
    <3>1. other \in spawned /\ other[2] # slot[2]
      BY <2>2, <2>4 DEF ScalesOK
    <3>2. PICK q \in hosted : q[2] = other[2] /\ Slot(q) # other /\ replica[q] = "READY"
      BY <3>1 DEF ScalesOK
    <3>3. q # r
      BY <2>2, <3>1, <3>2 DEF Slot
    <3> QED  BY <2>3, <3>2, <3>3
  <2>5. \A p, q \in spawned' : p[2] = q[2] => p = q
    BY <2>2 DEF ScalesOK
  <2>6. loop'.at = "scale" => \A other \in spawned' : other[2] < loop'.turn
    BY <1>1, <2>2 DEF ScalesOK
  <2> QED  BY <2>2, <2>4, <2>5, <2>6 DEF ScalesOK, Slot
<1>6. ASSUME NEW r \in Replicas, EndDeletion(r)
      PROVE  ScalesOK'
  <2>1. r \in deleting /\ Delete(r) /\ spawned' = spawned
    BY <1>6 DEF EndDeletion
  <2>2. r \in Held /\ (r \in hosted \/ (\A q \in hosted : Slot(q) # Slot(r)))
    BY <2>1 DEF BooksInv, HeldOK, Held
  <2>3. hosted' = hosted \ {r} /\ replica' = [replica EXCEPT ![r] = "TERMINATED"]
    BY <2>1, <2>2, DeleteEffect DEF BooksInv
  <2>4. \A q \in hosted : replica[q] = "READY" => q \in hosted' /\ replica'[q] = "READY"
    BY <2>2, <2>3 DEF BooksInv, HeldOK, Types, TypeOK
  <2> QED  BY <1>2, <2>1, <2>4
<1> QED
  BY <1>3, <1>4, <1>5, <1>6 DEF Tasks

\* Without long deletions none ends while a drain goes on.
LEMMA ElsewhereTasks ==
  ASSUME ServeInv, ~LongDrains, Tasks
  PROVE  ElsewhereOK'
<1> USE DEF ServeInv, ScalesInv
<1>1. UNCHANGED loop
  BY DEF Tasks, PodStarts, BeginDeletion, PollSucceeds, PollTimesOut, EndDeletion, Reject
<1>2. CASE loop.at = "sleep"
  BY <1>1, <1>2 DEF ElsewhereOK
<1>3. CASE loop.at # "sleep"
  <2>1. deleting = {}
    BY <1>3 DEF BooksInv, HeldOK
  <2>2. hosted' = hosted
    BY <2>1 DEF Tasks, PodStarts, BeginDeletion, PollSucceeds, PollTimesOut, EndDeletion, Reject,
                replicas
  <2> QED  BY <1>1, <2>2 DEF ElsewhereOK, HostedOn, In, Slot
<1> QED
  BY <1>2, <1>3

\* A tick finds no deletion that has not begun.
LEMMA ScalesProvision ==
  ASSUME Provision
  PROVE  ScalesOK'
<1>1. CASE NoProvisioning \/ \E s \in Servers : TurnOn(s) \/ AbortTurnOff(s)
  <2>1. TickIsDue /\ spawned' = spawned
    BY <1>1, NoDrainStarts
  <2> QED  BY <2>1 DEF TickIsDue, ScalesOK
<1>2. ASSUME NEW s \in Servers, StartTurnOff(s)
      PROVE  ScalesOK'
  <2>1. TickIsDue /\ spawned' = spawned
    BY <1>2 DEF StartTurnOff
  <2> QED  BY <2>1 DEF TickIsDue, ScalesOK
<1> QED
  BY <1>1, <1>2 DEF Provision

\* A drain starts: each service of its server has a place elsewhere.
LEMMA ElsewhereProvision ==
  ASSUME BooksInv, Provision
  PROVE  ElsewhereOK'
<1>1. CASE NoProvisioning \/ \E s \in Servers : TurnOn(s) \/ AbortTurnOff(s)
  <2>1. loop'.at = "scale"
    BY <1>1, NoDrainStarts
  <2> QED  BY <2>1 DEF ElsewhereOK
<1>2. ASSUME NEW s \in Servers, StartTurnOff(s)
      PROVE  ElsewhereOK'
  <2>1. PICK m \in MigrationPlans(s) : \E placed \in Packings(EffMips, m, Free) :
               StartFrom(s, m, placed)
    BY <1>2, StartTurnOffCases
  <2>2. PICK placed \in Packings(EffMips, m, Free) : StartFrom(s, m, placed)
    BY <2>1
  <2> DEFINE slots == {<<m[v], v>> : v \in placed}
  <2>3. /\ slots \in SUBSET Slots /\ SoleHosted(s) \in SUBSET Services
        /\ m \in [SoleHosted(s) -> Servers \cup {None}]
        /\ \A v \in placed : m[v] \in Active \ {s} /\ CanHost(m[v], v)
    BY DrainSlots
  <2>4. placed = SoleHosted(s)
    BY <2>2, <2>3, UsedType, NothingLeftOut DEF StartFrom, BooksInv
  <2>5. \A v \in SoleHosted(s) : <<m[v], v>> \in slots /\ m[v] # s
    BY <2>3, <2>4
  <2>6. \A slot \in slots : \A q \in hosted : Slot(q) # slot
    <3>1. ASSUME NEW v \in placed
          PROVE  \A q \in hosted : Slot(q) # <<m[v], v>>
      BY <2>3, <2>4 DEF CanHost, HostedOn, In
    <3> QED  BY <3>1
  <2>7. \A slot \in slots : slot[1] # s
    BY <2>3
  <2> HIDE DEF slots
  <2>8. /\ Create(slots) /\ loop'.at = "wait" /\ loop'.server = s
    BY <2>2 DEF StartFrom, slots, Asleep
  <2>9. /\ hosted' = hosted \cup New(slots)
        /\ \A slot \in slots : \E r \in New(slots) : Slot(r) = slot
        /\ \A r \in New(slots) : Slot(r) \in slots
    BY <2>3, <2>6, <2>8, CreateEffect DEF BooksInv
  <2>10. ASSUME NEW v \in Services, \E q \in hosted' : Slot(q) = <<s, v>>
         PROVE  \E r \in hosted' : r[2] = v /\ r[1] # s
    <3>1. PICK q \in hosted' : Slot(q) = <<s, v>>
      BY <2>10
    <3>2. q \in hosted
      BY <2>7, <2>9, <3>1
    <3>3. v \in HostedOn(s)
      BY <3>1, <3>2 DEF HostedOn, In
    <3>4. CASE v \in SoleHosted(s)
      <4>1. PICK r \in New(slots) : Slot(r) = <<m[v], v>>
        BY <2>5, <2>9, <3>4
      <4> QED  BY <2>5, <2>9, <3>4, <4>1 DEF Slot
    <3>5. CASE v \notin SoleHosted(s)
      <4>1. PICK other \in Servers \ {s} : v \in HostedOn(other)
        BY <3>3, <3>5 DEF SoleHosted
      <4>2. PICK r \in hosted : Slot(r) = <<other, v>>
        BY <4>1 DEF HostedOn, In
      <4> QED  BY <2>9, <4>1, <4>2 DEF Slot
    <3> QED  BY <3>4, <3>5
  <2>11. \A v \in HostedOn(s)' : v \in Services /\ \E q \in hosted' : Slot(q) = <<s, v>>
    BY DEF HostedOn, In, Slot
  <2>12. HostedOn(loop.server)' \subseteq HostedOn(s)'
    BY <2>8 DEF HostedOn, In, Slot
  <2> QED  BY <2>8, <2>10, <2>11, <2>12 DEF ElsewhereOK
<1> QED
  BY <1>1, <1>2 DEF Provision

\* A drain begins after the deletions that were spawned.
LEMMA ScalesDrain ==
  ASSUME BooksInv, Drain
  PROVE  ScalesOK'
<1>1. loop.at \in {"wait", "delete"} /\ spawned' = spawned
  BY DEF Drain, EndWait, EndDelete, EndTurnOff, SkipDelete, DeleteAtOnce, BeginDelete, Next1, tasks
<1>2. spawned' = {}
  BY <1>1 DEF BooksInv, SpawnedOK
<1> QED  BY <1>2 DEF ScalesOK

\* What the drain deletes is on its own server, and the other place stays.
LEMMA ElsewhereDrain ==
  ASSUME ServeInv, Drain
  PROVE  ElsewhereOK'
<1> USE DEF ServeInv, ScalesInv
<1>0. loop \in LoopRecord
  BY DEF BooksInv, Types
<1>1. CASE EndWait
  <2>1. /\ loop' = [loop EXCEPT !.at = "delete", !.failed = NowFailed,
                                !.todo = HostedOn(loop.server) \ NowFailed]
        /\ hosted' = hosted /\ loop.at = "wait"
    BY <1>1 DEF EndWait, replicas
  <2>2. /\ loop'.at = "delete" /\ loop'.server = loop.server
        /\ loop'.todo \subseteq HostedOn(loop.server)
    BY <1>0, <2>1 DEF LoopRecord
  <2> QED  BY <1>0, <2>1, <2>2 DEF ElsewhereOK
<1>2. CASE EndTurnOff
  <2>1. loop'.at = "scale"
    BY <1>2 DEF EndTurnOff, ScaleFrom, Asleep
  <2> QED  BY <1>0, <2>1 DEF ElsewhereOK
<1>3. ASSUME loop.at = "delete", loop'.at = "delete", loop'.server = loop.server,
             loop'.todo \subseteq loop.todo,
             \A q \in hosted : q[1] # loop.server => q \in hosted'
      PROVE  ElsewhereOK'
  <2>1. ASSUME NEW v \in loop'.todo
        PROVE  \E q \in hosted' : q[2] = v /\ q[1] # loop.server
    BY <1>3, <2>1 DEF ElsewhereOK
  <2> QED  BY <1>0, <1>3, <2>1 DEF ElsewhereOK
<1>4. ASSUME NEW v \in Services, SkipDelete(v) \/ BeginDelete(v)
      PROVE  ElsewhereOK'
  <2>1. hosted' = hosted /\ loop.at = "delete"
    BY <1>4 DEF SkipDelete, BeginDelete, Next1, replicas
  <2>2. /\ loop'.at = "delete" /\ loop'.server = loop.server
        /\ loop'.todo \subseteq loop.todo
    <3>1. CASE SkipDelete(v)
      BY <1>0, <2>1, <3>1 DEF SkipDelete, LoopRecord
    <3>2. CASE BeginDelete(v)
      <4>1. PICK r : loop' = [loop EXCEPT !.todo = @ \ {v}, !.current = r]
        BY <3>2 DEF BeginDelete
      <4> QED  BY <1>0, <2>1, <4>1 DEF LoopRecord
    <3> QED  BY <1>4, <3>1, <3>2
  <2> QED  BY <1>3, <2>1, <2>2
<1>5. ASSUME NEW r \in Replicas, Delete(r), r[1] = loop.server
      PROVE  \A q \in hosted : q[1] # loop.server => q \in hosted'
  BY <1>5 DEF Delete, In, Slot
<1>6. ASSUME NEW v \in Services, DeleteAtOnce(v)
      PROVE  ElsewhereOK'
  <2>1. PICK r \in In(<<loop.server, v>>) : Delete(r)
    BY <1>6 DEF DeleteAtOnce
  <2>2. r \in Replicas /\ r[1] = loop.server
    BY <2>1 DEF In, Slot, BooksInv, Types, TypeOK
  <2>3. loop.at = "delete" /\ loop' = [loop EXCEPT !.todo = @ \ {v}]
    BY <1>6 DEF DeleteAtOnce, Next1
  <2>4. /\ loop'.at = "delete" /\ loop'.server = loop.server
        /\ loop'.todo \subseteq loop.todo
    BY <1>0, <2>3 DEF LoopRecord
  <2> QED  BY <1>3, <1>5, <2>1, <2>2, <2>3, <2>4
<1>7. CASE EndDelete
  <2>1. /\ loop.current \in Replicas /\ Delete(loop.current) /\ loop.at = "delete"
        /\ loop.current[1] = loop.server
    BY <1>0, <1>7 DEF EndDelete, LoopRecord, BooksInv, LoopOK
  <2>2. CASE DeleteFails(loop.current)
    <3>1. loop'.at = "crashed"
      BY <1>7, <2>2 DEF EndDelete, Asleep
    <3> QED  BY <1>0, <3>1 DEF ElsewhereOK
  <2>3. CASE ~DeleteFails(loop.current)
    <3>1. loop' = [loop EXCEPT !.current = None]
      BY <1>7, <2>3 DEF EndDelete
    <3>2. /\ loop'.at = "delete" /\ loop'.server = loop.server
          /\ loop'.todo \subseteq loop.todo
      BY <1>0, <2>1, <3>1 DEF LoopRecord
    <3> QED  BY <1>3, <1>5, <2>1, <3>2
  <2> QED  BY <2>2, <2>3
<1> QED
  BY <1>1, <1>2, <1>4, <1>6, <1>7 DEF Drain

\* A scale-down is spawned for one replica of several READY ones, and each
\* service has its turn once in a tick.
LEMMA ScalesScale ==
  ASSUME ScalesInv, Scale
  PROVE  ScalesOK'
<1> USE DEF ScalesInv
<1>1. PICK v \in Services :
           /\ loop.at = "scale" /\ loop.turn = v /\ EndScale(v)
           /\ \/ NoScale(v)
              \/ \E s \in Servers : ScaleUp(v, s)
              \/ \E r \in Replicas : ScaleDown(v, r)
  BY DEF Scale, NoScale, ScaleUp, ScaleDown
<1>2. v \in Int
  BY DEF Services
<1>3. loop'.at \in {"sleep", "scale"} /\ (loop'.at = "scale" => loop'.turn = v + 1)
  <2>1. CASE loop' = Asleep
    BY <2>1 DEF Asleep
  <2>2. CASE loop' = ScaleFrom(v + 1)
    BY <2>2 DEF ScaleFrom, Asleep
  <2> QED  BY <1>1, <2>1, <2>2 DEF EndScale
<1>4. \A slot \in spawned : slot[2] < v /\ slot[2] \in Int
  <2>1. spawned \subseteq Slots
    BY DEF BooksInv, Types, TypeOK
  <2> QED  BY <1>1, <2>1 DEF ScalesOK, Slots, Services
<1>5. \A q \in hosted : replica[q] = "READY" => q \in hosted' /\ replica'[q] = "READY"
  <2>1. CASE NoScale(v) \/ \E r \in Replicas : ScaleDown(v, r)
    BY <2>1 DEF NoScale, ScaleDown, replicas
  <2>2. ASSUME NEW s \in Servers, ScaleUp(v, s)
        PROVE  \A q \in hosted : q \in hosted' /\ replica'[q] = replica[q]
    <3> DEFINE slots == {<<s, v>>}
    <3>1. /\ slots \in SUBSET Slots /\ Create(slots)
          /\ \A slot \in slots : \A q \in hosted : Slot(q) # slot
      BY <2>2 DEF ScaleUp, CanHost, Slots, HostedOn, In
    <3> HIDE DEF slots
    <3>2. /\ hosted' = hosted \cup New(slots)
          /\ New(slots) \subseteq Replicas \ (hosted \cup polls \cup deleting)
          /\ \A r \in Replicas : replica'[r] = IF r \in New(slots) THEN "STARTING" ELSE replica[r]
      BY <3>1, CreateEffect DEF BooksInv
    <3> QED  BY <3>2 DEF BooksInv, Types, TypeOK
  <2> QED  BY <1>1, <2>1, <2>2
<1>6. CASE NoScale(v) \/ \E s \in Servers : ScaleUp(v, s)
  <2>1. spawned' = spawned
    BY <1>6 DEF NoScale, ScaleUp, tasks
  <2> QED  BY <1>2, <1>3, <1>4, <1>5, <2>1 DEF ScalesOK, Slot
<1>7. ASSUME NEW r \in Replicas, ScaleDown(v, r)
      PROVE  ScalesOK'
  <2>1. /\ spawned' = spawned \cup {Slot(r)} /\ r \in ReadyOf(v)
        /\ Cardinality(ReadyOf(v)) > 1
    BY <1>7 DEF ScaleDown, OthersReady
  <2>2. PICK q \in ReadyOf(v) : q # r
    BY <2>1, Another
  <2>3. /\ r \in hosted /\ r[2] = v /\ q \in hosted /\ q[2] = v /\ replica[q] = "READY"
        /\ Slot(q) # Slot(r) /\ Slot(r)[2] = v
    BY <2>1, <2>2 DEF ReadyOf, BooksInv, Books, BooksAgree, Types, TypeOK, Slot
  <2>4. \A slot \in spawned' :
          \E p \in hosted' : p[2] = slot[2] /\ Slot(p) # slot /\ replica'[p] = "READY"
    BY <1>5, <2>1, <2>3 DEF ScalesOK
  <2>5. \A slot \in spawned' : slot[2] < v + 1
    BY <1>2, <1>4, <2>1, <2>3
  <2>6. \A slot, other \in spawned' : slot[2] = other[2] => slot = other
    BY <1>2, <1>4, <2>1, <2>3 DEF ScalesOK
  <2> QED  BY <1>3, <2>4, <2>5, <2>6 DEF ScalesOK, Slot
<1> QED
  BY <1>1, <1>6, <1>7

\* No drain goes on after a scale decision.
LEMMA ElsewhereScale ==
  ASSUME Scale
  PROVE  ElsewhereOK'
<1>1. PICK v \in Services : EndScale(v)
  BY DEF Scale, NoScale, ScaleUp, ScaleDown
<1>2. loop'.at \in {"sleep", "scale"}
  BY <1>1 DEF EndScale, ScaleFrom, Asleep
<1> QED  BY <1>2 DEF ElsewhereOK

\* Every step keeps the first part, whatever the hypotheses on time.
LEMMA ScalesStep ==
  ASSUME NotBoth, ScalesInv, [Next]_vars
  PROVE  ScalesInv'
<1>1. BooksInv'
  BY BooksStep DEF ScalesInv
<1>2. CASE UNCHANGED vars
  BY <1>1, <1>2 DEF ScalesInv, ScalesOK, vars, Slot
<1>3. CASE Next
  BY <1>1, <1>3, ScalesTasks, ScalesProvision, ScalesDrain, ScalesScale DEF Next, ScalesInv
<1> QED  BY <1>2, <1>3

LEMMA InitScales == Init => ScalesInv
<1>1. Init => BooksInv
  BY TypesInit, InitOff, InitRest DEF BooksInv, Rest
<1>2. Init => ScalesOK
  BY DEF Init, ScalesOK
<1> QED  BY <1>1, <1>2 DEF ScalesInv

\* One READY replica q of v that the step leaves alone.
LEMMA OneReadyStays ==
  ASSUME NEW v \in Services, NEW q \in listed, q[2] = v, replica[q] = "READY",
         q \in listed', replica'[q] = "READY"
  PROVE  ReadyOf(v)' # {}
BY DEF ReadyOf

\* The drain under way turns to its replica of v, and no other replica changes.
DrainTakes(v) ==
  /\ loop.at = "delete" /\ loop.current = None /\ v \in loop.todo
  /\ \E r \in hosted :
       /\ Slot(r) = <<loop.server, v>>
       /\ \A p \in hosted : p # r => p \in listed' /\ replica'[p] = replica[p]

\* A step keeps a READY replica of a service, or it is a drain's deletion of one.
LEMMA ServiceStep ==
  ASSUME ScalesInv, Next, NEW v \in Services, ReadyOf(v) # {}
  PROVE  ReadyOf(v)' # {} \/ DrainTakes(v)
<1> USE DEF ScalesInv
<1>1. PICK q \in listed : q[2] = v /\ replica[q] = "READY"
  BY DEF ReadyOf
<1>2. listed = hosted /\ listed \subseteq Replicas
  BY DEF BooksInv, Books, BooksAgree, Types, TypeOK
<1>3. ASSUME NEW r \in Held, r \in Replicas, Delete(r)
      PROVE  ReadyOf(v)' # {}
  <2>1. r \in hosted \/ (\A p \in hosted : Slot(p) # Slot(r))
    BY <1>3 DEF BooksInv, HeldOK
  <2>2. /\ hosted' = hosted \ {r} /\ listed' = hosted'
        /\ replica' = [replica EXCEPT ![r] = "TERMINATED"]
    BY <1>3, <2>1, DeleteEffect DEF BooksInv
  <2>3. q # r
    BY <1>1, <1>2, <1>3 DEF BooksInv, HeldOK
  <2>4. q \in listed' /\ replica'[q] = "READY"
    BY <1>1, <1>2, <2>2, <2>3 DEF BooksInv, Types, TypeOK
  <2> QED  BY <1>1, <2>4, OneReadyStays
<1>4. ASSUME q \in listed', replica'[q] = "READY"
      PROVE  ReadyOf(v)' # {}
  BY <1>1, <1>4, OneReadyStays
<1>5. CASE Tasks
  <2>1. CASE (\E slot \in Slots : PodStarts(slot)) \/ (\E r \in Replicas : PollTimesOut(r)) \/ Reject
    <3>1. UNCHANGED <<listed, replica>>
      BY <2>1 DEF PodStarts, PollTimesOut, Reject, replicas
    <3> QED  BY <1>1, <1>4, <3>1
  <2>2. ASSUME NEW r \in Replicas, PollSucceeds(r)
        PROVE  ReadyOf(v)' # {}
    <3>1. listed' = listed /\ replica' = [replica EXCEPT ![r] = "READY"]
      BY <2>2 DEF PollSucceeds
    <3>2. \A p \in listed : replica[p] = "READY" => replica'[p] = "READY"
      BY <1>2, <3>1 DEF BooksInv, Types, TypeOK
    <3> QED  BY <1>1, <1>4, <3>1, <3>2
  <2>3. ASSUME NEW slot \in Slots, BeginDeletion(slot)
        PROVE  ReadyOf(v)' # {}
    <3>1. PICK r \in In(slot) : replica' = Marked(r)
      BY <2>3 DEF BeginDeletion
    <3>2. /\ r \in hosted /\ Slot(r) = slot /\ slot \in spawned /\ listed' = listed
      BY <2>3, <3>1 DEF BeginDeletion, In
    <3>3. \A p \in listed : p # r => replica'[p] = replica[p]
      BY <1>2, <3>1 DEF Marked, BooksInv, Types, TypeOK
    <3>4. CASE r[2] = v
      <4>1. PICK p \in hosted : p[2] = slot[2] /\ Slot(p) # slot /\ replica[p] = "READY"
        BY <3>2 DEF ScalesOK
      <4>2. p # r /\ p[2] = v /\ p \in listed
        BY <1>2, <3>2, <3>4, <4>1 DEF Slot
      <4> QED  BY <3>2, <3>3, <4>1, <4>2, OneReadyStays
    <3>5. CASE r[2] # v
      BY <1>1, <3>2, <3>3, <3>5, OneReadyStays
    <3> QED  BY <3>4, <3>5
  <2>4. ASSUME NEW r \in Replicas, EndDeletion(r)
        PROVE  ReadyOf(v)' # {}
    BY <1>3, <2>4 DEF EndDeletion, Held
  <2> QED  BY <1>5, <2>1, <2>2, <2>3, <2>4 DEF Tasks
<1>6. ASSUME NEW slots \in SUBSET Slots, Create(slots),
             \A slot \in slots : \A p \in hosted : Slot(p) # slot
      PROVE  ReadyOf(v)' # {}
  <2>1. /\ hosted' = hosted \cup New(slots) /\ listed' = hosted'
        /\ New(slots) \subseteq Replicas \ (hosted \cup polls \cup deleting)
        /\ \A r \in Replicas : replica'[r] = IF r \in New(slots) THEN "STARTING" ELSE replica[r]
    BY <1>6, CreateEffect DEF BooksInv
  <2> QED  BY <1>1, <1>2, <2>1, OneReadyStays
<1>7. CASE Provision
  <2>1. CASE NoProvisioning \/ \E s \in Servers : TurnOn(s) \/ AbortTurnOff(s)
    <3>1. UNCHANGED <<listed, replica>>
      BY <2>1, NoDrainStarts
    <3> QED  BY <1>1, <1>4, <3>1
  <2>2. ASSUME NEW s \in Servers, StartTurnOff(s)
        PROVE  ReadyOf(v)' # {}
    <3>1. PICK m \in MigrationPlans(s) : \E placed \in Packings(EffMips, m, Free) :
                 StartFrom(s, m, placed)
      BY <2>2, StartTurnOffCases
    <3>2. PICK placed \in Packings(EffMips, m, Free) : StartFrom(s, m, placed)
      BY <3>1
    <3> DEFINE slots == {<<m[u], u>> : u \in placed}
    <3>3. slots \in SUBSET Slots /\ \A u \in placed : CanHost(m[u], u) /\ u \in Services
      BY DrainSlots
    <3>4. \A u \in placed : \A p \in hosted : Slot(p) # <<m[u], u>>
      BY <3>3 DEF CanHost, HostedOn, In
    <3>5. Create(slots)
      BY <3>2 DEF StartFrom
    <3> QED  BY <1>6, <3>3, <3>4, <3>5
  <2> QED  BY <1>7, <2>1, <2>2 DEF Provision
<1>8. ASSUME loop.at = "delete", loop.current = None, NEW u \in loop.todo,
             NEW r \in hosted, Slot(r) = <<loop.server, u>>,
             \A p \in hosted : p # r => p \in listed' /\ replica'[p] = replica[p]
      PROVE  ReadyOf(v)' # {} \/ DrainTakes(v)
  <2>1. CASE u = v
    BY <1>8, <2>1 DEF DrainTakes
  <2>2. CASE u # v
    <3>1. q # r
      BY <1>1, <1>8, <2>2 DEF Slot
    <3> QED  BY <1>1, <1>2, <1>4, <1>8, <3>1
  <2> QED  BY <2>1, <2>2
<1>9. CASE Drain
  <2>1. CASE EndWait \/ EndTurnOff \/ \E u \in Services : SkipDelete(u)
    <3>1. UNCHANGED <<listed, replica>>
      BY <2>1 DEF EndWait, EndTurnOff, SkipDelete, replicas
    <3> QED  BY <1>1, <1>4, <3>1
  <2>2. ASSUME NEW u \in Services, DeleteAtOnce(u)
        PROVE  ReadyOf(v)' # {} \/ DrainTakes(v)
    <3>1. PICK r \in In(<<loop.server, u>>) : Delete(r)
      BY <2>2 DEF DeleteAtOnce
    <3>2. /\ r \in hosted /\ r \in Replicas /\ Slot(r) = <<loop.server, u>>
          /\ loop.at = "delete" /\ loop.current = None /\ u \in loop.todo
      BY <2>2, <3>1 DEF DeleteAtOnce, Next1, In, BooksInv, Types, TypeOK
    <3>3. /\ hosted' = hosted \ {r} /\ listed' = hosted'
          /\ replica' = [replica EXCEPT ![r] = "TERMINATED"]
      BY <3>1, <3>2, DeleteEffect DEF BooksInv
    <3>4. \A p \in hosted : p # r => p \in listed' /\ replica'[p] = replica[p]
      BY <1>2, <3>3 DEF BooksInv, Types, TypeOK
    <3> QED  BY <1>8, <3>2, <3>4
  <2>3. ASSUME NEW u \in Services, BeginDelete(u)
        PROVE  ReadyOf(v)' # {} \/ DrainTakes(v)
    <3>1. PICK r \in In(<<loop.server, u>>) : replica' = Marked(r)
      BY <2>3 DEF BeginDelete
    <3>2. /\ r \in hosted /\ Slot(r) = <<loop.server, u>> /\ listed' = listed
          /\ loop.at = "delete" /\ loop.current = None /\ u \in loop.todo
      BY <2>3, <3>1 DEF BeginDelete, Next1, In
    <3>3. \A p \in hosted : p # r => p \in listed' /\ replica'[p] = replica[p]
      BY <1>2, <3>1, <3>2 DEF Marked, BooksInv, Types, TypeOK
    <3> QED  BY <1>8, <3>2, <3>3
  <2>4. CASE EndDelete
    <3>1. loop.current \in Held /\ loop.current \in Replicas /\ Delete(loop.current)
      BY <2>4 DEF EndDelete, Held, BooksInv, Types, LoopRecord
    <3> QED  BY <1>3, <3>1
  <2> QED  BY <1>9, <2>1, <2>2, <2>3, <2>4 DEF Drain
<1>10. CASE Scale
  <2>1. CASE \E u \in Services : NoScale(u) \/ \E r \in Replicas : ScaleDown(u, r)
    <3>1. UNCHANGED <<listed, replica>>
      BY <2>1 DEF NoScale, ScaleDown, replicas
    <3> QED  BY <1>1, <1>4, <3>1
  <2>2. ASSUME NEW u \in Services, NEW s \in Servers, ScaleUp(u, s)
        PROVE  ReadyOf(v)' # {}
    <3>1. /\ {<<s, u>>} \in SUBSET Slots /\ Create({<<s, u>>})
          /\ \A p \in hosted : Slot(p) # <<s, u>>
      BY <2>2 DEF ScaleUp, CanHost, Slots, HostedOn, In
    <3> QED  BY <1>6, <3>1
  <2> QED  BY <1>10, <2>1, <2>2 DEF Scale
<1> QED
  BY <1>5, <1>7, <1>9, <1>10 DEF Next

\* A service may lose its last READY replica only when a drain begins to delete
\* it: a scale-down never takes it (_apply_scale counts the READY ones and spawns
\* _delete_replica, which begins later), nor does the end of a deletion, which may
\* outlast many ticks, or a new replica's poll.
OnlyDrainsEndService ==
  [][\A v \in Services :
       ReadyOf(v) # {} /\ ReadyOf(v)' = {} =>
         /\ loop.at = "delete" /\ loop.current = None
         /\ v \in loop.todo /\ v \in HostedOn(loop.server)]_vars

\* This is what is left of KeepsServing when queues outlast the decision interval.
THEOREM RealtimeOnlyDrainsEndService ==
  ASSUME NotBoth
  PROVE  Spec => OnlyDrainsEndService
<1> DEFINE Ends == \A v \in Services :
                     ReadyOf(v) # {} /\ ReadyOf(v)' = {} =>
                       /\ loop.at = "delete" /\ loop.current = None
                       /\ v \in loop.todo /\ v \in HostedOn(loop.server)
<1>1. ScalesInv /\ [Next]_vars => ScalesInv'
  BY ScalesStep
<1>2. ScalesInv /\ [Next]_vars => [Ends]_vars
  <2> SUFFICES ASSUME ScalesInv, Next, NEW v \in Services, ReadyOf(v) # {}, ReadyOf(v)' = {}
               PROVE  /\ loop.at = "delete" /\ loop.current = None
                      /\ v \in loop.todo /\ v \in HostedOn(loop.server)
    OBVIOUS
  <2>1. DrainTakes(v)
    BY ServiceStep
  <2> QED  BY <2>1 DEF DrainTakes, HostedOn, In
<1> QED
  BY <1>1, <1>2, InitScales, PTL DEF Spec, OnlyDrainsEndService

\* Without long deletions another server hosts it: each step leaves a READY
\* replica to a service whose replicas are all READY.
LEMMA ServingStep ==
  ASSUME ServeInv, Next, NEW v \in Services, ReadyOf(v) # {},
         \A r \in listed : r[2] = v => replica[r] = "READY"
  PROVE  ReadyOf(v)' # {}
<1>1. CASE DrainTakes(v)
  <2>1. PICK r \in hosted :
          /\ Slot(r) = <<loop.server, v>>
          /\ \A p \in hosted : p # r => p \in listed' /\ replica'[p] = replica[p]
    BY <1>1 DEF DrainTakes
  <2>2. PICK p \in hosted : p[2] = v /\ p[1] # loop.server
    BY <1>1 DEF DrainTakes, ServeInv, ElsewhereOK
  <2>3. p # r /\ p \in listed /\ replica[p] = "READY"
    BY <2>1, <2>2 DEF Slot, ServeInv, ScalesInv, BooksInv, Books, BooksAgree
  <2> QED  BY <2>1, <2>2, <2>3, OneReadyStays
<1> QED
  BY <1>1, ServiceStep DEF ServeInv

\* A service all of whose replicas are READY keeps one through scale-downs and
\* drains, when queues empty within the decision interval (LongDrains is false),
\* whatever the pods do.
THEOREM RealtimeKeepsServing ==
  ASSUME ~LongDrains
  PROVE  Spec => KeepsServing
<1>1. Init => ServeInv
  BY InitScales DEF Init, Asleep, ServeInv, ElsewhereOK
<1>2. ServeInv /\ [Next]_vars => ServeInv'
  <2> SUFFICES ASSUME ServeInv, [Next]_vars
               PROVE  ServeInv'
    OBVIOUS
  <2>1. ScalesInv'
    BY ScalesStep DEF NotBoth, ServeInv
  <2>2. CASE UNCHANGED vars
    BY <2>1, <2>2 DEF ServeInv, ElsewhereOK, vars, HostedOn, In, Slot
  <2>3. CASE Next
    BY <2>1, <2>3, ElsewhereTasks, ElsewhereProvision, ElsewhereDrain, ElsewhereScale
       DEF Next, ServeInv, ScalesInv
  <2> QED  BY <2>2, <2>3
<1> DEFINE Keeps == \A v \in Services :
                      /\ ReadyOf(v) # {}
                      /\ \A r \in listed : r[2] = v => replica[r] = "READY"
                      => ReadyOf(v)' # {}
<1>3. ServeInv /\ [Next]_vars => [Keeps]_vars
  BY ServingStep
<1> QED
  BY <1>1, <1>2, <1>3, PTL DEF Spec, KeepsServing

----------------------------------------------------------------------------
(* The counters of a tick.                                                 *)

\* What a tick has read is not counted when the loop sleeps.
Forgotten == loop.at = "sleep" => rejection # "seen"

LEMMA ForgottenStep ==
  ASSUME Types, Forgotten, [Next]_vars
  PROVE  Forgotten'
<1>0. /\ loop \in LoopRecord /\ loop.at \in {"sleep", "wait", "delete", "scale", "crashed"}
      /\ DOMAIN loop = {"at", "server", "fresh", "failed", "todo", "current", "turn"}
  BY DEF Types, LoopRecord
<1>1. \A i : ScaleFrom(i).at = "scale"
  BY DEF ScaleFrom, Asleep
<1>2. CASE UNCHANGED vars
  BY <1>2 DEF vars, Forgotten
<1>3. CASE Tasks
  <2>1. loop' = loop /\ (rejection' = rejection \/ rejection' = "new")
    BY <1>3 DEF Tasks, PodStarts, BeginDeletion, PollSucceeds, PollTimesOut, EndDeletion, Reject
  <2> QED  BY <2>1 DEF Forgotten
<1>4. CASE Provision
  <2>1. loop'.at = "scale" \/ loop'.at = "wait"
    <3>1. CASE NoProvisioning \/ \E s \in Servers : TurnOn(s) \/ AbortTurnOff(s)
      BY <3>1, NoDrainStarts
    <3>2. ASSUME NEW s \in Servers, StartTurnOff(s) PROVE loop'.at = "wait"
      BY <3>2 DEF StartTurnOff, Asleep
    <3> QED  BY <1>4, <3>1, <3>2 DEF Provision
  <2> QED  BY <2>1 DEF Forgotten
<1>5. CASE Drain
  <2>1. ASSUME NEW v \in Services, SkipDelete(v) \/ DeleteAtOnce(v) \/ BeginDelete(v)
        PROVE  loop'.at = "delete"
    BY <1>0, <2>1 DEF SkipDelete, DeleteAtOnce, BeginDelete, Next1
  <2>2. CASE EndWait
    BY <1>0, <2>2 DEF EndWait, Forgotten
  <2>3. CASE EndDelete
    BY <1>0, <2>3 DEF EndDelete, Asleep, Forgotten
  <2>4. CASE EndTurnOff
    BY <1>1, <2>4 DEF EndTurnOff, Forgotten
  <2> QED  BY <1>5, <2>1, <2>2, <2>3, <2>4 DEF Drain, Forgotten
<1>6. CASE Scale
  <2>1. PICK v \in Services : EndScale(v)
    BY <1>6 DEF Scale, NoScale, ScaleUp, ScaleDown
  <2> QED  BY <1>1, <2>1 DEF EndScale, Forgotten
<1> QED  BY <1>2, <1>3, <1>4, <1>5, <1>6 DEF Next

\* A rejection is not read by a second tick: what one tick's snapshot held is
\* cleared before the loop sleeps again (decision_loop).  This is the safety half
\* of RejectionsReadOnce.
THEOREM RealtimeRejectionsForgotten ==
  Spec => [](loop.at = "sleep" => rejection # "seen")
<1>1. Init => Forgotten
  BY DEF Init, Forgotten
<1>2. Init => Types
  BY TypesInit
<1>3. Types /\ [Next]_vars => Types'
  BY TypesStep
<1>4. Types /\ Forgotten /\ [Next]_vars => Forgotten'
  BY ForgottenStep
<1> QED
  BY <1>1, <1>2, <1>3, <1>4, PTL DEF Spec, Forgotten

=============================================================================
