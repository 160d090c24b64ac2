-------------------------- MODULE Decisions_proofs --------------------------
(***************************************************************************)
(* Decisions implements SimLifecycle, so what is proved of the engine with *)
(* arbitrary answers holds with each of the algorithms, for every fleet,   *)
(* load and delay.  The sustain times the audit relies on are fresh, VOILA *)
(* does not flap, what a mask of PPO allows is applied or has a cause not  *)
(* to be, and the audit loses no need that the algorithms see.             *)
(***************************************************************************)
EXTENDS Decisions, SimReplicas_proofs

----------------------------------------------------------------------------
(* Every step is a step of the engine.                                     *)

\* What an algorithm proposes and the gates let through is a provisioning step.
LEMMA ApplyIsProvision ==
  ASSUME NEW action, NEW done \in BOOLEAN, ApplyProvisioning(action, done)
  PROVE  Provision
BY DEF ApplyProvisioning, Provision

\* What a tick does with a snapshot m and the action answered for it.
Ticks(m, action, done) ==
  /\ UpdateSustain(m)
  /\ ApplyProvisioning(action, done)
  /\ shot' = m
  /\ decided' = [Nothing EXCEPT ![0] = action]
  /\ applied' = [Nothing EXCEPT ![0] = IF done THEN action ELSE NoAction]
  /\ booked' = [NoEntries EXCEPT ![0] = ProvisionEntries(m, high', low', action, done)]

\* A tick does so with one of the algorithm's answers for its snapshot.
LEMMA TickCases ==
  ASSUME Tick
  PROVE  \E util \in [Active -> Utils], load \in LoadsOfAll, done \in BOOLEAN :
           \E action \in ProvisionDecisions(Snapshot(util, load)) :
             Ticks(Snapshot(util, load), action, done)
<1>1. PICK util \in [Active -> Utils], load \in LoadsOfAll, done \in BOOLEAN :
        LET m == Snapshot(util, load)
        IN \E action \in ProvisionDecisions(m) :
             /\ UpdateSustain(m)
             /\ sinceRejected' = NewRejections(load)
             /\ ApplyProvisioning(action, done)
             /\ shot' = m
             /\ decided' = [Nothing EXCEPT ![0] = action]
             /\ applied' = [Nothing EXCEPT ![0] = IF done THEN action ELSE NoAction]
             /\ booked' = [NoEntries EXCEPT ![0] = ProvisionEntries(m, high', low', action, done)]
  BY Zenon DEF Tick
<1> DEFINE m == Snapshot(util, load)
<1>2. PICK action \in ProvisionDecisions(m) :
        /\ UpdateSustain(m)
        /\ sinceRejected' = NewRejections(load)
        /\ ApplyProvisioning(action, done)
        /\ shot' = m
        /\ decided' = [Nothing EXCEPT ![0] = action]
        /\ applied' = [Nothing EXCEPT ![0] = IF done THEN action ELSE NoAction]
        /\ booked' = [NoEntries EXCEPT ![0] = ProvisionEntries(m, high', low', action, done)]
  BY <1>1
<1>3. Ticks(m, action, done)
  BY <1>2 DEF Ticks
<1> HIDE DEF m
<1>4. \E a \in ProvisionDecisions(m) : Ticks(m, a, done)
  BY <1>3
<1> QED
  BY <1>4 DEF m

\* A tick begins with such a step.
LEMMA TickIsProvision == Tick => Provision
<1> SUFFICES ASSUME Tick PROVE Provision
  OBVIOUS
<1>1. \E done \in BOOLEAN : \E action : ApplyProvisioning(action, done)
  BY TickCases DEF Ticks
<1> QED
  BY <1>1, ApplyIsProvision

\* A decision about one service is a scale step, on servers of the fleet.
LEMMA DecideIsScale ==
  ASSUME NEW v \in Services, Decide(v)
  PROVE  Scale
<1>1. PICK d : ApplyScale(v, d)
  BY DEF Decide
<1>2. Placements(algorithm, v) \subseteq Servers
  BY DEF Placements, Emptiest, Fit, Active
<1>3. MatureOf(v) \subseteq Servers
  BY DEF MatureOf, ReadyOf
<1>4. CASE \E t \in Placements(algorithm, v) : ScaleUp(v, t)
  BY <1>2, <1>4 DEF Scale
<1>5. CASE \E s \in MatureOf(v) : ScaleDown(v, s)
  BY <1>3, <1>5 DEF Scale
<1>6. CASE NoScale(v)
  BY <1>6 DEF Scale
<1> QED
  BY <1>1, <1>4, <1>5, <1>6 DEF ApplyScale

\* Every step of the composition is a step of the engine, or leaves it alone.
LEMMA StepRefines == [DecisionsNext]_allVars => [Next]_vars
<1>1. ASSUME TimePasses PROVE Next
  BY <1>1 DEF TimePasses, Next
<1>2. ASSUME EventHandled PROVE Next
  BY <1>2 DEF EventHandled, Next
<1>3. ASSUME Tick PROVE Next
  BY <1>3, TickIsProvision DEF Next
<1>4. ASSUME NEW v \in Services, Decide(v) PROVE Next
  BY <1>4, DecideIsScale DEF Next
<1>5. ASSUME UNCHANGED allVars PROVE UNCHANGED vars
  BY <1>5 DEF allVars, engine, vars
<1> QED
  BY <1>1, <1>2, <1>3, <1>4, <1>5 DEF DecisionsNext

\* The tick with the algorithms in it implements the engine that takes any
\* answer (_handle_decision_tick): the abstraction of SimLifecycle is sound for
\* Greedy, HPA, VOILA and PPO.
THEOREM DecisionsImplementEngine == DecisionsSpec => Spec
<1>1. DecisionsInit => Init
  BY DEF DecisionsInit
<1> QED
  BY <1>1, StepRefines, PTL DEF DecisionsSpec, Spec

\* Whatever the algorithm decides, the last ACTIVE server stays
\* (_apply_provisioning).
THEOREM DecisionsKeepFleet == DecisionsSpec => ActiveNeverLost
BY DecisionsImplementEngine, FleetStaysActive, PTL

\* Whatever the algorithm decides, no emergency boot is forgotten half-way
\* (_trigger_emergency_boot).
THEOREM DecisionsEmergencyEntriesAreLive == DecisionsSpec => []EmergencyTargetsBoot
BY DecisionsImplementEngine, EmergencyEntriesAreLive, PTL

----------------------------------------------------------------------------
(* What the steps do to the server a sustain time is about.                *)

\* A handler between ticks leaves a server alone, activates it from BOOTING or
\* switches it off.
LEMMA EventServers ==
  ASSUME Inv, HandleEvent, NEW s \in Servers
  PROVE  \/ state'[s] = state[s] /\ sinceTransition'[s] = sinceTransition[s]
         \/ state[s] = "BOOTING"
         \/ state'[s] = "OFF"
<1>0. state \in [Servers -> ServerStates] /\ sinceTransition \in [Servers -> 0..MinActive]
  BY DEF Inv, TypeOK, ServerStates
<1>1. ASSUME NEW t \in Servers, HandleBootDone(t)
      PROVE  /\ state[t] = "BOOTING"
             /\ \A u \in Servers \ {t} : state'[u] = state[u]
                                         /\ sinceTransition'[u] = sinceTransition[u]
  <2>1. PICK e \in heap : e.ev = BootDone(t) /\ Enter(t, "ACTIVE")
    BY <1>1 DEF HandleBootDone, Fires
  <2>2. e.ev.type = "SERVER_BOOT_DONE" /\ e.ev.server = t
    BY <2>1 DEF BootDone, Event
  <2>3. PICK u \in Servers : e.ev = BootDone(u) /\ state[u] = "BOOTING"
    BY <2>2 DEF Inv, ServerEventsOK, ServerEventsDue
  <2>4. state[t] = "BOOTING"
    BY <2>2, <2>3 DEF BootDone, Event
  <2> QED
    BY <1>0, <2>1, <2>4 DEF Enter
<1>2. ASSUME NEW t \in Servers, HandleDrainDone(t)
      PROVE  /\ state'[t] = "OFF"
             /\ \A u \in Servers \ {t} : state'[u] = state[u]
                                         /\ sinceTransition'[u] = sinceTransition[u]
  BY <1>0, <1>2 DEF HandleDrainDone, Enter
<1>3. ASSUME NEW t \in Servers,
             \/ HandleDrainNotDone(t)
             \/ \E v \in Services : HandleReplicaReady(t, v) \/ HandleReplicaTerminated(t, v)
      PROVE  UNCHANGED <<state, sinceTransition>>
  BY <1>3 DEF HandleDrainNotDone, HandleReplicaReady, HandleReplicaTerminated
<1> QED
  BY <1>1, <1>2, <1>3 DEF HandleEvent

\* Servers boot from OFF.
LEMMA BootServers ==
  ASSUME NEW S, NEW emergency, StartBoot(S, emergency), \A t \in S : state[t] = "OFF",
         NEW s \in Servers
  PROVE  \/ state'[s] = state[s] /\ sinceTransition'[s] = sinceTransition[s]
         \/ state[s] = "OFF"
BY DEF StartBoot

\* Provisioning leaves a server alone, boots it from OFF or drains it.
LEMMA ProvisionServers ==
  ASSUME Inv, Provision, NEW s \in Servers
  PROVE  \/ state'[s] = state[s] /\ sinceTransition'[s] = sinceTransition[s]
         \/ state[s] = "OFF"
         \/ state'[s] = "DRAINING"
<1>0. state \in [Servers -> ServerStates] /\ sinceTransition \in [Servers -> 0..MinActive]
  BY DEF Inv, TypeOK, ServerStates
<1>1. CASE NoProvisioning
  BY <1>1 DEF NoProvisioning
<1>2. ASSUME NEW t \in Servers, TurnOn(t)
      PROVE  \/ state'[s] = state[s] /\ sinceTransition'[s] = sinceTransition[s]
             \/ state[s] = "OFF"
  <2>1. StartBoot({t}, FALSE) /\ state[t] = "OFF"
    BY <1>2 DEF TurnOn, MayTurnOn
  <2> QED
    BY <2>1 DEF StartBoot
<1>3. ASSUME NEW t \in Servers, TurnOff(t)
      PROVE  \/ state'[s] = state[s] /\ sinceTransition'[s] = sinceTransition[s]
             \/ state'[s] = "DRAINING"
  <2>1. Enter(t, "DRAINING")
    BY <1>3 DEF TurnOff
  <2> QED
    BY <1>0, <2>1 DEF Enter
<1>4. ASSUME NEW t \in Servers, AbortTurnOff(t)
      PROVE  \/ state'[s] = state[s] /\ sinceTransition'[s] = sinceTransition[s]
             \/ state[s] = "OFF"
  <2> DEFINE Boot(p, waiting) == StartBoot({p[v] : v \in waiting} \ {None}, TRUE)
  <2>1. \E e \in heap, m \in MigrationPlans(t) : \E moved \in Packings(RawMips, m, Free) :
          LET waiting == {v \in SoleHosted(t) \ moved : emergencyBoot[v] = None}
          IN \E p \in EmergencyPlans(waiting) : Boot(p, waiting)
    BY <1>4 DEF AbortTurnOff
  <2> HIDE DEF Boot
  <2>2. PICK waiting, p : p \in EmergencyPlans(waiting) /\ Boot(p, waiting)
    BY <2>1
  <2> DEFINE targets == {p[v] : v \in waiting} \ {None}
  <2>3. p \in [waiting -> {t2 \in Servers : state[t2] = "OFF"} \cup {None}]
    BY <2>2 DEF EmergencyPlans, EmergencyTargets
  <2>4. \A t2 \in targets : state[t2] = "OFF"
    BY <2>3
  <2>5. StartBoot(targets, TRUE)
    BY <2>2 DEF Boot
  <2> HIDE DEF targets
  <2> QED
    BY <2>4, <2>5, BootServers
<1> QED
  BY <1>1, <1>2, <1>3, <1>4 DEF Provision

\* Scale decisions leave the servers alone.
LEMMA ScaleServers == ASSUME Scale PROVE UNCHANGED <<state, sinceTransition>>
BY DEF Scale, NoScale, ScaleUp, ScaleDown

----------------------------------------------------------------------------
(* Sustain times.                                                          *)

\* x is a sustain time of a server in state st, time t after its transition.
Fresh(x, st, t) ==
  x # None => x \in Nat /\ st # "BOOTING" /\ (st = "ACTIVE" => x <= t)

SustainInv ==
  Inv /\ \A s \in Servers : /\ Fresh(low[s], state[s], sinceTransition[s])
                             /\ Fresh(high[s], state[s], sinceTransition[s])

\* Nothing is sustained when a run begins.
LEMMA SustainInit == DecisionsInit => SustainInv
BY InitInv DEF DecisionsInit, SustainInv, Fresh

\* The sustain times and the time since the transition grow alike.
LEMMA OlderKeeps ==
  ASSUME NEW since, NEW bound \in Nat, bound <= MinActive,
         Inv, TimePasses, NEW e \in heap, Head(e),
         NEW s \in Servers, Fresh(since[s], state[s], sinceTransition[s])
  PROVE  Fresh(Older(since, e.in, bound)[s], state'[s], sinceTransition'[s])
<1>0. MinActive \in Nat /\ sinceTransition \in [Servers -> 0..MinActive]
  BY DelaysAssumption DEF Inv, TypeOK
<1>1. PICK f \in heap :
        /\ Head(f) /\ UNCHANGED state
        /\ sinceTransition' = [t \in Servers |-> AtMost(sinceTransition[t] + f.in, MinActive)]
  BY DEF TimePasses, AdvanceClock
<1>2. e.in \in Nat /\ f.in \in Nat
  BY DEF Inv, TypeOK, EventRecord
<1>3. e.in = f.in
  BY <1>1, <1>2 DEF Head, Earlier
<1> DEFINE x == since[s]
           y == Older(since, e.in, bound)[s]
<1>4. y = IF x = None THEN None ELSE AtMost(x + e.in, bound)
  BY DEF Older
<1>5. sinceTransition'[s] = AtMost(sinceTransition[s] + e.in, MinActive)
  BY <1>1, <1>3
<1> QED
  BY <1>0, <1>1, <1>2, <1>4, <1>5 DEF Fresh, AtMost

\* _update_sustain_tracking starts a time at 0 and drops it off ACTIVE.
LEMMA SinceKeeps ==
  ASSUME NEW since, Inv, Provision, NEW s \in Servers, NEW crossed,
         Fresh(since[s], state[s], sinceTransition[s])
  PROVE  Fresh(Since(since, s, crossed), state'[s], sinceTransition'[s])
<1>0. state \in [Servers -> ServerStates] /\ sinceTransition \in [Servers -> 0..MinActive]
  BY DEF Inv, TypeOK, ServerStates
<1> DEFINE y == Since(since, s, crossed)
<1>1. y # None => state[s] = "ACTIVE" /\ y \in Nat /\ y <= sinceTransition[s]
  BY <1>0 DEF Since, Fresh
<1> QED
  BY <1>1, ProvisionServers DEF Fresh

\* The invariant is inductive.
LEMMA SustainNext == SustainInv /\ [DecisionsNext]_allVars => SustainInv'
<1> SUFFICES ASSUME SustainInv, [DecisionsNext]_allVars PROVE SustainInv'
  OBVIOUS
<1>1. Inv /\ Inv'
  BY StepRefines, NextInv DEF SustainInv
<1> DEFINE Times(s) == /\ Fresh(low'[s], state'[s], sinceTransition'[s])
                       /\ Fresh(high'[s], state'[s], sinceTransition'[s])
<1>2. ASSUME NEW s \in Servers, TimePasses PROVE Times(s)
  <2>1. PICK e \in heap : /\ Head(e)
                          /\ low' = Older(low, e.in, SustainLow)
                          /\ high' = Older(high, e.in, SustainHigh)
    BY <1>2 DEF TimePasses
  <2>2. /\ SustainLow \in Nat /\ SustainLow <= MinActive
        /\ SustainHigh \in Nat /\ SustainHigh <= MinActive
    BY SustainAssumption, DelaysAssumption
  <2>3. Fresh(low'[s], state'[s], sinceTransition'[s])
    BY <1>1, <1>2, <2>1, <2>2, OlderKeeps DEF SustainInv
  <2>4. Fresh(high'[s], state'[s], sinceTransition'[s])
    BY <1>1, <1>2, <2>1, <2>2, OlderKeeps DEF SustainInv
  <2> QED
    BY <2>3, <2>4
<1>3. ASSUME NEW s \in Servers, EventHandled PROVE Times(s)
  <2>1. HandleEvent /\ UNCHANGED <<low, high>>
    BY <1>3 DEF EventHandled, memory
  <2> QED
    BY <1>1, <2>1, EventServers DEF SustainInv, Fresh
<1>4. ASSUME NEW s \in Servers, Tick PROVE Times(s)
  <2>1. \E m : UpdateSustain(m)
    BY <1>4, TickCases DEF Ticks
  <2>2. PICK m : /\ low'[s] = Since(low, s, Used(m, s) < UtilDown)
                 /\ high'[s] = Since(high, s, Used(m, s) > UtilUp)
    BY <2>1 DEF UpdateSustain
  <2>3. Provision
    BY <1>4, TickIsProvision
  <2>4. Fresh(low'[s], state'[s], sinceTransition'[s])
    BY <1>1, <2>2, <2>3, SinceKeeps DEF SustainInv
  <2>5. Fresh(high'[s], state'[s], sinceTransition'[s])
    BY <1>1, <2>2, <2>3, SinceKeeps DEF SustainInv
  <2> QED
    BY <2>4, <2>5
<1>5. ASSUME NEW s \in Servers, NEW v \in Services, Decide(v) PROVE Times(s)
  <2>1. UNCHANGED <<state, sinceTransition, low, high>>
    BY <1>5, DecideIsScale, ScaleServers DEF Decide
  <2> QED
    BY <2>1 DEF SustainInv
<1>6. ASSUME NEW s \in Servers, UNCHANGED allVars PROVE Times(s)
  <2>1. UNCHANGED <<state, sinceTransition, low, high>>
    BY <1>6 DEF allVars, engine, memory
  <2> QED
    BY <2>1 DEF SustainInv
<1>7. \A s \in Servers : Times(s)
  BY <1>2, <1>3, <1>4, <1>5, <1>6 DEF DecisionsNext
<1> QED
  BY <1>1, <1>7 DEF SustainInv

\* A server's sustain times never outlive its activation: the necessity that
\* the audit, and a policy without bypass_sustain_gate, reads from them is of
\* the server as it runs now (_update_sustain_tracking).
THEOREM SustainTimesAreFresh == DecisionsSpec => []SustainIsFresh
<1>1. SustainInv => SustainIsFresh
  BY DEF SustainInv, SustainIsFresh, Fresh
<1> QED
  BY <1>1, SustainInit, SustainNext, PTL DEF DecisionsSpec

----------------------------------------------------------------------------
(* VOILA's streaks.                                                        *)

StreakRecord == [good : Nat, far : Nat, recent : Nat]
SettledRecord == [ticks : Nat, near : BOOLEAN]

\* The streaks k of a service know how long ago it was scaled: the good ticks
\* are counted since then, and so is the protection of a nearer replica.
Knows(k, w) ==
  k.good <= w.ticks /\ (w.near => Protection <= k.recent + w.ticks)

\* scale_decision keeps that, and says SCALE_DOWN late enough.
LEMMA VoilaStep ==
  ASSUME NEW k \in StreakRecord, NEW w \in SettledRecord, Knows(k, w),
         NEW v \in Services, NEW d, d = VoilaScale(shot.service[v], k),
         NEW done \in BOOLEAN, done => d # "NO_CHANGE"
  PROVE  /\ StreakAfter(shot.service[v], k) \in StreakRecord
         /\ After(w, v, d, done) \in SettledRecord
         /\ Knows(StreakAfter(shot.service[v], k), After(w, v, d, done))
         /\ d = "SCALE_DOWN" => /\ w.ticks + 1 >= Patience
                                /\ w.near => w.ticks + 1 >= Protection
<1> DEFINE sv == shot.service[v]
           k2 == StreakAfter(sv, k)
           w2 == After(w, v, d, done)
<1>0. /\ k.good \in Nat /\ k.far \in Nat /\ k.recent \in Nat
      /\ w.ticks \in Nat /\ w.near \in BOOLEAN
  BY Zenon DEF StreakRecord, SettledRecord
<1> HIDE DEF sv, k2, w2
<1>w. /\ w2.ticks \in Nat /\ w2.near \in BOOLEAN /\ w2 \in SettledRecord
      /\ done => w2.ticks = 0 /\ w2.near = (d = "SCALE_UP" /\ ~Crowded(sv))
      /\ ~done => w2.ticks = AtMost(w.ticks + 1, Protection) /\ w2.near = w.near
  <2>1. CASE done
    <3>1. w2 = [ticks |-> 0, near |-> d = "SCALE_UP" /\ ~Crowded(sv)]
      BY <2>1 DEF w2, After, sv
    <3>2. (d = "SCALE_UP" /\ ~Crowded(sv)) \in BOOLEAN
      BY Zenon
    <3> QED
      BY <2>1, <3>1, <3>2 DEF SettledRecord
  <2>2. CASE ~done
    <3>1. w2 = [w EXCEPT !.ticks = AtMost(@ + 1, Protection)]
      BY <2>2 DEF w2, After
    <3>2. AtMost(w.ticks + 1, Protection) \in Nat
      BY <1>0 DEF AtMost, Protection
    <3>3. w = [ticks |-> w.ticks, near |-> w.near]
      BY DEF SettledRecord
    <3>4. w2 = [ticks |-> AtMost(w.ticks + 1, Protection), near |-> w.near]
      BY <3>1, <3>3
    <3> QED
      BY <2>2, <1>0, <3>2, <3>4 DEF SettledRecord
  <2> QED
    BY <2>1, <2>2
<1>1. CASE Crowded(sv)
  <2>1. k2 = [k EXCEPT !.good = 0, !.far = 0] /\ d = "SCALE_UP"
    BY <1>1 DEF StreakAfter, VoilaScale, Decision, TooFar, Calm, k2, sv
  <2>2. k2 \in StreakRecord /\ k2.good = 0 /\ k2.recent = k.recent
    BY <2>1 DEF StreakRecord
  <2> QED
    BY <1>0, <1>1, <1>w, <2>1, <2>2 DEF Knows, AtMost, Protection, k2, w2, sv
<1>2. CASE TooFar(sv, k)
  <2>1. k2 = [good |-> 0, far |-> 0, recent |-> Protection] /\ d = "SCALE_UP"
    BY <1>2 DEF StreakAfter, VoilaScale, Decision, TooFar, Calm, k2, sv
  <2>2. k2 \in StreakRecord /\ k2.good = 0 /\ k2.recent = Protection
    BY <2>1 DEF StreakRecord, Protection
  <2> QED
    BY <1>0, <1>w, <2>1, <2>2 DEF Knows, Protection, k2, w2, sv
<1>3. CASE ~Crowded(sv) /\ sv.far /\ ~TooFar(sv, k)
  <2>1. k2 = [k EXCEPT !.good = 0, !.far = @ + 1] /\ d = "NO_CHANGE"
    BY <1>3 DEF StreakAfter, VoilaScale, Decision, TooFar, Calm, Patient, k2, sv
  <2>2. k2 = [good |-> 0, far |-> k.far + 1, recent |-> k.recent]
    BY <2>1 DEF StreakRecord
  <2>3. k2 \in StreakRecord /\ k2.good = 0 /\ k2.recent = k.recent
    BY <2>2, <1>0 DEF StreakRecord
  <2> QED
    BY <1>0, <1>w, <2>1, <2>3 DEF Knows, AtMost, Protection, k2, w2, sv
<1>4. CASE Calm(sv)
  <2>1. /\ k2 = [good |-> IF Patient(sv, k) THEN 0 ELSE AtMost(k.good + 1, Patience),
                  far |-> 0, recent |-> AtLeast(k.recent - 1, 0)]
        /\ d = IF Patient(sv, k) THEN "SCALE_DOWN" ELSE "NO_CHANGE"
    BY <1>4 DEF StreakAfter, VoilaScale, Decision, TooFar, Calm, k2, sv
  <2>2. Patient(sv, k) => k.recent <= 1 /\ k.good + 1 >= Patience
    BY DEF Patient
  <2>3. /\ k2.good = IF Patient(sv, k) THEN 0 ELSE AtMost(k.good + 1, Patience)
        /\ k2.recent = AtLeast(k.recent - 1, 0)
    BY <2>1
  <2>4. k2 \in StreakRecord
    BY <1>0, <2>1 DEF StreakRecord, AtMost, AtLeast, Patience
  <2>5. d = "SCALE_DOWN" => /\ w.ticks + 1 >= Patience
                            /\ w.near => w.ticks + 1 >= Protection
    BY <1>0, <2>1, <2>2 DEF Knows, Patience, Protection
  <2>6. k2.good <= w2.ticks
    BY <1>0, <1>w, <2>1, <2>3 DEF Knows, AtMost, Patience, Protection
  <2>7. w2.near => Protection <= k2.recent + w2.ticks
    <3> SUFFICES ASSUME w2.near PROVE Protection <= k2.recent + w2.ticks
      OBVIOUS
    <3>1. ~done
      BY <1>w, <2>1
    <3>2. Protection <= k.recent + w.ticks
      BY <3>1, <1>w DEF Knows
    <3> QED
      BY <3>1, <3>2, <1>0, <1>w, <2>3 DEF AtMost, AtLeast, Protection
  <2> QED
    BY <1>w, <2>4, <2>5, <2>6, <2>7 DEF Knows, k2, w2, sv
<1> QED
  BY <1>1, <1>2, <1>3, <1>4 DEF Calm

\* The streaks fit what happened to their services, and the services whose turn
\* is still to come have nothing applied yet.
FlapInv ==
  /\ streak \in [Services -> StreakRecord] /\ settled \in [Services -> SettledRecord]
  /\ \A v \in Services : Knows(streak[v], settled[v])
  /\ DOMAIN applied = 0..NServices
  /\ turn # 0 => \A v \in Services : turn <= v => applied[v] = "NO_CHANGE"

\* A decision says SCALE_DOWN late enough, and keeps the streaks in step.
LEMMA DecideStreaks ==
  ASSUME FlapInv, algorithm = "voila", NEW v \in Services, Decide(v)
  PROVE  /\ streak' \in [Services -> StreakRecord] /\ settled' \in [Services -> SettledRecord]
         /\ \A u \in Services : Knows(streak'[u], settled'[u])
         /\ applied'[v] = "SCALE_DOWN" =>
              /\ settled[v].ticks + 1 >= Patience
              /\ settled[v].near => settled[v].ticks + 1 >= Protection
<1> DEFINE k == streak[v]
           w == settled[v]
<1>0. k \in StreakRecord /\ w \in SettledRecord /\ Knows(k, w)
  BY DEF FlapInv
<1>1. PICK d \in ScaleDecisions(v) :
        /\ applied' = [applied EXCEPT ![v] = IF MayApply(v, d) THEN d ELSE @]
        /\ streak' = [streak EXCEPT ![v] = StreakAfter(shot.service[v], @)]
        /\ settled' = [settled EXCEPT ![v] = After(@, v, d, MayApply(v, d))]
  BY Zenon DEF Decide
<1>2. d = VoilaScale(shot.service[v], k)
  BY <1>1 DEF ScaleDecisions
<1>3. MayApply(v, d) \in BOOLEAN /\ (MayApply(v, d) => d # "NO_CHANGE")
  BY Zenon DEF MayApply
<1>4. /\ StreakAfter(shot.service[v], k) \in StreakRecord
      /\ After(w, v, d, MayApply(v, d)) \in SettledRecord
      /\ Knows(StreakAfter(shot.service[v], k), After(w, v, d, MayApply(v, d)))
      /\ d = "SCALE_DOWN" => /\ w.ticks + 1 >= Patience
                             /\ w.near => w.ticks + 1 >= Protection
  <2> DEFINE done == MayApply(v, d)
  <2>1. done \in BOOLEAN /\ (done => d # "NO_CHANGE")
    BY <1>3
  <2> HIDE DEF done, k, w
  <2>2. /\ StreakAfter(shot.service[v], k) \in StreakRecord
        /\ After(w, v, d, done) \in SettledRecord
        /\ Knows(StreakAfter(shot.service[v], k), After(w, v, d, done))
        /\ d = "SCALE_DOWN" => /\ w.ticks + 1 >= Patience
                               /\ w.near => w.ticks + 1 >= Protection
    BY <1>0, <1>2, <2>1, VoilaStep
  <2> QED
    BY <2>2 DEF done
<1>5. streak'[v] = StreakAfter(shot.service[v], k) /\ settled'[v] = After(w, v, d, MayApply(v, d))
  BY <1>1 DEF FlapInv
<1>6. \A u \in Services \ {v} : streak'[u] = streak[u] /\ settled'[u] = settled[u]
  BY <1>1 DEF FlapInv
<1>7. applied'[v] = "SCALE_DOWN" => d = "SCALE_DOWN"
  <2>1. turn = v /\ v # 0 /\ v \in 0..NServices
    BY ServicesAssumption DEF Decide, Services
  <2>2. v <= v
    BY <2>1
  <2>3. applied[v] = "NO_CHANGE"
    BY <2>1, <2>2 DEF FlapInv
  <2> QED
    BY <1>1, <2>1, <2>3 DEF FlapInv
<1>8. streak' \in [Services -> StreakRecord] /\ settled' \in [Services -> SettledRecord]
  <2>1. DOMAIN streak' = Services /\ DOMAIN settled' = Services
    BY <1>1 DEF FlapInv
  <2> QED
    BY <1>1, <1>4 DEF FlapInv
<1>9. \A u \in Services : Knows(streak'[u], settled'[u])
  BY <1>4, <1>5, <1>6 DEF FlapInv
<1> QED
  BY <1>4, <1>7, <1>8, <1>9

\* Events are handled between ticks.
LEMMA EventsKeepTurn == HandleEvent => turn = 0 /\ UNCHANGED turn
<1>1. ASSUME NEW s \in Servers,
             HandleBootDone(s) \/ HandleDrainNotDone(s) \/ HandleDrainDone(s)
      PROVE  turn = 0 /\ UNCHANGED turn
  BY <1>1 DEF HandleBootDone, HandleDrainNotDone, HandleDrainDone, Fires
<1>2. ASSUME NEW s \in Servers, NEW v \in Services,
             HandleReplicaReady(s, v) \/ HandleReplicaTerminated(s, v)
      PROVE  turn = 0 /\ UNCHANGED turn
  BY <1>2 DEF HandleReplicaReady, HandleReplicaTerminated, Fires
<1> QED
  BY <1>1, <1>2 DEF HandleEvent

\* A run begins without streaks.
LEMMA FlapInit == DecisionsInit => FlapInv
BY DEF DecisionsInit, Init, FlapInv, FreshStreak, StreakRecord, SettledRecord, Knows, Protection,
       ReportIs, Nothing

\* The invariant is inductive.
LEMMA FlapNext == FlapInv /\ [DecisionsNext]_allVars => FlapInv'
<1> SUFFICES ASSUME FlapInv, [DecisionsNext]_allVars PROVE FlapInv'
  OBVIOUS
<1>1. CASE TimePasses
  <2>1. turn = 0 /\ turn' = turn /\ UNCHANGED <<streak, settled>> /\ applied' = Nothing
    BY <1>1 DEF TimePasses, AdvanceClock
  <2> QED
    BY <2>1 DEF FlapInv, Nothing
<1>2. CASE EventHandled
  <2>1. UNCHANGED <<streak, settled, applied>>
    BY <1>2 DEF EventHandled, memory, report
  <2>2. UNCHANGED turn
    BY <1>2, EventsKeepTurn DEF EventHandled
  <2> QED
    BY <2>1, <2>2 DEF FlapInv
<1>3. CASE Tick
  <2>1. UNCHANGED <<streak, settled>>
    BY <1>3 DEF Tick
  <2>2. PICK a : applied' = [Nothing EXCEPT ![0] = a]
    BY <1>3, TickCases DEF Ticks
  <2>3. DOMAIN applied' = 0..NServices /\ \A v \in Services : applied'[v] = "NO_CHANGE"
    BY <2>2, ServicesAssumption DEF Nothing, Services
  <2> QED
    BY <2>1, <2>3 DEF FlapInv
<1>4. ASSUME NEW v \in Services, Decide(v) PROVE FlapInv'
  <2>1. PICK d : applied' = [applied EXCEPT ![v] = IF MayApply(v, d) THEN d ELSE @]
    BY <1>4, Zenon DEF Decide
  <2>2. turn = v /\ (turn' = 0 \/ turn' = v + 1)
    <3>1. turn = v /\ \E u \in Services : \E h : turn = u /\ EndScale(u, h)
      BY <1>4, DecideIsScale DEF Decide, Scale, NoScale, ScaleUp, ScaleDown
    <3> QED
      BY <3>1 DEF EndScale
  <2>3. DOMAIN applied' = 0..NServices
    BY <2>1 DEF FlapInv
  <2>4. ASSUME turn' # 0, NEW u \in Services, turn' <= u PROVE applied'[u] = "NO_CHANGE"
    <3>1. v <= u /\ u # v /\ v # 0
      BY <2>2, <2>4, ServicesAssumption DEF Services
    <3> QED
      BY <2>1, <2>2, <3>1 DEF FlapInv
  <2>5. CASE algorithm = "voila"
    BY <1>4, <2>3, <2>4, <2>5, DecideStreaks DEF FlapInv
  <2>6. CASE algorithm # "voila"
    <3>1. UNCHANGED <<streak, settled>>
      BY <1>4, <2>6, Zenon DEF Decide
    <3> QED
      BY <2>3, <2>4, <3>1 DEF FlapInv
  <2> QED
    BY <2>5, <2>6
<1>5. CASE UNCHANGED allVars
  BY <1>5 DEF FlapInv, allVars, engine, memory, report
<1> QED
  BY <1>1, <1>2, <1>3, <1>4, <1>5 DEF DecisionsNext

\* VOILA does not flap: SCALE_DOWN takes SCALE_DOWN_PATIENCE_TICKS good ticks
\* since the last scaling, PROXIMITY_PROTECTION_TICKS after a proximity scale-up
\* (scale_decision).
THEOREM VoilaDoesNotFlap == DecisionsSpec => NoFlapping
<1> DEFINE Late(v) == algorithm = "voila" /\ turn = v /\ applied'[v] = "SCALE_DOWN" =>
                        /\ settled[v].ticks + 1 >= Patience
                        /\ settled[v].near => settled[v].ticks + 1 >= Protection
<1>1. FlapInv /\ [DecisionsNext]_allVars => [\A v \in Services : Late(v)]_allVars
  <2> SUFFICES ASSUME FlapInv, DecisionsNext, NEW v \in Services, algorithm = "voila", turn = v
               PROVE  Late(v)
    OBVIOUS
  <2>0. turn # 0
    BY ServicesAssumption DEF Services
  <2>1. ~TimePasses /\ ~EventHandled /\ ~Tick
    BY <2>0, EventsKeepTurn DEF TimePasses, AdvanceClock, EventHandled, Tick, TickFires, Fires
  <2>2. PICK u \in Services : Decide(u)
    BY <2>1 DEF DecisionsNext
  <2>3. u = v
    BY <2>2 DEF Decide
  <2> QED
    BY <2>2, <2>3, DecideStreaks
<1> QED
  BY <1>1, FlapInit, FlapNext, PTL DEF DecisionsSpec, NoFlapping

----------------------------------------------------------------------------
(* A mask of PPO outlives the time between two ticks.                      *)

\* No migration is about to take a replica of v that serves.
NoReadySource(v) ==
  \A t \in Servers : pending[t][v] # None => replica[pending[t][v]][v].state # "READY"

\* Between two ticks a replica that serves goes on serving, unless a migration
\* is to take it, and none is created.
ReplicaKept(s, v) ==
  /\ replica'[s][v].state # "NONE" => replica[s][v].state # "NONE"
  /\ replica[s][v].state = "READY" =>
       \/ replica'[s][v].state = "READY" /\ replica'[s][v].age >= replica[s][v].age
       \/ \E t \in Servers : pending[t][v] = s
  /\ replica'[s][v].state = "READY" /\ replica[s][v].state # "READY" =>
       \A t \in Servers : pending[t][v] # s
  /\ pending'[s][v] \in {pending[s][v], None}

LEMMA AdvanceKeeps ==
  ASSUME SimInv, AdvanceClock, NEW s \in Servers, NEW v \in Services
  PROVE  ReplicaKept(s, v)
<1>0. Basics
  BY BasicsHold DEF SimInv
<1>1. PICK now \in heap : AdvanceBy(now.in)
  BY AdvanceCases
<1>2. /\ replica'[s][v] = IF Hosts(s, v) THEN Aged(replica[s][v], now.in) ELSE Absent
      /\ UNCHANGED pending
  BY <1>1 DEF AdvanceBy
<1>3. replica[s][v] \in ReplicaRecord /\ now.in \in Nat
  BY <1>0 DEF SimInv, Inv, TypeOK, Basics
<1>4. replica'[s][v].state = replica[s][v].state
  BY AdvanceLife
<1>5. replica[s][v].state = "READY" => replica'[s][v].age >= replica[s][v].age
  <2>1. SUFFICES ASSUME replica[s][v].state = "READY"
                 PROVE  replica'[s][v].age >= replica[s][v].age
    OBVIOUS
  <2>2. replica'[s][v].age = AtMost(replica[s][v].age + now.in, MinReplicaAge)
    BY <1>2, <1>3, <2>1 DEF Aged, Hosts, ReplicaRecord
  <2>3. replica[s][v].age \in Nat /\ replica[s][v].age <= MinReplicaAge /\ MinReplicaAge \in Nat
    BY <1>3, DelaysType DEF ReplicaRecord
  <2> QED
    BY <1>3, <2>2, <2>3 DEF AtMost
<1> QED
  BY <1>2, <1>4, <1>5 DEF ReplicaKept

LEMMA ReadyKeeps ==
  ASSUME SimInv, NEW p \in Servers, NEW q \in Services, HandleReplicaReady(p, q),
         NEW s \in Servers, NEW v \in Services
  PROVE  ReplicaKept(s, v)
<1>0. Basics /\ FleetOK /\ ReplicasOK(replica)
  BY BasicsHold, TypePartsOK DEF SimInv, Inv, TypeParts
<1>1. PICK e \in heap : \E w \in Backlogs : \E old : ReadyWith(p, q, e, w, old)
  BY ReadyCases
<1>2. PICK w \in Backlogs : \E old : ReadyWith(p, q, e, w, old)
  BY <1>1
<1>3. PICK old : ReadyWith(p, q, e, w, old)
  BY <1>2
<1> DEFINE work == [u \in Services |-> w]
           ready == [replica EXCEPT ![p][q].state = "READY"]
<1>4. /\ e.ev = Ready(p, q)
      /\ old = {} \/ /\ old = {<<pending[p][q], q>>} /\ pending[p][q] # None
                     /\ replica[pending[p][q]][q].state \notin {"NONE", "DRAINING"}
      /\ replica' = Draining(ready, old, work)
      /\ pending' = [pending EXCEPT ![p][q] = None]
  BY <1>3 DEF ReadyWith
<1>5. state[p] = "ACTIVE" /\ replica[p][q].state = "STARTING"
  BY <1>0, <1>4 DEF FleetOK, StartingOK
<1>6. /\ ReplicasOK(ready) /\ ready[p][q].state = "READY"
      /\ \A t \in Servers, u \in Services : ~(t = p /\ u = q) => ready[t][u] = replica[t][u]
  BY <1>0 DEF ReplicasOK, ReplicaRecord
<1>p. pending'[s][v] \in {pending[s][v], None}
  <2>1. pending \in [Servers -> [Services -> Servers \cup {None}]]
    BY DEF SimInv, Inv, TypeOK
  <2> QED
    BY <1>4, <2>1
<1> HIDE DEF ready, work
<1>7. LET r == replica'[s][v]
      IN IF <<s, v>> \in old THEN r.state = "DRAINING" ELSE r = ready[s][v]
  BY <1>4, <1>6, DrainingIs
<1>8. CASE <<s, v>> \in old
  <2>1. pending[p][v] = s
    BY <1>4, <1>8
  <2>2. replica[s][v].state # "NONE" /\ replica'[s][v].state = "DRAINING"
    BY <1>4, <1>7, <1>8
  <2> QED
    BY <1>p, <2>1, <2>2 DEF ReplicaKept
<1>9. CASE <<s, v>> \notin old /\ s = p /\ v = q
  <2>1. replica'[s][v].state = "READY" /\ replica[s][v].state = "STARTING" /\ state[s] = "ACTIVE"
    BY <1>5, <1>6, <1>7, <1>9
  <2>2. \A t \in Servers : pending[t][v] # s
    <3> SUFFICES ASSUME NEW t \in Servers, pending[t][v] = s PROVE FALSE
      OBVIOUS
    <3>1. s # None
      BY ServersAssumption
    <3> QED
      BY <1>0, <2>1, <3>1 DEF FleetOK, PendingOK
  <2> QED
    BY <1>p, <2>1, <2>2 DEF ReplicaKept
<1>10. CASE <<s, v>> \notin old /\ ~(s = p /\ v = q)
  <2>1. replica'[s][v] = replica[s][v]
    BY <1>6, <1>7, <1>10
  <2>2. replica[s][v].age \in Nat
    BY <1>0, DelaysType DEF ReplicasOK, ReplicaRecord
  <2> QED
    BY <1>p, <2>1, <2>2 DEF ReplicaKept
<1> QED
  BY <1>8, <1>9, <1>10


LEMMA EventKeeps ==
  ASSUME SimInv, HandleEvent, NEW s \in Servers, NEW v \in Services
  PROVE  ReplicaKept(s, v)
<1>0. replica[s][v].age \in Nat /\ ReplicasOK(replica)
  <2>1. replica[s][v] \in ReplicaRecord /\ MinReplicaAge \in Nat
    BY DelaysType DEF SimInv, Inv, TypeOK
  <2>2. ReplicasOK(replica)
    BY DEF SimInv, Inv, TypeOK, ReplicasOK
  <2> QED
    BY <2>1, <2>2 DEF ReplicaRecord
<1>1. ASSUME UNCHANGED <<replica, pending>> PROVE ReplicaKept(s, v)
  BY <1>0, <1>1 DEF ReplicaKept
<1>2. ASSUME NEW t \in Servers, HandleBootDone(t) \/ HandleDrainNotDone(t) \/ HandleDrainDone(t)
      PROVE  UNCHANGED <<replica, pending>>
  BY <1>2 DEF HandleBootDone, HandleDrainNotDone, HandleDrainDone
<1>3. ASSUME NEW t \in Servers, NEW u \in Services, HandleReplicaTerminated(t, u)
      PROVE  ReplicaKept(s, v)
  <2>1. PICK e \in heap : /\ e.ev = Terminated(t, u) /\ UNCHANGED pending
                          /\ replica' = [replica EXCEPT ![t][u] = Absent]
    BY <1>3 DEF HandleReplicaTerminated, Fires
  <2>2. replica[t][u].state \in {"DRAINING", "NONE"}
    BY <2>1 DEF SimInv, FleetOK, TerminationsOK
  <2>3. IF s = t /\ v = u THEN replica'[s][v].state = "NONE" ELSE replica'[s][v] = replica[s][v]
    BY <1>0, <2>1 DEF Absent, ReplicasOK
  <2> QED
    BY <1>0, <2>1, <2>2, <2>3 DEF ReplicaKept
<1> QED
  BY <1>1, <1>2, <1>3, ReadyKeeps DEF HandleEvent

\* Between two ticks no server leaves ACTIVE, and cooldowns only end.
ServerKept(s) ==
  /\ MayTurnOn(s) => state'[s] = "OFF" /\ sinceTransition'[s] >= Cooldown
  /\ state[s] = "ACTIVE" =>
       /\ state'[s] = "ACTIVE" /\ isEmergency'[s] = isEmergency[s]
       /\ sinceTransition'[s] >= sinceTransition[s]

LEMMA AdvanceServers ==
  ASSUME SimInv, AdvanceClock
  PROVE  /\ \A s \in Servers : ServerKept(s)
         /\ \A v \in Services : sinceScale[v] >= Cooldown => sinceScale'[v] >= Cooldown
         /\ turn = 0 /\ turn' = 0
<1>0. /\ sinceTransition \in [Servers -> 0..MinActive] /\ sinceScale \in [Services -> 0..Cooldown]
      /\ \A e \in heap : e.in \in Nat
      /\ Cooldown \in Nat /\ MinActive \in Nat /\ Cooldown <= MinActive
  BY DelaysType, OrderAssumption, BasicsHold DEF SimInv, Inv, TypeOK, Basics
<1>1. PICK e \in heap :
        /\ sinceTransition' = [s \in Servers |-> AtMost(sinceTransition[s] + e.in, MinActive)]
        /\ sinceScale' = [v \in Services |-> AtMost(sinceScale[v] + e.in, Cooldown)]
        /\ UNCHANGED <<state, isEmergency, turn>> /\ turn = 0
  BY DEF AdvanceClock
<1>2. ASSUME NEW s \in Servers PROVE ServerKept(s)
  <2>1. sinceTransition'[s] >= sinceTransition[s]
    BY <1>0, <1>1 DEF AtMost
  <2>2. sinceTransition[s] >= Cooldown => sinceTransition'[s] >= Cooldown
    BY <1>0, <1>1 DEF AtMost
  <2> QED
    BY <1>1, <2>1, <2>2 DEF ServerKept, MayTurnOn
<1>3. ASSUME NEW v \in Services, sinceScale[v] >= Cooldown PROVE sinceScale'[v] >= Cooldown
  BY <1>0, <1>1, <1>3 DEF AtMost
<1> QED
  BY <1>1, <1>2, <1>3

LEMMA EventKeepsServers ==
  ASSUME SimInv, HandleEvent
  PROVE  /\ \A s \in Servers : ServerKept(s)
         /\ UNCHANGED <<sinceScale, turn>> /\ turn = 0
<1>0. /\ state \in [Servers -> ServerStates] /\ sinceTransition \in [Servers -> 0..MinActive]
      /\ isEmergency \in [Servers -> BOOLEAN] /\ Basics
  BY BasicsHold DEF SimInv, Inv, TypeOK, ServerStates
<1>1. UNCHANGED <<sinceScale, turn>> /\ turn = 0
  <2>1. ASSUME NEW s \in Servers, HandleBootDone(s) \/ HandleDrainNotDone(s) \/ HandleDrainDone(s)
        PROVE  UNCHANGED sinceScale
    BY <2>1 DEF HandleBootDone, HandleDrainNotDone, HandleDrainDone
  <2>2. ASSUME NEW s \in Servers, NEW v \in Services,
               HandleReplicaReady(s, v) \/ HandleReplicaTerminated(s, v)
        PROVE  UNCHANGED sinceScale
    BY <2>2 DEF HandleReplicaReady, HandleReplicaTerminated
  <2> QED
    BY <2>1, <2>2, EventsKeepTurn DEF HandleEvent
<1>2. ASSUME NEW t \in Servers, HandleBootDone(t) PROVE \A s \in Servers : ServerKept(s)
  <2>1. PICK e \in heap : /\ e.ev = BootDone(t) /\ Enter(t, "ACTIVE")
                          /\ isEmergency' = [isEmergency EXCEPT ![t] = @ /\ Rescued(t) = {}]
    BY <1>2 DEF HandleBootDone, Fires
  <2>2. state[t] = "BOOTING"
    BY <1>0, <2>1 DEF Basics
  <2>3. \A s \in Servers \ {t} : /\ state'[s] = state[s] /\ isEmergency'[s] = isEmergency[s]
                                 /\ sinceTransition'[s] = sinceTransition[s]
    BY <1>0, <2>1 DEF Enter
  <2> QED
    BY <1>0, <2>2, <2>3 DEF ServerKept, MayTurnOn
<1>3. ASSUME NEW t \in Servers, HandleDrainDone(t) PROVE \A s \in Servers : ServerKept(s)
  <2>1. PICK e \in heap : e.ev = DrainDone(t) /\ Enter(t, "OFF") /\ UNCHANGED isEmergency
    BY <1>3 DEF HandleDrainDone, Fires
  <2>2. state[t] = "DRAINING"
    BY <1>0, <2>1 DEF Basics
  <2>3. \A s \in Servers \ {t} : /\ state'[s] = state[s]
                                 /\ sinceTransition'[s] = sinceTransition[s]
    BY <1>0, <2>1 DEF Enter
  <2> QED
    BY <1>0, <2>1, <2>2, <2>3 DEF ServerKept, MayTurnOn
<1>4. ASSUME NEW t \in Servers,
             \/ HandleDrainNotDone(t)
             \/ \E v \in Services : HandleReplicaReady(t, v) \/ HandleReplicaTerminated(t, v)
      PROVE  \A s \in Servers : ServerKept(s)
  <2>1. UNCHANGED <<state, sinceTransition, isEmergency>>
    BY <1>4 DEF HandleDrainNotDone, HandleReplicaReady, HandleReplicaTerminated
  <2> QED
    BY <1>0, <2>1 DEF ServerKept, MayTurnOn
<1> QED
  BY <1>1, <1>2, <1>3, <1>4 DEF HandleEvent

\* A server that hosts no more than it did can still host what it could.
LEMMA CanStillHost ==
  ASSUME NEW s \in Servers, NEW v \in Services, CanHost(s, v),
         \A u \in Services : replica'[s][u].state # "NONE" => replica[s][u].state # "NONE"
  PROVE  CanHost(s, v)'
<1>1. HostedOn(s)' \subseteq HostedOn(s) /\ HostedOn(s) \in SUBSET Services
  BY DEF HostedOn, Hosts
<1>2. HostedOn(s)' \in SUBSET HostedOn(s)
  BY <1>1
<1> DEFINE now == SumFunctionOnSet(EffMips[s], HostedOn(s))
           then == SumFunctionOnSet(EffMips[s], HostedOn(s)')
<1>3. now \in Nat /\ then \in Nat /\ then <= now
  BY <1>1, <1>2, Reserved
<1>4. Free[s] = Capacity[s] - now /\ Free'[s] = Capacity[s] - then
  BY UsedType, UsedTypeNext
<1>5. Capacity[s] \in Nat /\ EffMips[s][v] \in Nat
  BY DemandAssumption
<1> HIDE DEF now, then
<1>6. Free'[s] >= EffMips[s][v]
  BY <1>3, <1>4, <1>5 DEF CanHost
<1> QED
  BY <1>6 DEF CanHost, Hosts


LEMMA TypeLater == ASSUME SimInv, AdvanceClock \/ HandleEvent PROVE TypeOK'
BY NextType DEF SimInv, Inv, Next

\* What a mask allows for v, it still allows after a step between two ticks.
LEMMA ScaleMaskLasts ==
  ASSUME SimInv, AdvanceClock \/ HandleEvent, NEW v \in Services, NEW d \in ScaleMask(v),
         d = "SCALE_DOWN" => NoReadySource(v)
  PROVE  d \in ScaleMask(v)' /\ (d = "SCALE_DOWN" => NoReadySource(v)')
<1>1. \A s \in Servers : ReplicaKept(s, v) /\ \A u \in Services : ReplicaKept(s, u)
  BY AdvanceKeeps, EventKeeps
<1>2. /\ \A s \in Servers : ServerKept(s)
      /\ sinceScale[v] >= Cooldown => sinceScale'[v] >= Cooldown
  BY AdvanceServers, EventKeepsServers
<1>3. CASE d = "SCALE_UP"
  <2>1. sinceScale[v] >= Cooldown /\ \E s \in Servers : state[s] = "ACTIVE" /\ CanHost(s, v)
    BY <1>3 DEF ScaleMask, MayScaleUp, Hostable
  <2>2. PICK s \in Servers : state[s] = "ACTIVE" /\ CanHost(s, v)
    BY <2>1
  <2>3. CanHost(s, v)' /\ state'[s] = "ACTIVE"
    BY <1>1, <1>2, <2>2, CanStillHost DEF ReplicaKept, ServerKept
  <2>4. MayScaleUp(v)'
    BY <1>2, <2>1, <2>3 DEF MayScaleUp, Hostable
  <2> QED
    BY <1>3, <2>4 DEF ScaleMask
<1>4. CASE d = "SCALE_DOWN"
  <2>1. NoReadySource(v) /\ sinceScale[v] >= Cooldown /\ OthersReady(v) /\ MatureOf(v) # {}
    BY <1>4 DEF ScaleMask, MayScaleDown
  <2>2. ASSUME NEW s \in ReadyOf(v)
        PROVE  s \in ReadyOf(v)' /\ replica'[s][v].age >= replica[s][v].age
    <3>1. s \in Servers /\ replica[s][v].state = "READY" /\ s # None
      BY ServersAssumption DEF ReadyOf
    <3>2. \A t \in Servers : pending[t][v] # s
      BY <2>1, <3>1 DEF NoReadySource
    <3> QED
      BY <1>1, <3>1, <3>2 DEF ReplicaKept, ReadyOf
  <2>3. OthersReady(v)'
    <3>1. ReadyOf(v) \subseteq ReadyOf(v)' /\ ReadyOf(v)' \subseteq Servers /\ ReadyOf(v) \subseteq Servers
      BY <2>2 DEF ReadyOf
    <3>2. IsFiniteSet(ReadyOf(v)') /\ IsFiniteSet(ReadyOf(v))
      BY <3>1, ServersAssumption, FS_Subset
    <3>3. Cardinality(ReadyOf(v)) <= Cardinality(ReadyOf(v)')
      BY <3>1, <3>2, FS_Subset
    <3>4. Cardinality(ReadyOf(v)) \in Nat /\ Cardinality(ReadyOf(v)') \in Nat
      BY <3>2, FS_CardinalityType
    <3> QED
      BY <2>1, <3>3, <3>4 DEF OthersReady
  <2>4. MatureOf(v)' # {}
    <3>1. PICK s \in ReadyOf(v) : replica[s][v].age >= MinReplicaAge
      BY <2>1 DEF MatureOf
    <3>2. s \in ReadyOf(v)' /\ replica'[s][v].age >= replica[s][v].age
      BY <2>2
    <3>3. replica[s][v].age \in Int /\ replica'[s][v].age \in Int /\ MinReplicaAge \in Int
      <4>1. replica[s][v] \in ReplicaRecord /\ MinReplicaAge \in Nat
        BY DelaysType DEF SimInv, Inv, TypeOK, ReadyOf
      <4>2. replica'[s][v] \in ReplicaRecord
        <5>1. TypeOK'
          BY TypeLater
        <5> QED
          BY <5>1 DEF TypeOK, ReadyOf
      <4> QED
        BY <4>1, <4>2 DEF ReplicaRecord
    <3> QED
      BY <3>1, <3>2, <3>3 DEF MatureOf
  <2>5. NoReadySource(v)'
    <3> SUFFICES ASSUME NEW t \in Servers, pending'[t][v] # None
                 PROVE  replica'[pending'[t][v]][v].state # "READY"
      BY DEF NoReadySource
    <3>1. pending'[t][v] = pending[t][v]
      BY <1>1 DEF ReplicaKept
    <3>2. pending[t][v] \in Servers /\ replica[pending[t][v]][v].state # "READY"
      <4>1. pending[t][v] \in Servers \cup {None}
        BY BasicsHold DEF SimInv, Basics
      <4> QED
        BY <2>1, <3>1, <4>1 DEF NoReadySource
    <3> QED
      BY <1>1, <3>1, <3>2 DEF ReplicaKept
  <2>6. MayScaleDown(v)'
    BY <1>2, <2>1, <2>3, <2>4 DEF MayScaleDown
  <2> QED
    BY <1>4, <2>5, <2>6 DEF ScaleMask
<1>5. CASE d = "NO_CHANGE"
  BY <1>5 DEF ScaleMask
<1> QED
  BY <1>3, <1>4, <1>5 DEF ScaleMask

\* What the mask allows for the servers, it allows for ever longer.
LEMMA ServerMaskLasts ==
  ASSUME SimInv, AdvanceClock \/ HandleEvent
  PROVE  ServerMask \subseteq ServerMask'
<1>1. \A s \in Servers : ServerKept(s)
  BY AdvanceServers, EventKeepsServers
<1>2. Cardinality(Active) > 1 => Cardinality(Active') > 1
  <2>1. Active \subseteq Active' /\ Active \subseteq Servers /\ Active' \subseteq Servers
    BY <1>1 DEF Active, ServerKept
  <2>2. IsFiniteSet(Active') /\ IsFiniteSet(Active)
    BY <2>1, ServersAssumption, FS_Subset
  <2>3. Cardinality(Active) <= Cardinality(Active')
    BY <2>1, <2>2, FS_Subset
  <2>4. Cardinality(Active) \in Nat /\ Cardinality(Active') \in Nat
    BY <2>2, FS_CardinalityType
  <2> QED
    BY <2>3, <2>4
<1>3. ASSUME NEW s \in Servers, MayTurnOn(s) PROVE MayTurnOn(s)'
  BY <1>1, <1>3 DEF ServerKept, MayTurnOn
<1>4. ASSUME NEW s \in Servers, MayTurnOff(s) PROVE MayTurnOff(s)'
  <2>1. sinceTransition[s] \in Int /\ sinceTransition'[s] \in Int /\ Cooldown \in Int /\ MinActive \in Int
    <3>1. TypeOK'
      BY TypeLater
    <3> QED
      BY <3>1, DelaysType DEF SimInv, Inv, TypeOK
  <2> QED
    BY <1>1, <1>2, <1>4, <2>1 DEF ServerKept, MayTurnOff
<1> QED
  BY <1>3, <1>4 DEF ServerMask, OneServer, TurnOns, TurnOffs


----------------------------------------------------------------------------
(* Why a decision that a mask allows is refused.                           *)

\* A mask that is as old as the last tick still holds.
MaskHolds ==
  /\ mask[0] \subseteq ServerMask
  /\ \A v \in Services : /\ mask[v] \subseteq ScaleMask(v)
                         /\ "SCALE_DOWN" \in mask[v] => NoReadySource(v)

\* The causes that RefusalsHaveACause admits.
Excused(v, d) ==
  TurnedOff \/ (d = "SCALE_UP" /\ \E u \in 1..(v - 1) : applied[u] = "SCALE_UP")

\* Within a tick, what the mask allows may be applied or has a cause not to be.
MaskOrCause ==
  \A v \in Services : turn <= v => \A d \in mask[v] : d \in ScaleMask(v) \/ Excused(v, d)

RefusalInv ==
  /\ algorithm \in {"greedy", "hpa", "voila", "ppo", "ppo_train"}
  /\ FlapInv /\ DOMAIN decided = 0..NServices
  /\ algorithm = "ppo_train" /\ turn = 0 => MaskHolds
  /\ ~Reactive /\ turn # 0 => MaskOrCause
  /\ RefusalsHaveACause

\* The parts of a mask.
LEMMA MaskIs == Mask[0] = ServerMask /\ \A v \in Services : Mask[v] = ScaleMask(v)
<1>1. 0 \in 0..NServices /\ \A v \in Services : v \in 0..NServices /\ v # 0
  BY ServicesAssumption DEF Services
<1> QED
  BY <1>1 DEF Mask

\* What a mask allows for a service lasts while replicas, cooldowns and ACTIVE
\* servers do.
LEMMA MaskStays ==
  ASSUME UNCHANGED <<replica, sinceScale>>, NEW v \in Services,
         \A s \in Servers : state[s] = "ACTIVE" => state'[s] = "ACTIVE"
  PROVE  ScaleMask(v) \subseteq ScaleMask(v)'
<1>1. \A s \in Servers : CanHost(s, v) => CanHost(s, v)'
  BY CanStillHost
<1>2. MayScaleUp(v) => MayScaleUp(v)'
  BY <1>1 DEF MayScaleUp, Hostable
<1>3. MayScaleDown(v) => MayScaleDown(v)'
  BY DEF MayScaleDown, OthersReady, MatureOf, ReadyOf
<1> QED
  BY <1>2, <1>3 DEF ScaleMask

\* What a tick decides first is applied, or would interrupt a service.
LEMMA TickRefusals ==
  ASSUME SimInv, RefusalInv, ~Reactive, Tick
  PROVE  turn' = 1 /\ MaskOrCause' /\ RefusalsHaveACause' /\ DOMAIN decided' = 0..NServices
<1>0. /\ algorithm = "ppo" \/ algorithm = "ppo_train"
      /\ turn = 0 /\ UNCHANGED algorithm
      /\ mask' = IF algorithm = "ppo" THEN Mask ELSE mask
  BY DEF RefusalInv, Reactive, Tick, TickFires, Fires
<1>1. PICK m : \E done \in BOOLEAN : \E action \in ProvisionDecisions(m) : Ticks(m, action, done)
  BY TickCases
<1>2. PICK done \in BOOLEAN : \E action \in ProvisionDecisions(m) : Ticks(m, action, done)
  BY <1>1
<1>b. PICK action \in ProvisionDecisions(m) : Ticks(m, action, done)
  BY <1>2
<1>3. /\ action \in ProvisionDecisions(m)
      /\ ApplyProvisioning(action, done)
      /\ decided' = [Nothing EXCEPT ![0] = action]
      /\ applied' = [Nothing EXCEPT ![0] = IF done THEN action ELSE NoAction]
  BY <1>b DEF Ticks
<1>4. /\ action \in ServerMask
      /\ \A v \in Services : mask'[v] \subseteq ScaleMask(v)
  <2>1. CASE algorithm = "ppo"
    <3>1. ProvisionDecisions(m) = Mask[0]
      BY <2>1 DEF ProvisionDecisions
    <3> QED
      BY <1>0, <1>3, <2>1, <3>1, MaskIs
  <2>2. CASE algorithm = "ppo_train"
    <3>1. ProvisionDecisions(m) = mask[0]
      BY <2>2 DEF ProvisionDecisions
    <3>2. MaskHolds
      BY <1>0, <2>2 DEF RefusalInv
    <3>3. mask' = mask
      BY <1>0, <2>2
    <3> QED
      BY <1>3, <3>1, <3>2, <3>3 DEF MaskHolds
  <2> QED
    BY <1>0, <2>1, <2>2
<1>5. /\ decided'[0] = action /\ applied'[0] = IF done THEN action ELSE NoAction
      /\ DOMAIN decided' = 0..NServices
      /\ \A v \in Services : decided'[v] = "NO_CHANGE" /\ applied'[v] = "NO_CHANGE"
  <2>1. 0 \in 0..NServices /\ \A v \in Services : v \in 0..NServices /\ v # 0
    BY ServicesAssumption DEF Services
  <2> QED
    BY <1>3, <2>1 DEF Nothing
<1>6. ASSUME turn' = 1, TurnedOff' \/ \A v \in Services : ScaleMask(v) \subseteq ScaleMask(v)',
             action # applied'[0] => action[1] = "TURN_OFF" /\ SoleHosted(action[2])' # {}
      PROVE  turn' = 1 /\ MaskOrCause' /\ RefusalsHaveACause' /\ DOMAIN decided' = 0..NServices
  <2>1. MaskOrCause'
    BY <1>4, <1>6 DEF MaskOrCause, Excused
  <2>2. RefusalsHaveACause'
    BY <1>5, <1>6 DEF RefusalsHaveACause
  <2> QED
    BY <1>5, <1>6, <2>1, <2>2
<1>7. ASSUME NEW s \in Servers, done, TurnOn(s)
      PROVE  turn' = 1 /\ \A v \in Services : ScaleMask(v) \subseteq ScaleMask(v)'
  <2>1. UNCHANGED <<replica, sinceScale>> /\ turn' = 1 /\ state[s] = "OFF" /\ StartBoot({s}, FALSE)
    BY <1>7 DEF TurnOn, MayTurnOn
  <2>2. \A t \in Servers : state[t] = "ACTIVE" => state'[t] = "ACTIVE"
    BY <2>1 DEF StartBoot
  <2> QED
    BY <2>1, <2>2, MaskStays
<1>8. ASSUME NEW s \in Servers, done, action = <<"TURN_OFF", s>>, TurnOff(s)
      PROVE  turn' = 1 /\ TurnedOff'
  BY <1>5, <1>8 DEF TurnOff, TurnedOff
<1>9. ASSUME NEW s \in Servers, ~done, action = <<"TURN_OFF", s>>, AbortTurnOff(s)
      PROVE  /\ turn' = 1 /\ \A v \in Services : ScaleMask(v) \subseteq ScaleMask(v)'
             /\ SoleHosted(s)' # {}
  <2>1. UNCHANGED <<replica, sinceScale>> /\ turn' = 1
    BY <1>9 DEF AbortTurnOff
  <2>2. \E S, moved : /\ SoleHosted(s) \ moved # {}
                      /\ \A t \in S : state[t] = "OFF"
                      /\ StartBoot(S, TRUE)
    <3>1. PICK e \in heap, n \in MigrationPlans(s) : \E moved \in Packings(RawMips, n, Free) :
             LET unmigrated == SoleHosted(s) \ moved
                 waiting == {v \in unmigrated : emergencyBoot[v] = None}
             IN /\ unmigrated # {}
                /\ \E p \in EmergencyPlans(waiting) : StartBoot({p[v] : v \in waiting} \ {None}, TRUE)
      BY <1>9 DEF AbortTurnOff
    <3>2. PICK moved : 
             LET unmigrated == SoleHosted(s) \ moved
                 waiting == {v \in unmigrated : emergencyBoot[v] = None}
             IN /\ unmigrated # {}
                /\ \E p \in EmergencyPlans(waiting) : StartBoot({p[v] : v \in waiting} \ {None}, TRUE)
      BY <3>1
    <3> DEFINE waiting == {v \in SoleHosted(s) \ moved : emergencyBoot[v] = None}
    <3>3. PICK p \in EmergencyPlans(waiting) : StartBoot({p[v] : v \in waiting} \ {None}, TRUE)
      BY <3>2
    <3>4. \A v \in waiting : p[v] = None \/ state[p[v]] = "OFF"
      BY DEF EmergencyPlans, EmergencyTargets
    <3> HIDE DEF waiting
    <3>5. \A t \in {p[v] : v \in waiting} \ {None} : state[t] = "OFF"
      BY <3>4
    <3> QED
      BY <3>2, <3>3, <3>5
  <2>3. \A t \in Servers : state[t] = "ACTIVE" => state'[t] = "ACTIVE"
    BY <2>2 DEF StartBoot
  <2>4. SoleHosted(s)' = SoleHosted(s) /\ SoleHosted(s) # {}
    BY <2>1, <2>2 DEF SoleHosted, HostedOn, Hosts
  <2> QED
    BY <2>1, <2>3, <2>4, MaskStays
<1>10. ASSUME ~done, ~PassesGates(action), NoProvisioning
       PROVE  /\ turn' = 1 /\ \A v \in Services : ScaleMask(v) \subseteq ScaleMask(v)'
              /\ action = NoAction
  <2>1. UNCHANGED <<replica, sinceScale, state>> /\ turn' = 1
    BY <1>10 DEF NoProvisioning
  <2>2. action = NoAction
    BY <1>4, <1>10 DEF ServerMask, OneServer, TurnOns, TurnOffs, PassesGates
  <2> QED
    BY <2>1, <2>2, MaskStays
<1>11. CASE \E s \in Servers : done /\ action = <<"TURN_ON", s>> /\ TurnOn(s)
  BY <1>5, <1>6, <1>7, <1>11
<1>12. CASE \E s \in Servers : done /\ action = <<"TURN_OFF", s>> /\ TurnOff(s)
  BY <1>5, <1>6, <1>8, <1>12
<1>13. CASE \E s \in Servers : ~done /\ action = <<"TURN_OFF", s>> /\ AbortTurnOff(s)
  <2>1. PICK s \in Servers : ~done /\ action = <<"TURN_OFF", s>> /\ AbortTurnOff(s)
    BY <1>13
  <2>2. action[1] = "TURN_OFF" /\ action[2] = s
    BY <2>1
  <2> QED
    BY <1>6, <1>9, <2>1, <2>2
<1>14. CASE ~done /\ ~PassesGates(action) /\ NoProvisioning
  BY <1>5, <1>6, <1>10, <1>14
<1> QED
  BY <1>3, <1>11, <1>12, <1>13, <1>14 DEF ApplyProvisioning


\* A decision about v leaves what the mask allows the services after it, or is a
\* scale-up that takes their room.
LEMMA DecideKeepsMask ==
  ASSUME SimInv, FlapInv, NEW v \in Services, Decide(v)
  PROVE  /\ turn = v
         /\ \/ applied'[v] = "SCALE_UP"
            \/ \A w \in Services : w # v => \A d \in ScaleMask(w) : d = "SCALE_UP" => d \in ScaleMask(w)'
         /\ \A w \in Services : w # v => \A d \in ScaleMask(w) : d # "SCALE_UP" => d \in ScaleMask(w)'
         /\ \A s \in Servers, w \in Services :
              replica'[s][w].state = "READY" => replica[s][w].state = "READY"
         /\ UNCHANGED <<state, pending>>
<1>1. PICK d \in ScaleDecisions(v) :
        /\ ApplyScale(v, d)
        /\ applied' = [applied EXCEPT ![v] = IF MayApply(v, d) THEN d ELSE @]
  BY Zenon DEF Decide
<1>2. turn = v /\ v # 0 /\ v \in 0..NServices
  BY ServicesAssumption DEF Decide, Services
<1>3. UNCHANGED <<state, pending>>
  <2>1. ASSUME NEW t, ScaleUp(v, t) PROVE UNCHANGED <<state, pending>>
    BY <2>1 DEF ScaleUp
  <2>2. ASSUME NEW t, ScaleDown(v, t) PROVE UNCHANGED <<state, pending>>
    BY <2>2 DEF ScaleDown
  <2>3. ASSUME NoScale(v) PROVE UNCHANGED <<state, pending>>
    BY <2>3 DEF NoScale
  <2> QED
    BY <1>1, <2>1, <2>2, <2>3 DEF ApplyScale
<1> DEFINE Unmoved(w) == /\ \A s \in Servers : replica'[s][w] = replica[s][w]
                      /\ sinceScale'[w] = sinceScale[w]
           Serve == \A s \in Servers, w \in Services :
                      replica'[s][w].state = "READY" => replica[s][w].state = "READY"
           Room == \A s \in Servers, w \in Services :
                     replica'[s][w].state # "NONE" => replica[s][w].state # "NONE"
<1>4. CASE d = "SCALE_UP" /\ \E t \in Placements(algorithm, v) : ScaleUp(v, t)
  <2>1. PICK t : ScaleUp(v, t) /\ t \in Placements(algorithm, v)
    BY <1>4
  <2>2. t \in Servers
    BY <2>1 DEF Placements, Emptiest, Fit, Active
  <2>3. MayScaleUp(v)
    BY <2>1, <2>2 DEF ScaleUp, MayScaleUp, Hostable
  <2>4. applied'[v] = "SCALE_UP"
    BY <1>1, <1>2, <1>4, <2>3 DEF MayApply, FlapInv
  <2>5. replica' = Place(replica, {<<t, v>>}) /\ sinceScale' = [sinceScale EXCEPT ![v] = 0]
    BY <2>1 DEF ScaleUp
  <2>6. \A s \in Servers, w \in Services :
          replica'[s][w] = IF s = t /\ w = v THEN Created ELSE replica[s][w]
    BY <2>5 DEF Place
  <2>7. Serve
    BY <2>6 DEF Created
  <2>a. sinceScale \in [Services -> 0..Cooldown]
    BY TypePartsOK DEF SimInv, Inv, TypeParts
  <2>8. ASSUME NEW w \in Services, w # v PROVE Unmoved(w)
    <3>1. sinceScale'[w] = sinceScale[w]
      BY <2>5, <2>8, <2>a
    <3> QED
      BY <2>6, <2>8, <3>1
  <2> QED
    <3>1. ASSUME NEW w \in Services, w # v, NEW c \in ScaleMask(w), c # "SCALE_UP"
          PROVE  c \in ScaleMask(w)'
      <4>1. Unmoved(w)
        BY <2>8, <3>1
      <4>2. MayScaleDown(w) => MayScaleDown(w)'
        BY <4>1 DEF MayScaleDown, OthersReady, MatureOf, ReadyOf
      <4> QED
        BY <3>1, <4>2 DEF ScaleMask
    <3> QED
      BY <1>2, <1>3, <2>4, <2>7, <3>1
<1>5. ASSUME Serve, Room, \A w \in Services : w # v => Unmoved(w)
      PROVE  \A w \in Services : w # v => \A c \in ScaleMask(w) : c \in ScaleMask(w)'
  <2> SUFFICES ASSUME NEW w \in Services, w # v, NEW c \in ScaleMask(w)
               PROVE  c \in ScaleMask(w)'
    OBVIOUS
  <2>1. Unmoved(w)
    BY <1>5
  <2>2. MayScaleDown(w) => MayScaleDown(w)'
    BY <2>1 DEF MayScaleDown, OthersReady, MatureOf, ReadyOf
  <2>3. \A s \in Servers : CanHost(s, w) => CanHost(s, w)'
    BY <1>5, CanStillHost
  <2>4. MayScaleUp(w) => MayScaleUp(w)'
    BY <1>3, <2>1, <2>3 DEF MayScaleUp, Hostable
  <2> QED
    BY <2>2, <2>4 DEF ScaleMask
<1>6. CASE d = "SCALE_DOWN" /\ \E s \in MatureOf(v) : ScaleDown(v, s)
  <2>1. PICK s : ScaleDown(v, s) /\ s \in MatureOf(v)
    BY <1>6
  <2>2. PICK x \in Backlogs :
          /\ replica' = Draining(replica, {<<s, v>>}, [u \in Services |-> x])
          /\ sinceScale' = [sinceScale EXCEPT ![v] = 0]
    BY <2>1 DEF ScaleDown
  <2>3. s \in Servers /\ replica[s][v].state = "READY"
    BY <2>1 DEF MatureOf, ReadyOf
  <2>4. \A t \in Servers, w \in Services : ~(t = s /\ w = v) => replica'[t][w] = replica[t][w]
    BY <2>2 DEF Draining
  <2>5. Serve /\ Room
    <3>1. ASSUME NEW t \in Servers, NEW w \in Services
          PROVE  /\ replica'[t][w].state = "READY" => replica[t][w].state = "READY"
                 /\ replica'[t][w].state # "NONE" => replica[t][w].state # "NONE"
      <4>1. CASE t = s /\ w = v
        BY <2>3, <4>1
      <4>2. CASE ~(t = s /\ w = v)
        BY <2>4, <4>2
      <4> QED
        BY <4>1, <4>2
    <3> QED
      BY <3>1
  <2>a. sinceScale \in [Services -> 0..Cooldown]
    BY TypePartsOK DEF SimInv, Inv, TypeParts
  <2>6. ASSUME NEW w \in Services, w # v
        PROVE  Unmoved(w)
    <3>1. \A t \in Servers : replica'[t][w] = replica[t][w]
      BY <2>4, <2>6
    <3>2. sinceScale'[w] = sinceScale[w]
      BY <2>2, <2>6, <2>a
    <3> QED
      BY <3>1, <3>2
  <2> QED
    BY <1>2, <1>3, <1>5, <2>5, <2>6
<1>7. CASE NoScale(v)
  <2>1. UNCHANGED <<replica, sinceScale>>
    BY <1>7 DEF NoScale
  <2>2. Serve /\ Room /\ \A w \in Services : w # v => Unmoved(w)
    BY <2>1
  <2> QED
    BY <1>2, <1>3, <1>5, <2>2
<1> QED
  BY <1>1, <1>4, <1>6, <1>7 DEF ApplyScale

\* What a decision about a service does to the reasons.
LEMMA DecideRefusals ==
  ASSUME SimInv, RefusalInv, ~Reactive, NEW v \in Services, Decide(v)
  PROVE  /\ DOMAIN decided' = 0..NServices
         /\ turn' # 0 => MaskOrCause'
         /\ RefusalsHaveACause'
         /\ algorithm = "ppo_train" /\ turn' = 0 => MaskHolds'
<1>0. /\ FlapInv /\ DOMAIN decided = 0..NServices /\ DOMAIN applied = 0..NServices
      /\ algorithm \in {"ppo", "ppo_train"} /\ UNCHANGED algorithm
      /\ v # 0 /\ v \in 0..NServices /\ v \in Nat
      /\ turn = v /\ MaskOrCause /\ applied[v] = "NO_CHANGE"
      /\ RefusalsHaveACause
  <2>1. turn = v /\ v # 0 /\ v \in 0..NServices /\ v \in Nat /\ UNCHANGED algorithm
    BY ServicesAssumption DEF Decide, Services
  <2>2. v <= v
    BY <2>1
  <2> QED
    BY <2>1, <2>2 DEF RefusalInv, FlapInv, Reactive
<1>1. PICK d \in ScaleDecisions(v) :
        /\ ApplyScale(v, d)
        /\ decided' = [decided EXCEPT ![v] = d]
        /\ applied' = [applied EXCEPT ![v] = IF MayApply(v, d) THEN d ELSE @]
  BY Zenon DEF Decide
<1>2. mask' = IF algorithm = "ppo_train" /\ turn' = 0 THEN Mask' ELSE mask
  BY DEF Decide
<1>3. turn' = 0 \/ turn' = v + 1
  <2>1. \E u \in Services : \E h : turn = u /\ EndScale(u, h)
    BY DecideIsScale DEF Scale, NoScale, ScaleUp, ScaleDown
  <2> QED
    BY <1>0, <2>1 DEF EndScale
<1>4. d \in mask[v]
  BY <1>0 DEF ScaleDecisions
<1>5. /\ DOMAIN decided' = 0..NServices /\ decided'[v] = d
      /\ applied'[v] = IF MayApply(v, d) THEN d ELSE "NO_CHANGE"
      /\ \A i \in 0..NServices : i # v => decided'[i] = decided[i] /\ applied'[i] = applied[i]
  BY <1>0, <1>1
<1>6. TurnedOff' <=> TurnedOff
  <2>1. 0 \in 0..NServices
    BY ServicesAssumption
  <2> QED
    BY <1>0, <1>5, <2>1 DEF TurnedOff
<1>7. \A w \in Services : \A c : Excused(w, c) => Excused(w, c)'
  <2> SUFFICES ASSUME NEW w \in Services, NEW c, Excused(w, c), ~TurnedOff
               PROVE  Excused(w, c)'
    BY <1>6 DEF Excused
  <2>1. PICK u \in 1..(w - 1) : applied[u] = "SCALE_UP" /\ c = "SCALE_UP"
    BY DEF Excused
  <2>2. u # v /\ u \in 0..NServices
    BY <1>0, <2>1, ServicesAssumption DEF Services
  <2>3. applied'[u] = "SCALE_UP"
    BY <1>5, <2>1, <2>2
  <2> QED
    BY <2>1, <2>3 DEF Excused
<1>8. d # "NO_CHANGE" /\ ~MayApply(v, d) => Excused(v, d)
  <2>1. d \in ScaleMask(v) \/ Excused(v, d)
    <3>1. v <= v
      BY <1>0
    <3> QED
      BY <1>0, <1>4, <3>1 DEF MaskOrCause
  <2>2. d \in ScaleMask(v) => d = "NO_CHANGE" \/ MayApply(v, d)
    BY DEF ScaleMask, MayApply
  <2> QED
    BY <2>1, <2>2
<1>9. RefusalsHaveACause'
  <2>1. ASSUME NEW w \in Services, NEW c, c = decided'[w], c # applied'[w]
        PROVE  Excused(w, c)'
    <3>1. CASE w = v
      <4>1. c = d /\ d # "NO_CHANGE" /\ ~MayApply(v, d)
        BY <1>5, <2>1, <3>1
      <4>2. Excused(v, d)
        BY <1>8, <4>1
      <4> QED
        BY <1>7, <3>1, <4>1, <4>2
    <3>2. CASE w # v
      <4>1. w \in 0..NServices
        BY ServicesAssumption DEF Services
      <4>2. c = decided[w] /\ c # applied[w]
        BY <1>5, <2>1, <3>2, <4>1
      <4>3. Excused(w, c)
        BY <1>0, <4>2 DEF RefusalsHaveACause, Excused, Reactive
      <4> QED
        BY <1>7, <4>3
    <3> QED
      BY <3>1, <3>2
  <2>2. turn' # 1
    BY <1>0, <1>3, ServicesAssumption DEF Services
  <2> QED
    BY <2>1, <2>2 DEF RefusalsHaveACause, Excused
<1>10. ASSUME turn' # 0 PROVE MaskOrCause'
  <2> SUFFICES ASSUME NEW w \in Services, turn' <= w, NEW c \in mask'[w]
               PROVE  (c \in ScaleMask(w))' \/ Excused(w, c)'
    BY DEF MaskOrCause
  <2>1. mask' = mask /\ turn' = v + 1 /\ v < w /\ v <= w /\ w # v
    BY <1>0, <1>2, <1>3, <1>10, ServicesAssumption DEF Services
  <2>2. c \in ScaleMask(w) \/ Excused(w, c)
    BY <1>0, <2>1 DEF MaskOrCause
  <2>3. CASE Excused(w, c)
    BY <1>7, <2>3
  <2>4. CASE c \in ScaleMask(w) /\ c # "SCALE_UP"
    BY <1>0, <2>1, <2>4, DecideKeepsMask
  <2>5. CASE c \in ScaleMask(w) /\ c = "SCALE_UP"
    <3>1. applied'[v] = "SCALE_UP" \/ c \in ScaleMask(w)'
      BY <1>0, <2>1, <2>5, DecideKeepsMask
    <3>2. v \in 1..(w - 1)
      BY <1>0, <2>1, ServicesAssumption DEF Services
    <3> QED
      BY <2>5, <3>1, <3>2 DEF Excused
  <2> QED
    BY <2>2, <2>3, <2>4, <2>5
<1>11. ASSUME algorithm = "ppo_train", turn' = 0 PROVE MaskHolds'
  <2>1. mask' = Mask'
    BY <1>2, <1>11
  <2>2. mask'[0] = ServerMask' /\ \A w \in Services : mask'[w] = ScaleMask(w)'
    <3>1. 0 \in 0..NServices /\ \A w \in Services : w \in 0..NServices /\ w # 0
      BY ServicesAssumption DEF Services
    <3> QED
      BY <2>1, <3>1 DEF Mask
  <2>3. ASSUME NEW w \in Services, "SCALE_DOWN" \in ScaleMask(w)' PROVE NoReadySource(w)'
    <3> SUFFICES ASSUME NEW t \in Servers, pending'[t][w] # None,
                        replica'[pending'[t][w]][w].state = "READY"
                 PROVE  FALSE
      BY DEF NoReadySource
    <3> DEFINE s == pending[t][w]
    <3>1. pending' = pending /\ \A o \in Servers :
            replica'[o][w].state = "READY" => replica[o][w].state = "READY"
      BY <1>0, DecideKeepsMask
    <3>2. s # None /\ turn # 0
      BY <1>0, <3>1
    <3>3. \A o \in Servers : replica[o][w].state = "READY" => o = s
      BY <3>2 DEF SimInv, FleetOK, PendingOK
    <3>4. ReadyOf(w)' \subseteq {s}
      BY <3>1, <3>3 DEF ReadyOf
    <3>5. Cardinality(ReadyOf(w)') <= 1
      <4>1. IsFiniteSet({s}) /\ Cardinality({s}) = 1
        BY FS_Singleton
      <4> QED
        BY <3>4, <4>1, FS_Subset
    <3>6. Cardinality(ReadyOf(w)') > 1
      BY <2>3 DEF ScaleMask, MayScaleDown, OthersReady
    <3>7. IsFiniteSet(ReadyOf(w)')
      BY <3>4, FS_Singleton, FS_Subset
    <3> QED
      BY <3>5, <3>6, <3>7, FS_CardinalityType
  <2> QED
    BY <2>2, <2>3 DEF MaskHolds
<1> QED
  BY <1>5, <1>9, <1>10, <1>11

LEMMA RefusalInit == DecisionsInit => RefusalInv
<1> SUFFICES ASSUME DecisionsInit PROVE RefusalInv
  OBVIOUS
<1>1. FlapInv
  BY FlapInit
<1>2. /\ turn = 0 /\ \A t \in Servers, v \in Services : pending[t][v] = None
  BY DEF DecisionsInit, Init
<1>3. /\ decided = Nothing /\ applied = Nothing
  BY DEF DecisionsInit, ReportIs
<1>4. algorithm \in {"greedy", "hpa", "voila", "ppo", "ppo_train"}
  BY AlgorithmsAssumption DEF DecisionsInit
<1>5. ASSUME algorithm = "ppo_train" PROVE MaskHolds
  <2>1. mask = Mask
    BY <1>5 DEF DecisionsInit
  <2> QED
    BY <1>2, <2>1, MaskIs DEF MaskHolds, NoReadySource
<1>6. RefusalsHaveACause
  BY <1>2, <1>3 DEF RefusalsHaveACause
<1> QED
  BY <1>1, <1>2, <1>3, <1>4, <1>5, <1>6 DEF RefusalInv, Nothing

\* The invariant is inductive, in the states the engine can be in.
LEMMA RefusalNext == SimInv /\ RefusalInv /\ [DecisionsNext]_allVars => RefusalInv'
<1> SUFFICES ASSUME SimInv, RefusalInv, [DecisionsNext]_allVars PROVE RefusalInv'
  OBVIOUS
<1>0. FlapInv'
  BY FlapNext DEF RefusalInv
<1>a. UNCHANGED algorithm
  BY DEF DecisionsNext, TimePasses, EventHandled, Tick, Decide, allVars
<1>b. Reactive' <=> Reactive
  BY <1>a DEF Reactive
<1>c. ASSUME UNCHANGED mask, AdvanceClock \/ HandleEvent, MaskHolds PROVE MaskHolds'
  <2>1. mask'[0] \subseteq ServerMask'
    BY <1>c, ServerMaskLasts DEF MaskHolds
  <2>2. ASSUME NEW v \in Services, NEW d \in mask'[v]
        PROVE  d \in ScaleMask(v)' /\ (d = "SCALE_DOWN" => NoReadySource(v)')
    <3>1. d \in ScaleMask(v) /\ (d = "SCALE_DOWN" => NoReadySource(v))
      BY <1>c, <2>2 DEF MaskHolds
    <3> QED
      BY <1>c, <3>1, ScaleMaskLasts
  <2> QED
    BY <2>1, <2>2 DEF MaskHolds
<1>1. CASE TimePasses
  <2>1. /\ AdvanceClock /\ decided' = Nothing /\ applied' = Nothing
        /\ algorithm = "ppo_train" => mask' = mask
    BY <1>1 DEF TimePasses
  <2>2. turn = 0 /\ turn' = 0
    BY <2>1, AdvanceServers
  <2>3. algorithm = "ppo_train" => MaskHolds'
    BY <1>c, <2>1, <2>2 DEF RefusalInv
  <2>4. RefusalsHaveACause'
    BY <2>1, <2>2 DEF RefusalsHaveACause
  <2> QED
    BY <1>0, <1>a, <2>1, <2>2, <2>3, <2>4 DEF RefusalInv, Nothing
<1>2. CASE EventHandled
  <2>1. HandleEvent /\ UNCHANGED <<decided, applied, mask>>
    BY <1>2 DEF EventHandled, report
  <2>2. turn = 0 /\ turn' = 0
    BY <2>1, EventsKeepTurn
  <2>3. algorithm = "ppo_train" => MaskHolds'
    BY <1>c, <2>1, <2>2 DEF RefusalInv
  <2>4. RefusalsHaveACause'
    BY <1>b, <2>1, <2>2 DEF RefusalsHaveACause, RefusalInv, TurnedOff
  <2> QED
    BY <1>0, <1>a, <2>1, <2>2, <2>3, <2>4 DEF RefusalInv
<1>3. CASE Tick
  <2>1. CASE ~Reactive
    BY <1>0, <1>3, <1>a, <2>1, TickRefusals DEF RefusalInv
  <2>2. CASE Reactive
    <3>1. RefusalsHaveACause' /\ algorithm # "ppo_train"
      BY <1>b, <2>2 DEF RefusalsHaveACause, Reactive
    <3>2. PICK x : decided' = [Nothing EXCEPT ![0] = x]
      BY <1>3, TickCases DEF Ticks
    <3> QED
      BY <1>0, <1>a, <1>b, <2>2, <3>1, <3>2 DEF RefusalInv, Nothing
  <2> QED
    BY <2>1, <2>2
<1>4. ASSUME NEW v \in Services, Decide(v) PROVE RefusalInv'
  <2>1. CASE ~Reactive
    BY <1>0, <1>4, <1>a, <1>b, <2>1, DecideRefusals DEF RefusalInv
  <2>2. CASE Reactive
    <3>1. RefusalsHaveACause' /\ algorithm # "ppo_train"
      BY <1>b, <2>2 DEF RefusalsHaveACause, Reactive
    <3>2. PICK x : decided' = [decided EXCEPT ![v] = x]
      BY <1>4, Zenon DEF Decide
    <3> QED
      BY <1>0, <1>a, <1>b, <2>2, <3>1, <3>2 DEF RefusalInv
  <2> QED
    BY <2>1, <2>2
<1>5. CASE UNCHANGED allVars
  <2>1. UNCHANGED <<heap, state, sinceTransition, isEmergency, replica, pending, emergencyBoot,
                    sinceScale, turn, algorithm, mask, decided, applied>>
    BY <1>5 DEF allVars, engine, report
  <2>2. Free' = Free /\ Active' = Active
    BY <2>1 DEF Free, UsedCpu, HostedOn, Hosts, Active
  <2>3. ServerMask' = ServerMask
    BY <2>1, <2>2 DEF ServerMask, OneServer, MayTurnOn, MayTurnOff
  <2>4. ASSUME NEW v \in Services
        PROVE  ScaleMask(v)' = ScaleMask(v) /\ NoReadySource(v)' = NoReadySource(v)
    BY <2>1, <2>2 DEF ScaleMask, MayScaleUp, MayScaleDown, Hostable, CanHost, Hosts, OthersReady,
                      MatureOf, ReadyOf, NoReadySource
  <2>5. MaskHolds' <=> MaskHolds
    BY <2>1, <2>3, <2>4 DEF MaskHolds
  <2>6. MaskOrCause' <=> MaskOrCause
    BY <2>1, <2>4 DEF MaskOrCause, Excused, TurnedOff
  <2>7. RefusalsHaveACause' <=> RefusalsHaveACause
    BY <2>1 DEF RefusalsHaveACause, TurnedOff, Reactive, SoleHosted, HostedOn, Hosts
  <2> QED
    BY <1>0, <1>b, <2>1, <2>5, <2>6, <2>7 DEF RefusalInv
<1> QED
  BY <1>1, <1>2, <1>3, <1>4, <1>5 DEF DecisionsNext

\* A decision that the mask of PPO allows is applied, even when the mask is as old
\* as the last tick, unless the same tick has taken away what it needs
\* (compute_action_masks, _build_action_masks, _handle_decision_tick): nothing that
\* happens between two ticks disallows it.
THEOREM MaskedDecisionsApply == DecisionsSpec => []RefusalsHaveACause
<1>1. RefusalInv => RefusalsHaveACause
  BY DEF RefusalInv
<1>2. DecisionsSpec => []SimInv
  BY DecisionsImplementEngine, SimInvAlways
<1> QED
  BY <1>1, <1>2, RefusalInit, RefusalNext, PTL DEF DecisionsSpec

----------------------------------------------------------------------------
(* The audit and the algorithms see the same needs.                        *)

\* A need that is visible in the snapshot is one the audit counts, and one that
\* Greedy and VOILA act upon before they look for an idle server.
LEMMA VisibleIsSeen ==
  ASSUME NEW util \in [Active -> Utils], NEW load \in LoadsOfAll, NEW m,
         m = Snapshot(util, load), UpdateSustain(m), VisibleNeed(m, high')
  PROVE  /\ NeedsServer(m, high')
         /\ Overloaded(m) # {} \/ (Starved(m, 70) # {} /\ Starved(m, 80) # {})
<1>1. CASE \E s \in Servers : high'[s] # None /\ high'[s] >= SustainHigh
  <2>1. PICK s \in Servers : high'[s] # None /\ high'[s] >= SustainHigh
    BY <1>1
  <2>2. high'[s] = Since(high, s, Used(m, s) > UtilUp)
    BY <2>1 DEF UpdateSustain
  <2>3. state[s] = "ACTIVE" /\ Used(m, s) > UtilUp
    BY <2>1, <2>2 DEF Since
  <2>4. s \in Overloaded(m)
    BY <2>1, <2>3 DEF Overloaded, Used, Active
  <2> QED
    BY <2>1, <2>4 DEF NeedsServer, Sustain
<1>2. CASE \E v \in Services : /\ m.service[v].rejected \/ m.service[v].occ > 85
                               /\ ~Hostable(v, {"ACTIVE", "BOOTING"})
  <2>1. PICK v \in Services : /\ m.service[v].rejected \/ m.service[v].occ > 85
                              /\ ~Hostable(v, {"ACTIVE", "BOOTING"})
    BY <1>2
  <2>a. /\ m.service[v].occ \in Nat /\ load[v].rejected \in BOOLEAN
        /\ m.service[v].rejected = load[v].rejected
        /\ m.service[v].late = (load[v].late \/ load[v].rejected)
    <3>1. load[v] \in [occ : Nat, rejected : BOOLEAN, quiet : BOOLEAN, late : BOOLEAN,
                   far : BOOLEAN]
      BY LoadsAssumption DEF LoadsOfAll
    <3>2. m.service[v].occ = IF ReadyOf(v) = {} THEN 0 ELSE load[v].occ
      BY DEF Snapshot
    <3> QED
      BY <3>1, <3>2 DEF Snapshot
  <2>2. m.service[v].rejected => m.service[v].late
    BY <2>a
  <2>3. AnyStarved(m)
    BY <2>1, <2>2 DEF AnyStarved, NeedsUp
  <2>4. m.service[v].occ > 85 => m.service[v].occ > 70 /\ m.service[v].occ > 80
    BY <2>a
  <2>5. v \in Starved(m, 70) /\ v \in Starved(m, 80)
    BY <2>1, <2>4 DEF Starved
  <2> QED
    BY <2>3, <2>5 DEF NeedsServer
<1> QED
  BY <1>1, <1>2 DEF VisibleNeed, Sustain

\* Then the algorithm asks for a server to be turned on, if one is off.
LEMMA VisibleIsServed ==
  ASSUME NEW m, NEW done \in BOOLEAN, NEW action \in ProvisionDecisions(m), NEW lo, NEW hi,
         algorithm \in {"greedy", "voila"}, NeedsServer(m, hi),
         Overloaded(m) # {} \/ (Starved(m, 70) # {} /\ Starved(m, 80) # {}),
         ApplyProvisioning(action, done)
  PROVE  Served(IF done THEN action ELSE NoAction, ProvisionEntries(m, hi, lo, action, done))
<1>1. action \in OneOf(TurnOns(Candidates(m, Reference(m))))
  BY DEF ProvisionDecisions, GreedyProvision, VoilaProvision, React
<1>2. action[1] = "TURN_ON" \/ action = NoAction
  BY <1>1 DEF OneOf, TurnOns
<1>3. CASE done
  <2>1. PICK s \in Servers : action = <<"TURN_ON", s>> \/ action = <<"TURN_OFF", s>>
    BY <1>3 DEF ApplyProvisioning
  <2>2. action[1] # "NO_CHANGE"
    BY <2>1
  <2>3. action[1] = "TURN_ON"
    BY <1>2, <2>2 DEF NoAction
  <2> QED
    BY <1>3, <2>3 DEF Served
<1>4. CASE ~done
  <2>1. \E k \in {"missed", "blocked"} :
          Unserved("TURN_ON", action[1] = "TURN_ON") = {<<k, "TURN_ON">>}
    BY DEF Unserved
  <2>2. Unserved("TURN_ON", action[1] = "TURN_ON") \subseteq
          ProvisionEntries(m, hi, lo, action, done)
    BY <1>4 DEF ProvisionEntries, If
  <2> QED
    BY <2>1, <2>2 DEF Served
<1> QED
  BY <1>3, <1>4

\* The audit of _apply_provisioning loses no need that Greedy and VOILA can see:
\* it does not look for one when a TURN_OFF was applied, and they never ask for
\* one then.
THEOREM NeedsAreServedOrBooked == DecisionsSpec => VisibleNeedsAreBooked
<1> DEFINE Books == (algorithm \in {"greedy", "voila"} /\ TickFires /\ turn' # 0)
                      => (VisibleNeed(shot', high') => Served(applied'[0], booked'[0]))
<1>1. SimInv /\ [DecisionsNext]_allVars => [Books]_allVars
  <2> SUFFICES ASSUME SimInv, DecisionsNext, algorithm \in {"greedy", "voila"}, TickFires,
                      turn' # 0, VisibleNeed(shot', high')
               PROVE  Served(applied'[0], booked'[0])
    OBVIOUS
  <2>0. turn = 0 /\ \A v \in Services : v # 0
    BY ServicesAssumption DEF TickFires, Fires, Services
  <2>1. Tick
    BY <2>0, AdvanceServers, EventsKeepTurn DEF DecisionsNext, TimePasses, EventHandled, Decide
  <2>2. PICK util \in [Active -> Utils], load \in LoadsOfAll, done \in BOOLEAN :
          \E action \in ProvisionDecisions(Snapshot(util, load)) :
            Ticks(Snapshot(util, load), action, done)
    BY <2>1, TickCases
  <2> DEFINE m == Snapshot(util, load)
  <2>3. PICK action \in ProvisionDecisions(m) : Ticks(m, action, done)
    BY <2>2
  <2>4. /\ UpdateSustain(m)
        /\ ApplyProvisioning(action, done)
        /\ shot' = m
        /\ applied' = [Nothing EXCEPT ![0] = IF done THEN action ELSE NoAction]
        /\ booked' = [NoEntries EXCEPT ![0] = ProvisionEntries(m, high', low', action, done)]
    BY <2>3 DEF Ticks
  <2>5. /\ NeedsServer(m, high')
        /\ Overloaded(m) # {} \/ (Starved(m, 70) # {} /\ Starved(m, 80) # {})
    BY <2>4, VisibleIsSeen
  <2>6. Served(IF done THEN action ELSE NoAction, ProvisionEntries(m, high', low', action, done))
    <3> HIDE DEF m
    <3> QED
      BY <2>4, <2>5, VisibleIsServed
  <2>7. /\ applied'[0] = IF done THEN action ELSE NoAction
        /\ booked'[0] = ProvisionEntries(m, high', low', action, done)
    <3>1. 0 \in 0..NServices
      BY ServicesAssumption
    <3> HIDE DEF m
    <3> QED
      BY <2>4, <3>1 DEF Nothing, NoEntries
  <2> HIDE DEF m
  <2> QED
    BY <2>6, <2>7
<1>2. DecisionsSpec => []SimInv
  BY DecisionsImplementEngine, SimInvAlways
<1>3. DecisionsSpec => [][Books]_allVars
  BY <1>1, <1>2, PTL DEF DecisionsSpec
<1> QED
  BY <1>3 DEF VisibleNeedsAreBooked

=============================================================================
