----------------------------- MODULE Decisions ------------------------------
(***************************************************************************)
(* SimLifecycle with the algorithms in it: _handle_decision_tick takes a   *)
(* snapshot, follows how long servers have been idle or overloaded, asks   *)
(* the algorithm, applies what the gates let through and books what was    *)
(* right, wrong, missed or blocked.  The load is free: any utilization of  *)
(* the ACTIVE servers, any load of every service, at every tick.           *)
(*                                                                         *)
(* "ppo" masks its actions when the tick fires; "ppo_train" is the         *)
(* training environment, whose mask is as old as the last observation.     *)
(***************************************************************************)
EXTENDS Policies

CONSTANTS
  Algorithms,       \* those that a run may use
  Utils,            \* bound: the utilizations a snapshot may report
  Loads,            \* bound: the loads of each service, [occ, rejected, quiet, late, far]
  SustainLow, SustainHigh

ASSUME AlgorithmsAssumption ==
  Algorithms \subseteq {"greedy", "hpa", "voila", "ppo", "ppo_train"}
ASSUME LoadsAssumption ==
  \A v \in Services :
    Loads[v] \subseteq [occ : Nat, rejected : BOOLEAN, quiet : BOOLEAN, late : BOOLEAN,
                        far : BOOLEAN]
ASSUME SustainAssumption ==
  {SustainLow, SustainHigh} \subseteq Nat /\ SustainLow <= MinActive /\ SustainHigh <= SustainLow

VARIABLES
  algorithm,
  low, high,        \* now - _low_util_since, - _high_util_since, or None
  sinceRejected,    \* ticks since one saw a rejection, up to the window
  streak,           \* VOILA's three counters of each service
  mask,             \* what PPO may choose from
  shot,             \* the snapshot, while the tick is handled
  decided,          \* _last_tick_decisions: 0 is provision, v is scale[v]
  applied,          \* _last_tick_applied_actions
  booked,           \* the tick's entries in _decision_correctness
  settled           \* history: ticks since v was scaled, and whether to be near

engine == <<heap, state, sinceTransition, isEmergency, replica, pending,
            emergencyBoot, sinceScale, turn>>
memory == <<low, high, sinceRejected, streak, settled>>
report == <<shot, decided, applied, booked>>
allVars == <<engine, algorithm, memory, mask, report>>

ROLLING_TICKS == 3
NoShot == [util |-> <<>>, service |-> <<>>]
Nothing == [i \in 0..NServices |-> IF i = 0 THEN NoAction ELSE "NO_CHANGE"]
NoEntries == [i \in 0..NServices |-> {}]

ReportIs(m, d, a, b) == shot = m /\ decided = d /\ applied = a /\ booked = b

DecisionsInit ==
  /\ Init
  /\ algorithm \in Algorithms
  /\ low = [s \in Servers |-> None] /\ high = [s \in Servers |-> None]
  /\ sinceRejected = [v \in Services |-> ROLLING_TICKS]
  /\ streak = [v \in Services |-> FreshStreak]
  /\ settled = [v \in Services |-> [ticks |-> Protection, near |-> FALSE]]
  /\ mask = IF algorithm = "ppo_train" THEN Mask ELSE NoMask
  /\ ReportIs(NoShot, Nothing, Nothing, NoEntries)

----------------------------------------------------------------------------
(* Between two ticks.                                                      *)

Older(since, d, bound) == [s \in Servers |->
  IF since[s] = None THEN None ELSE AtMost(since[s] + d, bound)]

\* What the last tick reported is dropped when time passes: it is read no more.
TimePasses ==
  /\ AdvanceClock
  /\ \E e \in heap : /\ Head(e)
                     /\ low' = Older(low, e.in, SustainLow)
                     /\ high' = Older(high, e.in, SustainHigh)
  /\ shot' = NoShot /\ decided' = Nothing /\ applied' = Nothing /\ booked' = NoEntries
  /\ mask' = IF algorithm = "ppo_train" THEN mask ELSE NoMask
  /\ UNCHANGED <<algorithm, sinceRejected, streak, settled>>

EventHandled == HandleEvent /\ UNCHANGED <<algorithm, memory, mask, report>>

----------------------------------------------------------------------------
(* The tick: snapshot, sustain times, provisioning.                        *)

NewRejections(load) ==
  [v \in Services |-> IF load[v].rejected THEN 0
                      ELSE AtMost(sinceRejected[v] + 1, ROLLING_TICKS)]

\* The rolling rate is positive for the tick that saw the rejection and the next.
\* At the third it is 0 when the load is quiet: no request has arrived in the
\* whole window, the rejected one having come the tick before.
Rolling(ticks, quiet) == \/ ticks < ROLLING_TICKS - 1
                         \/ ticks = ROLLING_TICKS - 1 /\ ~quiet

\* _build_metrics_snapshot.  A queue is seen only through a READY replica, and
\* a rejected request is late.
Snapshot(util, load) ==
  [util |-> util,
   service |-> [v \in Services |->
     [occ |-> IF ReadyOf(v) = {} THEN 0 ELSE load[v].occ,
      rejected |-> load[v].rejected,
      rolling |-> Rolling(NewRejections(load)[v], load[v].quiet),
      late |-> load[v].late \/ load[v].rejected,
      far |-> load[v].far,
      ready |-> Cardinality(ReadyOf(v))]]]

SinceOfAnyState(since, s, crossed) ==   \* fault: not reset when s is not ACTIVE
  IF crossed \/ state[s] # "ACTIVE" THEN IF since[s] = None /\ crossed THEN 0 ELSE since[s]
  ELSE None
Since(since, s, crossed) ==
  IF state[s] = "ACTIVE" /\ crossed THEN IF since[s] = None THEN 0 ELSE since[s]
  ELSE None

Used(m, s) == IF s \in Active THEN m.util[s] ELSE 0

\* _update_sustain_tracking.
UpdateSustain(m) ==
  /\ low'  = [s \in Servers |-> Since(low, s, Used(m, s) < UtilDown)]
  /\ high' = [s \in Servers |-> Since(high, s, Used(m, s) > UtilUp)]

\* _was_scale_up_necessary and _was_scale_down_necessary.
NeedsUp(sv)   == sv.occ > 85 \/ sv.rolling \/ sv.late
NeedsDown(sv) == sv.occ < 20 /\ sv.ready > 1

AnyStarved(m) ==
  \E v \in Services : NeedsUp(m.service[v]) /\ ~Hostable(v, {"ACTIVE", "BOOTING"})
Sustain(since, bound) == {s \in Servers : since[s] # None /\ since[s] >= bound}

\* The needs the audit sees, once the sustain times are updated.
NeedsServer(m, hi) == Sustain(hi, SustainHigh) # {} \/ AnyStarved(m)
SpareServer(lo) == Cardinality(Active) > 1 /\ Sustain(lo, SustainLow) # {}

Judged(kind, right) == {<<IF right THEN "correct" ELSE "incorrect", kind>>}
Unserved(kind, proposed) == {<<IF proposed THEN "blocked" ELSE "missed", kind>>}
If(condition, entries) == IF condition THEN entries ELSE {}

\* The audit in _apply_provisioning.
ProvisionEntries(m, hi, lo, action, done) ==
  If(done /\ action[1] = "TURN_ON", Judged("TURN_ON", Overloaded(m) # {} \/ AnyStarved(m)))
  \cup If(done /\ action[1] = "TURN_OFF",
          Judged("TURN_OFF", Used(m, action[2]) < UtilDown))
  \cup If(NeedsServer(m, hi) /\ ~done, Unserved("TURN_ON", action[1] = "TURN_ON"))
  \cup If(SpareServer(lo) /\ ~(done /\ action[1] = "TURN_OFF"),
          Unserved("TURN_OFF", action[1] = "TURN_OFF"))

\* What the algorithm may answer; PPO answers anything its mask allows.
ProvisionDecisions(m) ==
  CASE algorithm = "greedy" -> GreedyProvision(m)
    [] algorithm = "voila"  -> VoilaProvision(m)
    [] algorithm = "hpa"    -> HpaProvision(m)
    [] algorithm = "ppo"    -> Mask[0]
    [] algorithm = "ppo_train" -> mask[0]

PassesGates(action) == \/ action[1] = "TURN_ON" /\ MayTurnOn(action[2])
                       \/ action[1] = "TURN_OFF" /\ MayTurnOff(action[2])

\* _apply_provisioning, and whether the action was done.
ApplyProvisioning(action, done) ==
  \/ \E s \in Servers :
       \/ done /\ action = <<"TURN_ON", s>> /\ TurnOn(s)
       \/ done /\ action = <<"TURN_OFF", s>> /\ TurnOff(s)
       \/ ~done /\ action = <<"TURN_OFF", s>> /\ AbortTurnOff(s)
  \/ ~done /\ ~PassesGates(action) /\ NoProvisioning

LoadsOfAll == {load \in [Services -> UNION {Loads[v] : v \in Services}] :
                 \A v \in Services : load[v] \in Loads[v]}
TickFires == \E e \in heap : Fires(e, DecisionTick)

\* _handle_decision_tick, up to the scale decisions.
Tick ==
  /\ TickFires
  /\ \E util \in [Active -> Utils], load \in LoadsOfAll, done \in BOOLEAN :
       LET m == Snapshot(util, load)
       IN \E action \in ProvisionDecisions(m) :
            /\ UpdateSustain(m)
            /\ sinceRejected' = NewRejections(load)
            /\ ApplyProvisioning(action, done)
            /\ shot' = m
            /\ decided' = [Nothing EXCEPT ![0] = action]
            /\ applied' = [Nothing EXCEPT ![0] = IF done THEN action ELSE NoAction]
            /\ booked' = [NoEntries EXCEPT ![0] = ProvisionEntries(m, high', low', action, done)]
  /\ mask' = IF algorithm = "ppo" THEN Mask ELSE mask
  /\ UNCHANGED <<algorithm, streak, settled>>

----------------------------------------------------------------------------
(* The scale decisions of the tick, service after service.                 *)

ScaleDecisions(v) ==
  LET sv == shot.service[v]
  IN CASE algorithm = "greedy" -> {GreedyScale(sv)}
       [] algorithm = "hpa"    -> {HpaScale(sv)}
       [] algorithm = "voila"  -> {VoilaScale(sv, streak[v])}
       [] algorithm \in {"ppo", "ppo_train"} -> mask[v]

\* The audit in _apply_scale_decision.
ScaleEntries(v, d, done) ==
  LET sv == shot.service[v]
      needed == [k \in {"SCALE_UP", "SCALE_DOWN"} |->
                   IF k = "SCALE_UP" THEN NeedsUp(sv) ELSE NeedsDown(sv)]
  IN If(done, Judged(d, needed[d])) \cup
     UNION {If(needed[k] /\ ~(done /\ d = k), Unserved(k, d = k)) : k \in DOMAIN needed}

MayApply(v, d) == \/ d = "SCALE_UP" /\ MayScaleUp(v)
                  \/ d = "SCALE_DOWN" /\ MayScaleDown(v)

\* _apply_scale_decision.
ApplyScale(v, d) ==
  \/ d = "SCALE_UP" /\ \E t \in Placements(algorithm, v) : ScaleUp(v, t)
  \/ d = "SCALE_DOWN" /\ \E s \in MatureOf(v) : ScaleDown(v, s)
  \/ ~MayApply(v, d) /\ NoScale(v)

After(old, v, d, done) ==
  IF done THEN [ticks |-> 0, near |-> d = "SCALE_UP" /\ ~Crowded(shot.service[v])]
  ELSE [old EXCEPT !.ticks = AtMost(@ + 1, Protection)]

Decide(v) ==
  /\ turn = v
  /\ \E d \in ScaleDecisions(v) :
       LET done == MayApply(v, d)
       IN /\ ApplyScale(v, d)
          /\ decided' = [decided EXCEPT ![v] = d]
          /\ applied' = [applied EXCEPT ![v] = IF done THEN d ELSE @]
          /\ booked' = [booked EXCEPT ![v] = ScaleEntries(v, d, done)]
          /\ IF algorithm = "voila"
               THEN /\ streak' = [streak EXCEPT ![v] = StreakAfter(shot.service[v], @)]
                    /\ settled' = [settled EXCEPT ![v] = After(@, v, d, done)]
               ELSE UNCHANGED <<streak, settled>>
  \* The training loop asks for its next mask as soon as the tick is over.
  /\ mask' = IF algorithm = "ppo_train" /\ turn' = 0 THEN Mask' ELSE mask
  /\ UNCHANGED <<algorithm, low, high, sinceRejected, shot>>

DecisionsNext ==
  \/ TimePasses \/ EventHandled
  \/ Tick \/ \E v \in Services : Decide(v)

DecisionsSpec == DecisionsInit /\ [][DecisionsNext]_allVars

\* run(), or the training loop, keeps calling step().
FairDecisionsSpec == DecisionsSpec /\ WF_allVars(DecisionsNext)

----------------------------------------------------------------------------
(* Safety.                                                                 *)

Reactive == algorithm \in {"greedy", "hpa", "voila"}
TurnedOff == applied[0][1] = "TURN_OFF"

\* A mask promises that what it allows is applied, also in training, where it
\* is one tick old.  It is broken only by what the same tick did before: a
\* migration that does not fit, a server turned off, a service placed first.
RefusalsHaveACause ==
  ~Reactive =>
    /\ turn = 1 /\ decided[0] # applied[0] =>
         decided[0][1] = "TURN_OFF" /\ SoleHosted(decided[0][2]) # {}
    /\ \A v \in Services :
         decided[v] # applied[v] =>
           TurnedOff \/ (decided[v] = "SCALE_UP" /\ \E u \in 1..(v - 1) : applied[u] = "SCALE_UP")

\* A sustained load is of the present activation of its server: the times are
\* never carried over a shutdown and a boot.
SustainIsFresh ==
  \A s \in Servers : \A since \in {low[s], high[s]} :
    since # None => /\ state[s] # "BOOTING"
                    /\ state[s] = "ACTIVE" => since <= sinceTransition[s]

\* The audit loses no need that Greedy and VOILA can see: when a server is
\* needed because one is overloaded, or because a service that is rejecting
\* now has nowhere to go, one is turned on or the need is booked.
VisibleNeed(m, hi) ==
  \/ Sustain(hi, SustainHigh) # {}
  \/ \E v \in Services : /\ m.service[v].rejected \/ m.service[v].occ > 85
                        /\ ~Hostable(v, {"ACTIVE", "BOOTING"})
Served(action, entries) ==
  action[1] = "TURN_ON" \/ \E k \in {"missed", "blocked"} : <<k, "TURN_ON">> \in entries
VisibleNeedsAreBooked ==
  [][(algorithm \in {"greedy", "voila"} /\ TickFires /\ turn' # 0)
       => (VisibleNeed(shot', high') => Served(applied'[0], booked'[0]))]_allVars

\* VOILA does not flap: it takes a replica away only three ticks or more after
\* it last scaled the service, and five after it added one to be nearer.
NoFlapping ==
  [][\A v \in Services :
       algorithm = "voila" /\ turn = v /\ applied'[v] = "SCALE_DOWN" =>
         /\ settled[v].ticks + 1 >= Patience
         /\ settled[v].near => settled[v].ticks + 1 >= Protection]_allVars

----------------------------------------------------------------------------
(* Liveness.                                                               *)

Idle(v) == shot # NoShot => LET sv == shot.service[v]
                            IN sv.occ = 0 /\ ~sv.rolling /\ ~sv.far

\* A service that is idle for good shrinks to one replica, whatever the other
\* services do, although decisions may be refused and VOILA then starts its
\* streak over.
IdleShrinks ==
  \A v \in Services :
    Reactive /\ <>[]Idle(v) => <>[](Cardinality(ReadyOf(v)) <= 1)
=============================================================================
