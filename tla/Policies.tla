------------------------------ MODULE Policies ------------------------------
(***************************************************************************)
(* What the placement algorithms of src/algorithms ask the simulator for,  *)
(* as functions of the snapshot a decision tick takes and of the fleet.    *)
(*                                                                         *)
(* A snapshot m has m.util[s], the utilization of a server in percent, and *)
(* m.service[v]: occ, the mean occupancy of its READY queues in percent of *)
(* queue_len; rejected, late, far: whether rejection_rate, deadline_       *)
(* violation_rate, proximity_violation_rate are positive; rolling, the     *)
(* same for rejection_rate_rolling; ready, n_ready_replicas.  Where the    *)
(* code orders candidates by distance or by id, each of them is possible.  *)
(***************************************************************************)
EXTENDS SimLifecycle

CONSTANTS LargeMips, MediumMips   \* capacity_mips of the two bigger profiles
ASSUME ProfilesAssumption == {LargeMips, MediumMips} \subseteq Nat /\ Capacity \in [Servers -> Nat]

UtilUp   == 95     \* UTIL_SCALE_UP_THRESHOLD
UtilDown == 45     \* UTIL_SCALE_DOWN_THRESHOLD

----------------------------------------------------------------------------
(* Provisioning.  An action is a pair of a kind and a server.              *)

NoAction == <<"NO_CHANGE", None>>
TurnOns(S)  == {<<"TURN_ON", s>> : s \in S}
TurnOffs(S) == {<<"TURN_OFF", s>> : s \in S}
OneOf(actions) == IF actions = {} THEN {NoAction} ELSE actions

Off == {s \in Servers : state[s] = "OFF"}
Overloaded(m) == {s \in Active : m.util[s] > UtilUp}
Busiest(m) == {s \in Active : \A t \in Active : m.util[t] <= m.util[s]}
Idlest(m)  == {s \in Active : \A t \in Active : m.util[t] >= m.util[s]}
TotalUtil(m) == SumFunctionOnSet(m.util, Active)

Hostable(v, states) == \E s \in Servers : state[s] \in states /\ CanHost(s, v)

\* _capacity_starved_services: they need a replica that no server can host.
Starved(m, occUp) ==
  {v \in Services : /\ m.service[v].occ > occUp \/ m.service[v].rejected
                    /\ ~Hostable(v, {"ACTIVE", "BOOTING"})}

Profile(mips) == IF mips >= LargeMips THEN "large"
                 ELSE IF mips >= MediumMips THEN "medium" ELSE "edge_small"
OfProfile(S, profile) ==
  LET matching == {s \in S : Profile(Capacity[s]) = profile}
  IN IF matching = {} THEN S ELSE matching

\* The servers that may be turned on: of the profile of the overload or, with
\* none, of a server of refs.
Candidates(m, refs) ==
  LET mips == IF Overloaded(m) # {} THEN {SumFunctionOnSet(Capacity, Overloaded(m))}
              ELSE {Capacity[s] : s \in refs}
  IN UNION {OfProfile(Off, Profile(x)) : x \in mips}

ReactFallingThrough(needed, candidates, idle) ==  \* fault: with none off, goes on
  IF needed /\ candidates # {} THEN TurnOns(candidates) ELSE OneOf(TurnOffs(idle))
\* A server is needed: turn one on, if one is off.  Else an idle one goes.
React(needed, candidates, idle) ==
  IF needed THEN OneOf(TurnOns(candidates)) ELSE OneOf(TurnOffs(idle))

\* With no server ACTIVE, nothing filters the candidates.
Reference(m) == IF Active = {} THEN Off ELSE Busiest(m)
Underused(m) == {s \in Idlest(m) : m.util[s] < UtilDown}

GreedyProvision(m) ==
  React(Overloaded(m) # {} \/ Starved(m, 70) # {}, Candidates(m, Reference(m)), Underused(m))

VoilaProvision(m) ==
  React(Overloaded(m) # {} \/ Starved(m, 80) # {}, Candidates(m, Reference(m)), Underused(m))

\* HPA looks at the mean utilization.
HpaProvision(m) ==
  LET n == Cardinality(Active)
  IN IF Active = {} THEN {NoAction}
     ELSE React(TotalUtil(m) > UtilUp * n \/ Starved(m, 70) # {}, Candidates(m, Active),
                IF TotalUtil(m) < UtilDown * n THEN Idlest(m) ELSE {})

----------------------------------------------------------------------------
(* Scaling of a service, from its part sv of the snapshot.                 *)

Decision(up, down) ==
  IF up THEN "SCALE_UP" ELSE IF down THEN "SCALE_DOWN" ELSE "NO_CHANGE"

GreedyScaleKeepingTwo(sv) ==   \* fault: two replicas are kept
  Decision(sv.occ > 70 \/ sv.rolling, sv.occ < 10 /\ sv.ready > 2)
GreedyScale(sv) == Decision(sv.occ > 70 \/ sv.rolling, sv.occ < 10 /\ sv.ready > 1)

AtLeast(x, bound) == IF x > bound THEN x ELSE bound

\* The target utilization is 70 %; division rounds up.
HpaScale(sv) ==
  LET current == AtLeast(sv.ready, 1)
      byLoad  == IF sv.occ = 0 /\ ~sv.rolling THEN 1
                 ELSE AtLeast((current * sv.occ + 69) \div 70, 1)
      desired == IF sv.rolling THEN AtLeast(byLoad, current + 1) ELSE byLoad
  IN Decision(desired > current, desired < current /\ current > 1)

\* VOILA keeps, per service, _good_streak, _proximity_violation_streak and
\* _proximity_recent; patience bounds the first.
Patience   == 3    \* SCALE_DOWN_PATIENCE_TICKS
Sustained  == 2    \* PROXIMITY_SUSTAIN_TICKS
Protection == 5    \* PROXIMITY_PROTECTION_TICKS
FreshStreak == [good |-> 0, far |-> 0, recent |-> 0]

Crowded(sv) == sv.occ > 80 \/ sv.rolling
Calm(sv) == ~Crowded(sv) /\ ~sv.far
TooFar(sv, k) == ~Crowded(sv) /\ sv.far /\ k.far + 1 >= Sustained
Patient(sv, k) == /\ Calm(sv) /\ k.recent <= 1 /\ k.good + 1 >= Patience
                  /\ sv.occ < 20 /\ sv.ready > 1

VoilaScale(sv, k) == Decision(Crowded(sv) \/ TooFar(sv, k), Patient(sv, k))

StreakAfterCrowd(sv, k) ==   \* fault: a capacity violation keeps the good streak
  IF Crowded(sv) THEN [k EXCEPT !.far = 0]
  ELSE IF sv.far THEN [k EXCEPT !.good = 0, !.far = @ + 1]
  ELSE [good |-> AtMost(k.good + 1, Patience), far |-> 0, recent |-> AtLeast(k.recent - 1, 0)]
\* The streaks that scale_decision leaves, whatever the engine does with the
\* decision.
StreakAfter(sv, k) ==
  CASE Crowded(sv)  -> [k EXCEPT !.good = 0, !.far = 0]
    [] TooFar(sv, k) -> [good |-> 0, far |-> 0, recent |-> Protection]
    [] ~Crowded(sv) /\ sv.far /\ ~TooFar(sv, k) -> [k EXCEPT !.good = 0, !.far = @ + 1]
    [] Calm(sv) -> [good |-> IF Patient(sv, k) THEN 0 ELSE AtMost(k.good + 1, Patience),
                    far |-> 0, recent |-> AtLeast(k.recent - 1, 0)]

----------------------------------------------------------------------------
(* The action mask of PPO: position 0 holds the provisioning actions and   *)
(* position v the scale decisions that the mask allows.                    *)

MatureOf(v) == {s \in ReadyOf(v) : replica[s][v].age >= MinReplicaAge}
MayScaleUp(v)   == sinceScale[v] >= Cooldown /\ Hostable(v, {"ACTIVE"})
MayScaleDown(v) == sinceScale[v] >= Cooldown /\ OthersReady(v) /\ MatureOf(v) # {}

ScaleMask(v) == {"NO_CHANGE"} \cup {d \in {"SCALE_UP"} : MayScaleUp(v)}
                              \cup {d \in {"SCALE_DOWN"} : MayScaleDown(v)}

\* The answer names one action per server and the first one counts, TURN_ON
\* before TURN_OFF: any one of those allowed.
OneServer(ons, offs) == {NoAction} \cup TurnOns(ons) \cup TurnOffs(offs)
ServerMask == OneServer({s \in Servers : MayTurnOn(s)}, {s \in Servers : MayTurnOff(s)})

MaskWithoutCooldown ==       \* fault: a server may turn on while in cooldown
  [i \in 0..NServices |->
     IF i = 0 THEN OneServer(Off, {s \in Servers : MayTurnOff(s)}) ELSE ScaleMask(i)]
\* compute_action_masks and _build_action_masks.
Mask == [i \in 0..NServices |-> IF i = 0 THEN ServerMask ELSE ScaleMask(i)]

\* Without a mask nothing may be chosen; only PPO has one.
NoMask == [i \in 0..NServices |-> {}]

----------------------------------------------------------------------------
(* Placement and victims, where scores narrow the choice.                  *)

\* select_placement_server takes the nearest, or the emptiest of the nearest,
\* of the ACTIVE servers with room; HPA the emptiest of all.
Fit(v) == {t \in Active : CanHost(t, v)}
Emptiest(S) == {t \in S : \A u \in S : Free[u] <= Free[t]}
Placements(algorithm, v) == IF algorithm = "hpa" THEN Emptiest(Fit(v)) ELSE Fit(v)
=============================================================================
