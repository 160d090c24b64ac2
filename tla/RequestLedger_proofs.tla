------------------------- MODULE RequestLedger_proofs ------------------------
(***************************************************************************)
(* No request is in the report twice, and each that reached the dispatcher *)
(* while more than max_age was left until it stops is in it: the records   *)
(* of RequestLedger refine RequestAccounting, whatever the number of       *)
(* requests and the delays and whenever they come, as long as no queue is  *)
(* slower than the sweeper's memory.                                       *)
(***************************************************************************)
EXTENDS RequestLedger, TLAPS

\* The sweeper forgets a lost request later than any pod can report it.  It is
\* not so for service 15 (finding 3 of the README).
MemoryOutlastsQueues == MaxWait <= MaxAge + PruneHorizon + 1

----------------------------------------------------------------------------
(* The inductive invariant, one part per idea, for each request.           *)

LoopsRun == phase = "running"

\* A completion for q may still be recorded.
Awaited(q) == status[q] = "routed" \/ (q \in completions /\ LoopsRun)

\* A new request is nowhere, a rejected one is booked.
NewIsNowhere(q) ==
  status[q] = "new" => q \notin request_geo \cup reaped \cup completions /\ books[q] = <<>>

\* _request_geo holds exactly the requests that arrived and are not booked.
GeoIsUnbooked(q) ==
  /\ q \in request_geo => q \notin reaped /\ books[q] = <<>>
  /\ status[q] # "new" /\ books[q] = <<>> => q \in request_geo

\* A request that may still be reported is known to the dispatcher, waiting or
\* reaped, and has been reaped for so short a time that it is not forgotten.
AwaitedIsKnown(q) ==
  Awaited(q) => /\ q \in request_geo \cup reaped
                /\ age[q] <= MaxWait
                /\ q \in reaped => age[q] > MaxAge + sinceReaped[q]

\* A pod reports a request once.
ReportedOnce(q) == q \in completions => status[q] \in {"in_time", "over"}

\* What waits at the stop and is not late is old enough for the last sweep.
WaitingIsOld(q) ==
  q \in request_geo \ late => /\ age[q] + Lifetime > clock + MaxAge
                              /\ phase \in {"running", "stopping"}

\* What was reported in time is recorded as completed, or waits in Redis while
\* the loops run, and the sweeper does not touch it.
InTimeWaits(q) ==
  status[q] = "in_time" /\ q \notin late =>
    \/ books[q] = <<"COMPLETED">>
    \/ /\ books[q] = <<>> /\ q \in completions /\ q \in request_geo
       /\ age[q] <= MaxAge /\ phase = "running"

\* A request is booked at most once.
BookIsShort(q) == books[q] = <<>> \/ \E o \in Outcomes : books[q] = <<o>>

RequestOK(q) ==
  /\ NewIsNowhere(q) /\ GeoIsUnbooked(q) /\ AwaitedIsKnown(q)
  /\ ReportedOnce(q) /\ WaitingIsOld(q) /\ InTimeWaits(q) /\ BookIsShort(q)

\* The sweeper is on time: nothing has been due for longer than since its pass.
SweptInTime ==
  /\ \A q \in Requests : status[q] = "new" => age[q] = 0 /\ q \notin request_geo
  /\ \A q \in request_geo : age[q] <= MaxAge + sinceSweep
  /\ \A q \in reaped : sinceReaped[q] <= PruneHorizon + sinceSweep

\* The watcher is on time, and the server is closed soon after.
ClockOK ==
  /\ phase = "running" => clock <= Lifetime
  /\ phase # "running" => clock >= Lifetime /\ clock <= Lifetime + SweepInterval
  /\ phase = "stopping" => clock <= Lifetime + sinceSweep

Types ==
  /\ status \in [Requests -> {"new", "routed", "in_time", "over"}]
  /\ age \in [Requests -> Nat] /\ sinceReaped \in [Requests -> Nat]
  /\ request_geo \subseteq Requests /\ reaped \subseteq Requests
  /\ completions \subseteq Requests /\ late \subseteq Requests
  /\ books \in [Requests -> Seq(Outcomes)]
  /\ sinceSweep \in 0..SweepInterval /\ clock \in Nat
  /\ phase \in {"running", "stopping", "stopped", "reported"}
  /\ ClockOK

Inv == Types /\ SweptInTime /\ \A q \in Requests : RequestOK(q)

----------------------------------------------------------------------------
(* Each action keeps it.                                                   *)

\* The types do not need the invariant: whatever the delays, they are kept.
LEMMA TypeStep == Types /\ SweptInTime /\ [Next]_vars => Types' /\ SweptInTime'
<1> SUFFICES ASSUME Types, SweptInTime, [Next]_vars PROVE Types' /\ SweptInTime'
  OBVIOUS
<1>0. ASSUME NEW R, NEW o \in Outcomes, Record(R, o)
      PROVE  books' \in [Requests -> Seq(Outcomes)]
  BY <1>0 DEF Record, Types
<1>1. ASSUME NEW q \in Requests, Route(q) PROVE Types' /\ SweptInTime'
  BY <1>1, TimesAssumption DEF Types, ClockOK, SweptInTime, Route, Serving, requestVars, runVars
<1>2. ASSUME NEW q \in Requests, Reject(q) PROVE Types' /\ SweptInTime'
  BY <1>0, <1>2 DEF Types, ClockOK, SweptInTime, Outcomes, Reject, Serving, requestVars, runVars
<1>3. ASSUME NEW q \in Requests, Complete(q) \/ Vanish(q) PROVE Types' /\ SweptInTime'
  BY <1>3 DEF Types, ClockOK, SweptInTime, Complete, Vanish, requestVars, runVars
<1>4. CASE DrainCompletions
  BY <1>0, <1>4 DEF Types, ClockOK, SweptInTime, Outcomes, DrainCompletions, requestVars, runVars
<1>5. CASE Sweep
  <2>1. books' \in [Requests -> Seq(Outcomes)]
    BY <1>0, <1>5 DEF Outcomes, Sweep
  <2> QED
    BY <2>1, <1>5, TimesAssumption
       DEF Types, ClockOK, SweptInTime, Sweep, Stale, Pruned, PruneHorizon, requestVars, runVars
<1>6. CASE TimePasses
  <2>1. Types'
    BY <1>6, TimesAssumption DEF Types, ClockOK, TimePasses
  <2>2. SweptInTime'
    BY <1>6, TimesAssumption DEF Types, ClockOK, SweptInTime, TimePasses, PruneHorizon
  <2> QED  BY <2>1, <2>2
<1>7. CASE Stop \/ Finalize
  BY <1>7, TimesAssumption DEF Types, ClockOK, SweptInTime, Stop, Finalize, requestVars, runVars
<1>8. CASE UNCHANGED vars
  BY <1>8 DEF vars, requestVars, runVars, Types, ClockOK, SweptInTime
<1> QED
  BY <1>1, <1>2, <1>3, <1>4, <1>5, <1>6, <1>7, <1>8 DEF Next

\* What record_request does to a request that was not booked.
LEMMA RecordOnce ==
  ASSUME Types, NEW R, NEW o \in Outcomes, Record(R, o),
         \A q \in R \cap Requests : books[q] = <<>>
  PROVE  /\ books' = [q \in Requests |-> IF q \in R THEN <<o>> ELSE books[q]]
         /\ \A q \in Requests : /\ q \in R => books'[q] = <<o>> /\ books'[q] # <<>>
                                /\ q \notin R => books'[q] = books[q]
<1>1. Append(<<>>, o) = <<o>> /\ <<o>> # <<>>
  OBVIOUS
<1>2. books' = [q \in Requests |-> IF q \in R THEN <<o>> ELSE books[q]]
  BY <1>1 DEF Record
<1> QED
  BY <1>2 DEF Types, BookIsShort

\* The invariant at the start.
LEMMA InitInv == Init => Inv
BY TimesAssumption DEF Init, Inv, Types, ClockOK, SweptInTime, RequestOK, NewIsNowhere,
   GeoIsUnbooked, AwaitedIsKnown, ReportedOnce, WaitingIsOld, InTimeWaits, BookIsShort,
   Awaited, LoopsRun

\* route_request admits q.
LEMMA RouteKeeps == ASSUME Inv, NEW q \in Requests, Route(q) PROVE Inv'
<1>1. Types' /\ SweptInTime'
  BY TypeStep DEF Inv, Next
<1>2. ASSUME NEW r \in Requests PROVE RequestOK(r)'
  <2>1. NewIsNowhere(r)' /\ GeoIsUnbooked(r)' /\ ReportedOnce(r)' /\ BookIsShort(r)'
    BY DEF Inv, Types, RequestOK, NewIsNowhere, GeoIsUnbooked, ReportedOnce, BookIsShort,
       Outcomes, Route, Serving, requestVars, runVars
  <2>2. AwaitedIsKnown(r)'
    BY TimesAssumption DEF Inv, Types, SweptInTime, RequestOK, AwaitedIsKnown, Awaited,
       LoopsRun, NewIsNowhere, Route, Serving, requestVars, runVars
  <2>3. WaitingIsOld(r)'
    BY TimesAssumption DEF Inv, Types, ClockOK, SweptInTime, RequestOK, WaitingIsOld, Route, Serving, requestVars, runVars
  <2>4. InTimeWaits(r)'
    BY DEF Inv, Types, RequestOK, InTimeWaits, Route, Serving, requestVars, runVars
  <2> QED  BY <2>1, <2>2, <2>3, <2>4 DEF RequestOK
<1> QED  BY <1>1, <1>2 DEF Inv

\* route_request rejects q.
LEMMA RejectKeeps == ASSUME Inv, NEW q \in Requests, Reject(q) PROVE Inv'
<1>0. \A r \in Requests : /\ r = q => books'[r] = <<"REJECTED">> /\ books'[r] # <<>>
                          /\ r # q => books'[r] = books[r]
  BY RecordOnce DEF Inv, Outcomes, Reject, RequestOK, NewIsNowhere
<1>1. Types' /\ SweptInTime'
  BY TypeStep DEF Inv, Next
<1>2. ASSUME NEW r \in Requests PROVE RequestOK(r)'
  <2>1. NewIsNowhere(r)' /\ GeoIsUnbooked(r)' /\ ReportedOnce(r)' /\ BookIsShort(r)'
    BY <1>0 DEF Inv, Types, RequestOK, NewIsNowhere, GeoIsUnbooked, ReportedOnce, BookIsShort,
       Outcomes, Reject, requestVars, runVars
  <2>2. AwaitedIsKnown(r)'
    BY TimesAssumption DEF Inv, Types, SweptInTime, RequestOK, AwaitedIsKnown, Awaited,
       LoopsRun, NewIsNowhere, Reject, requestVars, runVars
  <2>3. WaitingIsOld(r)'
    BY TimesAssumption DEF Inv, Types, ClockOK, SweptInTime, RequestOK, WaitingIsOld, Reject, requestVars, runVars
  <2>4. InTimeWaits(r)'
    BY <1>0 DEF Inv, Types, RequestOK, InTimeWaits, Reject, requestVars, runVars
  <2> QED  BY <2>1, <2>2, <2>3, <2>4 DEF RequestOK
<1> QED  BY <1>1, <1>2 DEF Inv

\* While the loops do not run, what waits and is not late is older than max_age.
LEMMA OldWhenStopped ==
  ASSUME Inv, NEW q \in request_geo \ late, phase # "running" \/ clock = Lifetime
  PROVE  age[q] > MaxAge
BY TimesAssumption DEF Inv, Types, ClockOK, RequestOK, WaitingIsOld

\* A pod reports q, or q is lost.
LEMMA EndKeeps == ASSUME Inv, NEW q \in Requests, Complete(q) \/ Vanish(q) PROVE Inv'
<1>1. Types' /\ SweptInTime'
  BY TypeStep DEF Inv, Next
<1>2. ASSUME NEW r \in Requests PROVE RequestOK(r)'
  <2>1. NewIsNowhere(r)' /\ GeoIsUnbooked(r)' /\ ReportedOnce(r)' /\ BookIsShort(r)'
    BY DEF Inv, Types, RequestOK, NewIsNowhere, GeoIsUnbooked, ReportedOnce, BookIsShort,
       Outcomes, Complete, Vanish, requestVars, runVars
  <2>2. AwaitedIsKnown(r)'
    BY TimesAssumption DEF Inv, Types, SweptInTime, RequestOK, AwaitedIsKnown, Awaited,
       LoopsRun, NewIsNowhere, Complete, Vanish, requestVars, runVars
  <2>3. WaitingIsOld(r)'
    BY TimesAssumption DEF Inv, Types, ClockOK, SweptInTime, RequestOK, WaitingIsOld, Complete, Vanish, requestVars, runVars
  <2>4. InTimeWaits(r)'
    <3>1. CASE Complete(q) /\ r = q /\ age[q] <= MaxAge /\ q \notin late
      <4>1. q \in request_geo
        BY <3>1, TimesAssumption DEF Inv, Types, RequestOK, AwaitedIsKnown, Awaited, Complete
      <4>2. books[q] = <<>> /\ phase = "running"
        BY <3>1, <4>1, OldWhenStopped, TimesAssumption DEF Inv, Types, RequestOK, GeoIsUnbooked
      <4> QED
        BY <3>1, <4>1, <4>2 DEF InTimeWaits, Complete, runVars
    <3>2. CASE ~(Complete(q) /\ r = q /\ age[q] <= MaxAge /\ q \notin late)
      BY <3>2 DEF Inv, Types, RequestOK, InTimeWaits, Complete, Vanish, requestVars, runVars
    <3> QED  BY <3>1, <3>2
  <2> QED  BY <2>1, <2>2, <2>3, <2>4 DEF RequestOK
<1> QED  BY <1>1, <1>2 DEF Inv

\* drain_completion_queue books requests that wait, and no others.
LEMMA NewlyDoneWaits ==
  ASSUME Inv, LoopsRun, NEW q \in NewlyDone
  PROVE  q \in Requests /\ q \in request_geo /\ books[q] = <<>>
BY DEF Inv, Types, RequestOK, GeoIsUnbooked, AwaitedIsKnown, Awaited, NewlyDone

\* One pass of drain_completion_queue.
LEMMA DrainKeeps == ASSUME Inv, DrainCompletions PROVE Inv'
<1>0. \A r \in Requests : /\ r \in NewlyDone => books'[r] = <<"COMPLETED">> /\ books'[r] # <<>>
                          /\ r \notin NewlyDone => books'[r] = books[r]
  BY RecordOnce, NewlyDoneWaits DEF Inv, Outcomes, DrainCompletions, LoopsRun
<1>1. Types' /\ SweptInTime'
  BY TypeStep DEF Inv, Next
<1>2. ASSUME NEW r \in Requests PROVE RequestOK(r)'
  <2>1. NewIsNowhere(r)' /\ GeoIsUnbooked(r)' /\ ReportedOnce(r)' /\ BookIsShort(r)'
    BY <1>0 DEF Inv, Types, RequestOK, NewIsNowhere, GeoIsUnbooked, ReportedOnce, BookIsShort,
       Outcomes, NewlyDone, LoopsRun, DrainCompletions, requestVars, runVars, AwaitedIsKnown, Awaited
  <2>2. AwaitedIsKnown(r)'
    BY TimesAssumption DEF Inv, Types, SweptInTime, RequestOK, AwaitedIsKnown, Awaited,
       LoopsRun, ReportedOnce, NewlyDone, DrainCompletions, requestVars, runVars
  <2>3. WaitingIsOld(r)'
    BY TimesAssumption DEF Inv, Types, ClockOK, SweptInTime, RequestOK, WaitingIsOld, NewlyDone, DrainCompletions, requestVars, runVars
  <2>4. InTimeWaits(r)'
    BY <1>0 DEF Inv, Types, RequestOK, InTimeWaits, GeoIsUnbooked, NewlyDone, DrainCompletions, requestVars, runVars
  <2> QED  BY <2>1, <2>2, <2>3, <2>4 DEF RequestOK
<1> QED  BY <1>1, <1>2 DEF Inv

\* The sweeper books requests that wait, and forgets none that may be reported.
LEMMA SweepKeeps ==
  ASSUME MemoryOutlastsQueues, Inv, Sweep PROVE Inv'
<1>0. \A r \in Requests : /\ r \in Stale => books'[r] = <<"LOST_NO_COMPLETION">> /\ books'[r] # <<>>
                          /\ r \notin Stale => books'[r] = books[r]
  BY RecordOnce DEF Inv, Outcomes, Sweep, BookedAsLost, Stale, RequestOK, GeoIsUnbooked
<1>1. Types' /\ SweptInTime'
  BY TypeStep DEF Inv, Next
<1>2. ASSUME NEW r \in Requests PROVE RequestOK(r)'
  <2>1. NewIsNowhere(r)' /\ GeoIsUnbooked(r)' /\ ReportedOnce(r)' /\ BookIsShort(r)'
    BY <1>0 DEF Inv, Types, RequestOK, NewIsNowhere, GeoIsUnbooked, ReportedOnce, BookIsShort,
       Outcomes, Sweep, Stale, requestVars
  <2>2. AwaitedIsKnown(r)'
    <3> SUFFICES ASSUME Awaited(r)'
                 PROVE  /\ r \in (request_geo \cup reaped)'
                        /\ age[r] <= MaxWait
                        /\ r \in reaped' => age[r] > MaxAge + sinceReaped'[r]
      BY DEF AwaitedIsKnown, Sweep, requestVars
    <3>1. Awaited(r)
      BY DEF Awaited, LoopsRun, Sweep, requestVars
    <3>2. /\ r \in request_geo \cup reaped /\ age[r] <= MaxWait
          /\ r \in reaped => age[r] > MaxAge + sinceReaped[r]
      BY <3>1 DEF Inv, RequestOK, AwaitedIsKnown
    <3>3. age[r] \in Nat /\ sinceReaped[r] \in Nat /\ MaxAge \in Nat /\ MaxWait \in Nat
      BY TimesAssumption DEF Inv, Types
    <3>4. r \notin Pruned
      BY <3>2, <3>3 DEF MemoryOutlastsQueues, Pruned, PruneHorizon
    <3>5. r \in Stale => age[r] > MaxAge /\ sinceReaped'[r] = 0
      BY DEF Stale, Sweep
    <3>6. r \notin Stale => sinceReaped'[r] = sinceReaped[r]
      BY DEF Sweep
    <3> QED
      BY <3>2, <3>3, <3>4, <3>5, <3>6 DEF Sweep
  <2>3. WaitingIsOld(r)'
    <3>1. phase = "stopping" /\ r \in request_geo \ late => r \in Stale
      BY OldWhenStopped DEF Stale
    <3> QED
      BY <3>1 DEF Inv, RequestOK, WaitingIsOld, Sweep, requestVars
  <2>4. InTimeWaits(r)'
    <3>1. r \in request_geo /\ age[r] <= MaxAge => r \notin Stale
      BY TimesAssumption DEF Inv, Types, Stale
    <3>2. r \in Stale => books[r] = <<>> /\ r \in request_geo
      BY DEF Inv, RequestOK, GeoIsUnbooked, Stale
    <3>3. <<"COMPLETED">> # <<>>
      OBVIOUS
    <3> QED
      BY <1>0, <3>1, <3>2, <3>3 DEF Inv, RequestOK, InTimeWaits, Sweep, requestVars
  <2> QED  BY <2>1, <2>2, <2>3, <2>4 DEF RequestOK
<1> QED  BY <1>1, <1>2 DEF Inv

\* The phases of the run.
LEMMA PhaseKeeps == ASSUME Inv, Stop \/ Finalize PROVE Inv'
<1>1. Types' /\ SweptInTime'
  BY TypeStep DEF Inv, Next
<1>2. ASSUME NEW r \in Requests PROVE RequestOK(r)'
  <2>1. NewIsNowhere(r)' /\ GeoIsUnbooked(r)' /\ ReportedOnce(r)' /\ BookIsShort(r)'
    BY DEF Inv, Types, RequestOK, NewIsNowhere, GeoIsUnbooked, ReportedOnce, BookIsShort,
       Outcomes, Stop, Finalize, requestVars, runVars
  <2>2. AwaitedIsKnown(r)'
    BY TimesAssumption DEF Inv, Types, SweptInTime, RequestOK, AwaitedIsKnown, Awaited,
       LoopsRun, NewIsNowhere, Stop, Finalize, requestVars, runVars
  <2>3. WaitingIsOld(r)'
    BY TimesAssumption DEF Inv, Types, ClockOK, SweptInTime, RequestOK, WaitingIsOld, Stop, Finalize, requestVars, runVars
  <2>4. InTimeWaits(r)'
    <3>1. r \in request_geo \ late /\ Stop => age[r] > MaxAge
      BY OldWhenStopped DEF Stop
    <3> QED
      BY <3>1, TimesAssumption DEF Inv, Types, RequestOK, InTimeWaits, Stop, Finalize, requestVars
  <2> QED  BY <2>1, <2>2, <2>3, <2>4 DEF RequestOK
<1> QED  BY <1>1, <1>2 DEF Inv

\* A unit of time.
LEMMA TimeKeeps == ASSUME Inv, TimePasses PROVE Inv'
<1>1. Types' /\ SweptInTime'
  BY TypeStep DEF Inv, Next
<1>2. ASSUME NEW r \in Requests PROVE RequestOK(r)'
  <2>1. NewIsNowhere(r)' /\ GeoIsUnbooked(r)' /\ ReportedOnce(r)' /\ BookIsShort(r)'
    BY DEF Inv, Types, RequestOK, NewIsNowhere, GeoIsUnbooked, ReportedOnce, BookIsShort,
       Outcomes, TimePasses
  <2>2. AwaitedIsKnown(r)'
    BY TimesAssumption DEF Inv, Types, SweptInTime, RequestOK, AwaitedIsKnown, Awaited,
       LoopsRun, NewIsNowhere, TimePasses
  <2>3. WaitingIsOld(r)'
    BY TimesAssumption DEF Inv, Types, ClockOK, SweptInTime, RequestOK, WaitingIsOld, TimePasses
  <2>4. InTimeWaits(r)'
    BY DEF Inv, Types, RequestOK, InTimeWaits, TimePasses
  <2> QED  BY <2>1, <2>2, <2>3, <2>4 DEF RequestOK
<1> QED  BY <1>1, <1>2 DEF Inv

\* The invariant is inductive.
LEMMA NextInv ==
  ASSUME MemoryOutlastsQueues
  PROVE  Inv /\ [Next]_vars => Inv'
<1> SUFFICES ASSUME Inv, [Next]_vars PROVE Inv'
  OBVIOUS
<1>1. CASE UNCHANGED vars
  BY <1>1 DEF vars, requestVars, runVars, Inv, Types, ClockOK, SweptInTime, RequestOK, NewIsNowhere, GeoIsUnbooked,
     AwaitedIsKnown, ReportedOnce, WaitingIsOld, InTimeWaits, BookIsShort, Awaited, LoopsRun
<1> QED
  BY <1>1, RouteKeeps, RejectKeeps, EndKeeps, DrainKeeps, SweepKeeps, PhaseKeeps, TimeKeeps
     DEF Next

\* The invariant holds in every state.
LEMMA InvHolds ==
  ASSUME MemoryOutlastsQueues
  PROVE  Spec => []Inv
BY InitInv, NextInv, PTL DEF Spec

----------------------------------------------------------------------------
(* The theorems.                                                           *)

\* The types hold, and no entry of _request_geo or _reaped_request_ids outlives
\* the sweep that follows the end of its time, for any delays.
THEOREM LedgerTypeCorrect == Spec => []TypeOK
<1>1. Init => Types /\ SweptInTime
  BY TimesAssumption DEF Init, Types, ClockOK, SweptInTime
<1>2. Types /\ SweptInTime => TypeOK
  BY TimesAssumption DEF Types, ClockOK, SweptInTime, TypeOK, PruneHorizon
<1> QED
  BY <1>1, <1>2, TypeStep, PTL DEF Spec

\* What a pod reports within max_age, of a request that came while more than
\* max_age was left, is in the report as completed: neither _reap_lost_requests,
\* which may see the request while its completion waits in Redis, nor
\* _prune_reaped_ids nor the end of drain_completion_queue takes that away.
THEOREM InTimeIsCompleted ==
  ASSUME MemoryOutlastsQueues
  PROVE  Spec => []ReportedInTimeIsCompleted
<1>1. Inv => ReportedInTimeIsCompleted
  BY DEF Inv, RequestOK, InTimeWaits, ReportedInTimeIsCompleted
<1> QED
  BY <1>1, InvHolds, PTL

\* What the promise calls the requests that arrived, and the report.
Arrived == {q \in Requests : status[q] # "new"}
Reported == phase = "reported"

\* A pass that books the requests of R, which were not booked, under o.
LEMMA BookStep ==
  ASSUME Inv, NEW R \in SUBSET Requests, NEW o \in Outcomes, Record(R, o),
         \A q \in R : books[q] = <<>>, ~Reported, UNCHANGED Reported,
         Arrived' = Arrived \cup R
  PROVE  Accounting!AccountingNext
<1>1. books' = [q \in Requests |-> IF q \in R THEN <<o>> ELSE books[q]]
  BY RecordOnce DEF Inv
<1> QED
  BY <1>1 DEF Accounting!AccountingNext, Accounting!Book, Accounting!Unbooked, Arrived, Reported

\* The step of the promise for every step of the dispatcher.
LEMMA AccountingStep ==
  Inv /\ [Next]_vars => [Accounting!AccountingNext]_<<Arrived, books, Reported>>
<1> SUFFICES ASSUME Inv, [Next]_vars
             PROVE  Accounting!AccountingNext \/ UNCHANGED <<Arrived, books, Reported>>
  OBVIOUS
<1>0. status \in [Requests -> {"new", "routed", "in_time", "over"}]
  BY DEF Inv, Types
<1>1. ASSUME NEW q \in Requests, Route(q) PROVE Accounting!AccountingNext
  <2>1. Arrived' = Arrived \cup {q} /\ UNCHANGED <<books, Reported>> /\ ~Reported
    BY <1>0, <1>1 DEF Route, Serving, runVars, Arrived, Reported
  <2>2. Accounting!Arrive({q})
    BY <2>1 DEF Accounting!Arrive, Arrived, Reported
  <2> QED
    BY <2>1, <2>2 DEF Accounting!AccountingNext, Reported
<1>2. ASSUME NEW q \in Requests, Reject(q) PROVE Accounting!AccountingNext
  <2>1. Arrived' = Arrived \cup {q} /\ ~Reported /\ UNCHANGED Reported
    BY <1>0, <1>2 DEF Reject, Serving, runVars, Arrived, Reported
  <2>2. books[q] = <<>>
    BY <1>2 DEF Inv, RequestOK, NewIsNowhere, Reject
  <2> QED
    BY <1>2, <2>1, <2>2, BookStep DEF Reject, Outcomes
<1>3. ASSUME NEW q \in Requests, Complete(q) \/ Vanish(q)
      PROVE  UNCHANGED <<Arrived, books, Reported>>
  BY <1>0, <1>3 DEF Complete, Vanish, runVars, Arrived, Reported
<1>4. CASE DrainCompletions
  <2>1. ~Reported /\ UNCHANGED <<Arrived, Reported>> /\ LoopsRun
    BY <1>4 DEF DrainCompletions, requestVars, runVars, Arrived, Reported, LoopsRun
  <2>2. NewlyDone \subseteq Arrived /\ \A q \in NewlyDone : books[q] = <<>>
    BY <2>1, NewlyDoneWaits DEF Inv, RequestOK, NewIsNowhere, Arrived
  <2> QED
    BY <1>4, <2>1, <2>2, BookStep DEF DrainCompletions, Outcomes, Arrived
<1>5. CASE Sweep
  <2>1. ~Reported /\ UNCHANGED <<Arrived, Reported>>
    BY <1>5 DEF Sweep, requestVars, Arrived, Reported
  <2>2. Stale \subseteq Arrived /\ \A q \in Stale : books[q] = <<>>
    BY DEF Inv, Types, RequestOK, NewIsNowhere, GeoIsUnbooked, Arrived, Stale
  <2> QED
    BY <1>5, <2>1, <2>2, BookStep DEF Sweep, BookedAsLost, Outcomes, Arrived
<1>6. CASE Finalize
  <2>1. \A q \in Arrived \ late : books[q] # <<>>
    BY <1>6 DEF Inv, RequestOK, GeoIsUnbooked, WaitingIsOld, Finalize, Arrived
  <2>2. ~Reported /\ Reported' /\ UNCHANGED <<Arrived, books>>
    BY <1>6 DEF Finalize, requestVars, Arrived, Reported
  <2>3. Accounting!Report
    BY <2>1, <2>2 DEF Accounting!Report, Accounting!Unbooked, Arrived, Reported
  <2> QED
    BY <2>2, <2>3 DEF Accounting!AccountingNext, Reported
<1>7. CASE TimePasses \/ Stop \/ UNCHANGED vars
  BY <1>7 DEF TimePasses, Stop, vars, requestVars, runVars, Arrived, Reported
<1> QED
  BY <1>1, <1>2, <1>3, <1>4, <1>5, <1>6, <1>7 DEF Next

\* No request is booked twice, and each that reached the dispatcher while more
\* than max_age was left until _lifetime_watcher stops it is in the report,
\* whenever the client starts and as long as the sweeper's memory outlasts the
\* queues (route_request, drain_completion_queue, _reap_lost_requests,
\* _prune_reaped_ids).
THEOREM LedgerKeepsThePromise ==
  ASSUME MemoryOutlastsQueues
  PROVE  Spec => ImplementsAccounting
<1>1. Init => Accounting!AccountingInit
  BY DEF Init, Accounting!AccountingInit
<1>2. Inv /\ [Next]_vars => [Accounting!AccountingNext]_Accounting!accountingVars
  BY AccountingStep DEF Accounting!accountingVars, Arrived, Reported
<1> QED
  BY InvHolds, <1>1, <1>2, PTL DEF Spec, ImplementsAccounting, Accounting!AccountingSpec
=============================================================================
