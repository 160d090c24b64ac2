---------------------------- MODULE RequestLedger ---------------------------
(***************************************************************************)
(* The accounting of requests in RealtimeEngine: _request_geo holds those  *)
(* routed and not yet accounted for, drain_completion_queue records those  *)
(* the pods report, the sweeper declares the others lost after max_age and *)
(* remembers them for prune_horizon, so that a late completion is not      *)
(* recorded again.  src/k8s_adapter/realtime_dispatcher.py.                *)
(*                                                                         *)
(* Time passes in units of 5 s.  The event loop runs each handler to its   *)
(* end: every action is one handler, or one pass of a loop.                *)
(*                                                                         *)
(* The client that replays the trace is another process, started by hand:  *)
(* the dispatcher's clock says nothing about its own, and a request may    *)
(* come at any time while the server is up.                                *)
(***************************************************************************)
EXTENDS Integers, Sequences

CONSTANTS
  Requests,         \* request ids
  SweepInterval,    \* RESERVATION_SWEEP_INTERVAL_SEC
  MaxAge,           \* max_age: longest deadline + the sweep interval + 5 s
  MaxWait,          \* the longest a request waits in a pod
  Lifetime          \* span_sec + margin_sec, what _lifetime_watcher sleeps

ASSUME TimesAssumption == {SweepInterval, MaxAge, MaxWait, Lifetime} \subseteq Nat \ {0}

PruneHorizon == 2 * MaxAge

Outcomes == {"REJECTED", "COMPLETED", "LOST_NO_COMPLETION"}

VARIABLES
  status,           \* where each request is; "in_time": reported within max_age
  age,              \* time since it was routed, until it is over and accounted for
  request_geo,      \* keys of _request_geo
  reaped,           \* keys of _reaped_request_ids ...
  sinceReaped,      \* ... and the time since each was reaped
  completions,      \* edge:metrics:completions, as a set
  books,            \* the outcomes record_request was given for each request
  sinceSweep,       \* time since the sweeper's last pass
  clock,            \* time since run() began its loops
  phase,            \* "running": _running holds
  late              \* history: came when no more than max_age was left to the stop

requestVars == <<status, age, late>>
runVars == <<sinceSweep, clock, phase>>
vars == <<requestVars, request_geo, reaped, sinceReaped, completions, books, runVars>>

Init ==
  /\ status = [q \in Requests |-> "new"]
  /\ age = [q \in Requests |-> 0]
  /\ request_geo = {}
  /\ reaped = {}
  /\ sinceReaped = [q \in Requests |-> 0]
  /\ completions = {}
  /\ books = [q \in Requests |-> <<>>]
  /\ sinceSweep = 0 /\ clock = 0
  /\ phase = "running"
  /\ late = {}

Record(R, outcome) ==
  books' = [q \in Requests |-> IF q \in R THEN Append(books[q], outcome) ELSE books[q]]

\* uvicorn serves until _serve_and_shutdown has seen, within a second, that
\* _running no longer holds.
Serving == clock <= Lifetime /\ phase # "reported"

\* route_request, when a replica admits the request.  It does not look at _running.
Route(q) ==
  /\ Serving /\ status[q] = "new"
  /\ status' = [status EXCEPT ![q] = "routed"]
  /\ request_geo' = request_geo \cup {q}
  /\ late' = IF clock + MaxAge >= Lifetime THEN late \cup {q} ELSE late
  /\ UNCHANGED <<age, reaped, sinceReaped, completions, books, runVars>>

\* route_request, when none does.
Reject(q) ==
  /\ Serving /\ status[q] = "new"
  /\ status' = [status EXCEPT ![q] = "over"]
  /\ Record({q}, "REJECTED")
  /\ UNCHANGED <<age, late, request_geo, reaped, sinceReaped, completions, runVars>>

\* The pod's RPUSH.
Complete(q) ==
  /\ status[q] = "routed"
  /\ status' = [status EXCEPT ![q] = IF age[q] <= MaxAge THEN "in_time" ELSE "over"]
  /\ completions' = completions \cup {q}
  /\ UNCHANGED <<age, late, request_geo, reaped, sinceReaped, books, runVars>>

\* The request, its pod or its completion is lost.
Vanish(q) ==
  /\ status[q] = "routed"
  /\ status' = [status EXCEPT ![q] = "over"]
  /\ UNCHANGED <<age, late, request_geo, reaped, sinceReaped, completions, books, runVars>>

\* record_external_completion skips those recorded as lost.
NewlyDoneAll == completions                       \* fault: no check
NewlyDone == completions \ reaped

\* One pass of drain_completion_queue.
DrainCompletions ==
  /\ phase = "running" /\ completions # {}
  /\ Record(NewlyDone, "COMPLETED")
  /\ request_geo' = request_geo \ completions
  /\ completions' = {}
  /\ UNCHANGED <<requestVars, reaped, sinceReaped, runVars>>

StaleAnyAge == request_geo                        \* fault: max_age is not waited for
Stale == {q \in request_geo : age[q] > MaxAge}

BookedAsLostNone == {}                            \* fault: dropped without a record
BookedAsLost == Stale

PrunedNever == {}                                 \* fault: no pruning
Pruned == {q \in reaped : sinceReaped[q] > PruneHorizon}

\* One pass of _reservation_sweeper_loop: _reap_lost_requests and then
\* _prune_reaped_ids.  The loop makes one more pass after the run stops.
Sweep ==
  /\ sinceSweep = SweepInterval /\ phase \in {"running", "stopping"}
  /\ Record(BookedAsLost, "LOST_NO_COMPLETION")
  /\ request_geo' = request_geo \ Stale
  /\ reaped' = (reaped \ Pruned) \cup Stale
  /\ sinceReaped' = [q \in Requests |-> IF q \in Stale THEN 0 ELSE sinceReaped[q]]
  /\ sinceSweep' = 0
  /\ phase' = IF phase = "stopping" THEN "stopped" ELSE phase
  /\ UNCHANGED <<requestVars, completions, clock>>

\* _lifetime_watcher: the loops end.
Stop ==
  /\ phase = "running" /\ clock = Lifetime
  /\ phase' = "stopping"
  /\ UNCHANGED <<requestVars, request_geo, reaped, sinceReaped, completions, books, sinceSweep, clock>>

\* run() returns metrics.finalize.
Finalize ==
  /\ phase = "stopped"
  /\ phase' = "reported"
  /\ UNCHANGED <<requestVars, request_geo, reaped, sinceReaped, completions, books, sinceSweep, clock>>

\* Completions are drained every 0.2 s, within the unit, and no pod keeps a
\* request for longer than MaxWait.
TimePasses ==
  /\ sinceSweep < SweepInterval
  /\ \/ phase = "running" /\ clock < Lifetime /\ completions = {}
     \/ phase = "stopping"
  /\ \A q \in Requests : status[q] = "routed" => age[q] < MaxWait
  /\ age' = [q \in Requests |-> IF q \in request_geo \/ status[q] = "routed"
                                  THEN age[q] + 1 ELSE 0]
  /\ sinceReaped' = [q \in Requests |-> IF q \in reaped THEN sinceReaped[q] + 1 ELSE 0]
  /\ sinceSweep' = sinceSweep + 1 /\ clock' = clock + 1
  /\ UNCHANGED <<status, late, request_geo, reaped, completions, books, phase>>

Next ==
  \/ \E q \in Requests : Route(q) \/ Reject(q) \/ Complete(q) \/ Vanish(q)
  \/ DrainCompletions \/ Sweep \/ TimePasses
  \/ Stop \/ Finalize

Spec == Init /\ [][Next]_vars

----------------------------------------------------------------------------
\* The type of every variable.  Nothing is remembered for ever: an entry of
\* _request_geo or _reaped_request_ids is dropped by the sweep that follows the
\* end of its time.
TypeOK ==
  /\ status \in [Requests -> {"new", "routed", "in_time", "over"}]
  /\ age \in [Requests -> Nat] /\ sinceReaped \in [Requests -> Nat]
  /\ request_geo \subseteq Requests /\ reaped \subseteq Requests
  /\ completions \subseteq Requests /\ late \subseteq Requests
  /\ \A q \in request_geo : age[q] <= MaxAge + SweepInterval
  /\ \A q \in reaped : sinceReaped[q] <= PruneHorizon + SweepInterval
  /\ \A q \in Requests : books[q] \in Seq(Outcomes)
  /\ sinceSweep \in 0..SweepInterval /\ clock \in 0..(Lifetime + SweepInterval)
  /\ phase \in {"running", "stopping", "stopped", "reported"}

\* A request is recorded once: a completion that comes after the request was
\* declared lost is not recorded again.
CountedOnce == \A q \in Requests : Len(books[q]) <= 1

\* What a pod reports within max_age is not lost, by the sweeper, the pruning or
\* the stop: unless it came when no more than max_age was left, the request is in
\* the report as completed.
ReportedInTimeIsCompleted ==
  \A q \in Requests \ late :
    status[q] = "in_time" => \/ books[q] = <<"COMPLETED">>
                             \/ books[q] = <<>> /\ phase # "reported"

\* The dispatcher's records refine the promise: each request is booked at most
\* once, and each that came while more than max_age was left until the stop is
\* in the report.  Those that come later, as they do when the client is started
\* long after the dispatcher, may be in no outcome at all: nothing records what
\* is still in _request_geo when the sweeper has made its last pass.
Accounting == INSTANCE RequestAccounting WITH
                arrived <- {q \in Requests : status[q] # "new"},
                reported <- phase = "reported",
                excused <- late
ImplementsAccounting == Accounting!AccountingSpec
=============================================================================
