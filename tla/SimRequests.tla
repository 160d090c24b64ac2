----------------------------- MODULE SimRequests ----------------------------
(***************************************************************************)
(* The requests of one service in the simulator: their way from the trace  *)
(* through the dispatcher to the queue of a replica, the counters that the *)
(* decision ticks read and clear, and the end of the run.                  *)
(* src/simulator/engine.py, common/models.py, common/rolling_signal.py.    *)
(*                                                                         *)
(* Times are relative to now; a clock step is one unit, and step() goes    *)
(* over several when no event is due.  Events of one instant come in any   *)
(* order: they stand for events less than a unit apart.                    *)
(***************************************************************************)
EXTENDS Integers, Sequences, FiniteSets

CONSTANTS
  Requests,       \* the rows of the trace
  Places,         \* servers that may host a replica of the service
  QueueLen,       \* queue_len of the service
  ExecTime,       \* exec_time at each place
  ColdExtra,      \* compute_cold_start_penalty_sec at each place
  ColdWindow,     \* compute_cold_start_window_sec at each place
  RoutingDelays,  \* round trips to the dispatcher
  DrainDelay,     \* graceful_termination_delay_sec
  Interval,       \* decision_interval_sec
  Margin,         \* from the last row to _cutoff
  MaxGap          \* bound: the longest pause in the trace

ASSUME QueueAssumption ==
  /\ QueueLen \in Nat \ {0} /\ ExecTime \in [Places -> Nat \ {0}]
  /\ ColdExtra \in [Places -> Nat] /\ ColdWindow \in [Places -> Nat]
  /\ DrainDelay \in Nat
ASSUME ClockAssumption ==
  Interval \in Nat \ {0} /\ Margin \in Nat /\ MaxGap \in Nat
\* A round trip to the dispatcher takes milliseconds: it ends within a decision
\* interval, and _cutoff leaves it server_drain_grace_sec beside an interval.
ASSUME RoutingAssumption ==
  \A d \in RoutingDelays : d \in 1..(Interval - 1) /\ d + Interval <= Margin
ASSUME RequestsAssumption == IsFiniteSet(Requests)

RollingTicks == 3

Rejected == {"REJECTED_NO_REPLICA", "REJECTED_QUEUE_FULL"}
Outcomes == Rejected \cup {"IN_TIME", "LATE"}   \* COMPLETED, deadline_violated or not

VARIABLES
  status,      \* "new": still in the trace; "routing"; "over"
  delay,       \* time to REQUEST_ROUTED
  state,       \* state of the replica at each place, "NONE" before it is READY
  readyFor,    \* time since ready_since, up to the cold-start window
  departures,  \* finish times, from now, of the requests it still has
  available,   \* available_at, from now
  ending,      \* time to REPLICA_TERMINATED
  books,       \* the outcomes record_request was given for each request
  tick,        \* _tick_total, _tick_rejected and _tick_violated
  shown,       \* history: the sum of what the ticks have read in them
  rolling,     \* the windows of RollingRejectionTracker
  toTick,      \* time to DECISION_TICK
  sinceLast,   \* time since the last arrival
  finished     \* run() has returned the report

replicaVars == <<state, readyFor, departures, available, ending>>
clockVars == <<toTick, sinceLast, finished>>
vars == <<status, delay, replicaVars, books, tick, shown, rolling, clockVars>>

Zero == [total |-> 0, rejected |-> 0, violated |-> 0]

Init ==
  /\ status = [q \in Requests |-> "new"]
  /\ delay = [q \in Requests |-> 0]
  /\ state = [p \in Places |-> "NONE"]
  /\ readyFor = [p \in Places |-> 0]
  /\ departures = [p \in Places |-> <<>>]
  /\ available = [p \in Places |-> 0]
  /\ ending = [p \in Places |-> 0]
  /\ books = [q \in Requests |-> <<>>]
  /\ tick = Zero /\ shown = Zero /\ rolling = <<>>
  /\ toTick = 0 /\ sinceLast = 0 /\ finished = FALSE

TraceOver == \A q \in Requests : status[q] # "new"
Begun == \E q \in Requests : status[q] # "new"

----------------------------------------------------------------------------
Count(total, rejected, violated) ==
  [total    |-> tick.total + total,
   rejected |-> tick.rejected + rejected,
   violated |-> tick.violated + violated]

\* The rows are in order.  Requests differ in nothing else: any order will do.
NextRow == CHOOSE q \in Requests : status[q] = "new"

\* _handle_arrival.
Arrive(q, d) ==
  /\ ~finished /\ status[q] = "new" /\ q = NextRow
  /\ status' = [status EXCEPT ![q] = "routing"]
  /\ delay' = [delay EXCEPT ![q] = d]
  /\ tick' = Count(1, 0, 0)
  /\ sinceLast' = 0
  /\ UNCHANGED <<replicaVars, books, shown, rolling, toTick, finished>>

Selectable == {p \in Places : state[p] = "READY"}

\* queue_occupancy: the departures up to now have left the deque.
Occupancy(p) == Len(departures[p])

WithRoomOneMore == {p \in Selectable : Occupancy(p) <= QueueLen}      \* fault: <= for <
WithRoom == {p \in Selectable : Occupancy(p) < QueueLen}

StartAtOnce(p) == 0                               \* fault: available_at is not asked
Start(p) == available[p]

ServiceTime(p) == ExecTime[p] + (IF readyFor[p] <= ColdWindow[p] THEN ColdExtra[p] ELSE 0)

Book(q, outcome) ==
  /\ status' = [status EXCEPT ![q] = "over"]
  /\ books' = [books EXCEPT ![q] = Append(@, outcome)]

IsRouted(q) == ~finished /\ status[q] = "routing" /\ delay[q] = 0

\* _handle_routed when select_replica finds no replica with room.
Reject(q) ==
  /\ IsRouted(q) /\ WithRoom = {}
  /\ Book(q, IF Selectable = {} THEN "REJECTED_NO_REPLICA" ELSE "REJECTED_QUEUE_FULL")
  /\ tick' = Count(0, 1, 1)
  /\ UNCHANGED <<delay, replicaVars, shown, rolling, clockVars>>

\* _handle_routed with the replica that select_replica chose.  The outcome is
\* booked at once, from the finish time that try_admit computes.
Admit(q, p, outcome) ==
  /\ IsRouted(q) /\ p \in WithRoom
  /\ LET finish == Start(p) + ServiceTime(p)
     IN  /\ departures' = [departures EXCEPT ![p] = Append(@, finish)]
         /\ available' = [available EXCEPT ![p] = finish]
  /\ Book(q, outcome)
  /\ tick' = Count(0, 0, IF outcome = "LATE" THEN 1 ELSE 0)
  /\ UNCHANGED <<delay, state, readyFor, ending, shown, rolling, clockVars>>

----------------------------------------------------------------------------
\* _handle_replica_ready.  The replica is a new object, with an empty queue.
BecomeReady(p) ==
  /\ ~finished /\ state[p] = "NONE"
  /\ state' = [state EXCEPT ![p] = "READY"]
  /\ readyFor' = [readyFor EXCEPT ![p] = 0]
  /\ UNCHANGED <<status, delay, departures, available, ending, books, tick, shown, rolling, clockVars>>

DrainWaitFixed(p) == DrainDelay                   \* fault: the queue is not waited for
DrainWait(p) == IF available[p] > DrainDelay THEN available[p] ELSE DrainDelay

\* _start_replica_drain.
StartDrain(p) ==
  /\ ~finished /\ state[p] = "READY"
  /\ state' = [state EXCEPT ![p] = "DRAINING"]
  /\ ending' = [ending EXCEPT ![p] = DrainWait(p)]
  /\ UNCHANGED <<status, delay, readyFor, departures, available, books, tick, shown, rolling, clockVars>>

\* _handle_replica_terminated: the object and its queue are dropped.
Terminate(p) ==
  /\ ~finished /\ state[p] = "DRAINING" /\ ending[p] = 0
  /\ state' = [state EXCEPT ![p] = "NONE"]
  /\ readyFor' = [readyFor EXCEPT ![p] = 0]
  /\ departures' = [departures EXCEPT ![p] = <<>>]
  /\ available' = [available EXCEPT ![p] = 0]
  /\ UNCHANGED <<status, delay, ending, books, tick, shown, rolling, clockVars>>

----------------------------------------------------------------------------
Sum(a, b) == [total |-> a.total + b.total, rejected |-> a.rejected + b.rejected,
              violated |-> a.violated + b.violated]

\* deque(maxlen = ROLLING_TICKS).
PushTickAll(w, e) == Append(w, e)                 \* fault: no maxlen
PushTickLast(w, e) == <<e>>                       \* fault: a window of one tick
PushTick(w, e) == IF Len(w) < RollingTicks THEN Append(w, e) ELSE Append(Tail(w), e)

\* rolling_rejection_rate, 0 when the window has no arrivals.
RollingRateIsPositive(w) ==
  (\E i \in DOMAIN w : w[i].rejected > 0) /\ (\E i \in DOMAIN w : w[i].arrivals > 0)

ClearedNoRejections(c) == [Zero EXCEPT !.rejected = c.rejected]   \* fault: one is not cleared
Cleared(c) == Zero

NextTickNow == 0                                  \* fault: pushed at now
NextTick == Interval

\* _handle_decision_tick: what it reads of requests, and what it clears.  Its
\* decisions become the steps of the replicas above.
DecisionTick ==
  /\ ~finished /\ toTick = 0 /\ Begun
  /\ rolling' = PushTick(rolling, [arrivals |-> tick.total, rejected |-> tick.rejected])
  /\ shown' = Sum(shown, tick)
  /\ tick' = Cleared(tick)
  /\ toTick' = NextTick
  /\ UNCHANGED <<status, delay, replicaVars, books, sinceLast, finished>>

NothingDue ==
  /\ \A q \in Requests : ~IsRouted(q)
  /\ toTick > 0
  /\ \A p \in Places : state[p] = "DRAINING" => ending[p] > 0

Less(n) == IF n > 0 THEN n - 1 ELSE 0

\* Finish times are at least a unit apart: one request leaves at a time.
Later(s) ==
  IF s # <<>> /\ Head(s) = 1 THEN [i \in 1..(Len(s) - 1) |-> s[i + 1] - 1]
                             ELSE [i \in DOMAIN s |-> s[i] - 1]

AtEndOfTrace == TraceOver                         \* fault: the run stops at the last row
AtCutoffSoon == TraceOver /\ sinceLast = Margin - Interval   \* fault: no room for a tick
AtCutoff == TraceOver /\ sinceLast = Margin

\* step() moves now on.  The trace has no pause longer than MaxGap.
TimePasses ==
  /\ ~finished /\ Begun /\ NothingDue /\ ~AtCutoff
  /\ ~TraceOver => sinceLast < MaxGap
  /\ delay' = [q \in Requests |-> Less(delay[q])]
  /\ readyFor' = [p \in Places |-> IF state[p] # "NONE" /\ readyFor[p] <= ColdWindow[p]
                                     THEN readyFor[p] + 1 ELSE readyFor[p]]
  /\ departures' = [p \in Places |-> Later(departures[p])]
  /\ available' = [p \in Places |-> Less(available[p])]
  /\ ending' = [p \in Places |-> Less(ending[p])]
  /\ toTick' = toTick - 1 /\ sinceLast' = sinceLast + 1
  /\ UNCHANGED <<status, state, books, tick, shown, rolling, finished>>

\* The next event is later than _cutoff: step() says done and run() returns.
Finish ==
  /\ ~finished /\ AtCutoff /\ NothingDue
  /\ finished' = TRUE
  /\ UNCHANGED <<status, delay, replicaVars, books, tick, shown, rolling, toTick, sinceLast>>

Next ==
  \/ \E q \in Requests, d \in RoutingDelays : Arrive(q, d)
  \/ \E q \in Requests : Reject(q)
  \/ \E q \in Requests, p \in Places, o \in Outcomes \ Rejected : Admit(q, p, o)
  \/ \E p \in Places : BecomeReady(p) \/ StartDrain(p) \/ Terminate(p)
  \/ DecisionTick \/ TimePasses \/ Finish

Spec == Init /\ [][Next]_vars

\* run() calls step() until it is done.
FairSpec == Spec /\ WF_vars(Next)

----------------------------------------------------------------------------
Counted(outcomes) == Cardinality({q \in Requests : \E i \in DOMAIN books[q] : books[q][i] \in outcomes})

\* The type of every variable.
TypeOK ==
  /\ status \in [Requests -> {"new", "routing", "over"}]
  /\ delay \in [Requests -> Nat]
  /\ state \in [Places -> {"NONE", "READY", "DRAINING"}]
  /\ readyFor \in [Places -> Nat]
  /\ departures \in [Places -> Seq(Nat \ {0})]
  /\ available \in [Places -> Nat] /\ ending \in [Places -> Nat]
  /\ books \in [Requests -> Seq(Outcomes)]
  /\ tick \in [total : Nat, rejected : Nat, violated : Nat]
  /\ shown \in [total : Nat, rejected : Nat, violated : Nat]
  /\ rolling \in Seq([arrivals : Nat, rejected : Nat]) /\ Len(rolling) <= RollingTicks
  /\ toTick \in 0..Interval /\ sinceLast \in Nat /\ finished \in BOOLEAN

\* What the ticks are shown agrees with the report: every arrival, rejection
\* and violation is in one tick's counters, and in the report (_tick_* in
\* _handle_arrival and _handle_routed, record_request in _finalize_request).
TicksMatchReport ==
  Sum(shown, tick) = [total    |-> Cardinality({q \in Requests : status[q] # "new"}),
                      rejected |-> Counted(Rejected),
                      violated |-> Counted(Rejected \cup {"LATE"})]

\* No arrival, rejection or violation comes too late for a tick to read it:
\* _cutoff leaves room for one after the last request is over.
TicksSeeEverything == finished => tick = Zero

\* Both: the decisions and the report are made from the same requests.
TicksTellTheReport == TicksMatchReport /\ TicksSeeEverything

\* A rejection shows in rejection_rate_rolling at the tick that reads it and at
\* the next one, although the request may have arrived in an earlier tick than it
\* was rejected in, and the tick that rejects it may see no arrival at all.  Not at
\* the third: the window may then hold the rejection and no arrival, and the rate
\* is 0, if nothing has arrived since.
RejectionsAreSeen ==
  \A i \in DOMAIN rolling :
    Len(rolling) - i < 2 /\ rolling[i].rejected > 0 => RollingRateIsPositive(rolling)

\* available_at is the last departure of the deque, and the drain that waits
\* for it can take QueueLen executions, no longer.
BacklogBounded ==
  \A p \in Places :
    /\ available[p] = IF departures[p] = <<>> THEN 0 ELSE departures[p][Len(departures[p])]
    /\ available[p] <= QueueLen * (ExecTime[p] + ColdExtra[p])

\* try_admit, which keeps only finish times, and the drain, which drops them,
\* implement a FIFO server with a bounded queue whose jobs are all done.
JobsOf(s) == [i \in DOMAIN s |-> IF i = 1 THEN s[1] ELSE s[i] - s[i - 1]]
Fifo == INSTANCE FifoServer WITH
          Room <- QueueLen,
          Work <- {ExecTime[p] : p \in Places} \cup {ExecTime[p] + ColdExtra[p] : p \in Places},
          jobs <- [p \in Places |-> JobsOf(departures[p])]
ImplementsFifo == Fifo!FifoSpec

\* The simulator keeps the promise of the k8s dispatcher about its report.
Accounting == INSTANCE RequestAccounting WITH
                arrived <- {q \in Requests : status[q] # "new"},
                reported <- finished,
                excused <- {}
ImplementsAccounting == Accounting!AccountingSpec

\* The run ends, whatever requests and replicas do.
RunEnds == <>finished
=============================================================================
