------------------------- MODULE SimRequests_proofs -------------------------
(***************************************************************************)
(* Proofs about SimRequests, for every set of requests and of places, every *)
(* queue_len, execution time and delay: the replicas are FIFO servers with *)
(* bounded queues, and ticks and report are made from the same requests.   *)
(***************************************************************************)
EXTENDS SimRequests, SequenceTheorems, FiniteSetTheorems, TLAPS

Longest(p) == ExecTime[p] + ColdExtra[p]

\* Finish times are ordered, and those of k requests in a row span at most k
\* executions, the first of which may have begun.
Ordered(s) == \A i, j \in 1..Len(s) : i < j => s[i] < s[j]
Spaced(s, m) ==
  /\ s # <<>> => s[1] <= m
  /\ \A i, j \in 1..Len(s) : i <= j => s[j] - s[i] <= (j - i) * m

\* What is left of the queue of one replica.
QueueOK(p) ==
  /\ Len(departures[p]) <= QueueLen
  /\ Ordered(departures[p])
  /\ Spaced(departures[p], Longest(p))
  /\ available[p] = IF departures[p] = <<>> THEN 0 ELSE departures[p][Len(departures[p])]
  /\ state[p] = "NONE" => departures[p] = <<>>
  /\ state[p] = "DRAINING" => available[p] <= ending[p]

QueueInv == \A p \in Places : QueueOK(p)

Inv == TypeOK /\ QueueInv

----------------------------------------------------------------------------
\* A function over 1..n is a sequence of length n.
LEMMA FunctionIsSeq ==
  ASSUME NEW S, NEW n \in Nat, NEW t \in [1..n -> S]
  PROVE  t \in Seq(S) /\ Len(t) = n
<1>1. t \in Seq(S)
  BY SeqDef, Zenon
<1>2. 1..Len(t) = 1..n /\ Len(t) \in Nat
  BY <1>1, LenProperties
<1> QED
  BY <1>1, <1>2

\* The finish times one unit of time later.
LEMMA LaterSeq ==
  ASSUME NEW s \in Seq(Nat \ {0}), Ordered(s), NEW m \in Nat, Spaced(s, m)
  PROVE  /\ Later(s) \in Seq(Nat \ {0})
         /\ Len(Later(s)) <= Len(s)
         /\ Ordered(Later(s)) /\ Spaced(Later(s), m)
         /\ s # <<>> => IF Later(s) = <<>> THEN s[Len(s)] = 1
                        ELSE Later(s)[Len(Later(s))] = s[Len(s)] - 1
         /\ s = <<>> => Later(s) = <<>>
<1>0. Len(s) \in Nat /\ DOMAIN s = 1..Len(s) /\ \A i \in 1..Len(s) : s[i] \in Nat \ {0}
  BY LenProperties, ElementOfSeq
<1>1. CASE s # <<>> /\ Head(s) = 1
  <2> DEFINE n == Len(s) - 1
             t == [i \in 1..n |-> s[i + 1] - 1]
  <2>1. Len(s) >= 1 /\ n \in Nat /\ s[1] = 1
    BY <1>1, <1>0, EmptySeq
  <2>2. \A i \in 1..n : i + 1 \in 2..Len(s) /\ s[i + 1] \in Nat \ {0}
    BY <2>1, <1>0
  <2>3. \A i \in 1..n : s[i + 1] - 1 \in Nat \ {0}
    <3> SUFFICES ASSUME NEW i \in 1..n PROVE s[i + 1] > 1
      BY <2>2
    <3>1. s[1] < s[i + 1]
      BY <2>1, <2>2 DEF Ordered
    <3> QED
      BY <3>1, <2>1, <2>2
  <2>4. t \in [1..n -> Nat \ {0}]
    BY <2>3
  <2>5. t \in Seq(Nat \ {0}) /\ Len(t) = n
    BY <2>4, <2>1, FunctionIsSeq, ZenonT(40)
  <2>6. \A i \in 1..n : t[i] = s[i + 1] - 1
    OBVIOUS
  <2>7. Later(s) = t
    BY <1>1 DEF Later
  <2> HIDE DEF t
  <2>8. Ordered(t)
    <3> SUFFICES ASSUME NEW i \in 1..n, NEW j \in 1..n, i < j PROVE t[i] < t[j]
      BY <2>5 DEF Ordered
    <3>1. s[i + 1] < s[j + 1]
      BY <2>1, <2>2 DEF Ordered
    <3>2. /\ t[i] = s[i + 1] - 1 /\ t[j] = s[j + 1] - 1
          /\ s[i + 1] \in Nat /\ s[j + 1] \in Nat
      BY <2>2, <2>6
    <3>3. \A a, b \in Nat : a < b => a - 1 < b - 1
      OBVIOUS
    <3> QED
      BY <3>1, <3>2, <3>3
  <2>9. Spaced(t, m)
    <3>1. t # <<>> => t[1] <= m
      <4> SUFFICES ASSUME t # <<>> PROVE t[1] <= m
        OBVIOUS
      <4>1. n >= 1
        BY <2>5, EmptySeq
      <4>2. s[2] - s[1] <= (2 - 1) * m
        BY <4>1, <2>1 DEF Spaced
      <4>3. t[1] = s[2] - 1 /\ s[2] \in Nat
        BY <4>1, <2>6, <2>2, <2>1
      <4> QED
        BY <4>2, <4>3, <2>1
    <3>2. ASSUME NEW i \in 1..n, NEW j \in 1..n, i <= j
          PROVE  t[j] - t[i] <= (j - i) * m
      <4>1. s[j + 1] - s[i + 1] <= ((j + 1) - (i + 1)) * m
        BY <3>2, <2>1 DEF Spaced
      <4>2. (j + 1) - (i + 1) = j - i
        BY <2>1
      <4>3. t[j] = s[j + 1] - 1 /\ t[i] = s[i + 1] - 1 /\ s[j + 1] \in Nat /\ s[i + 1] \in Nat
        BY <2>6, <2>2
      <4> QED
        BY <4>1, <4>2, <4>3, SMTT(40)
    <3> QED
      BY <3>1, <3>2, <2>5 DEF Spaced
  <2>10. IF t = <<>> THEN s[Len(s)] = 1 ELSE t[Len(t)] = s[Len(s)] - 1
    <3>1. CASE n = 0
      BY <3>1, <2>1, <2>5, EmptySeq
    <3>2. CASE n > 0
      BY <3>2, <2>1, <2>5, <2>6, EmptySeq
    <3>3. n = 0 \/ n > 0
      BY <2>1, <1>0
    <3> QED
      BY <3>1, <3>2, <3>3
  <2> QED
    BY <1>1, <1>0, <2>1, <2>5, <2>7, <2>8, <2>9, <2>10
<1>2. CASE ~(s # <<>> /\ Head(s) = 1)
  <2> DEFINE t == [i \in 1..Len(s) |-> s[i] - 1]
  <2>1. \A i \in 1..Len(s) : s[i] > 1
    <3> SUFFICES ASSUME NEW i \in 1..Len(s) PROVE s[i] > 1
      OBVIOUS
    <3>1. s # <<>> /\ 1 \in 1..Len(s) /\ s[1] # 1 /\ s[1] \in Nat \ {0}
      BY <1>0, <1>2, EmptySeq
    <3>2. i = 1 \/ s[1] < s[i]
      BY <3>1, <1>0 DEF Ordered
    <3> QED
      BY <3>1, <3>2, <1>0
  <2>2. t \in [1..Len(s) -> Nat \ {0}]
    BY <2>1, <1>0
  <2>3. t \in Seq(Nat \ {0}) /\ Len(t) = Len(s)
    BY <2>2, <1>0, FunctionIsSeq
  <2>4. Later(s) = t
    BY <1>2, <1>0 DEF Later
  <2>5. \A i \in 1..Len(s) : t[i] = s[i] - 1
    OBVIOUS
  <2> HIDE DEF t
  <2>6. Ordered(t)
    BY <1>0, <2>3, <2>5 DEF Ordered
  <2>7. Spaced(t, m)
    <3>1. t # <<>> => t[1] <= m
      BY <1>0, <2>3, <2>5, EmptySeq DEF Spaced
    <3>2. ASSUME NEW i \in 1..Len(s), NEW j \in 1..Len(s), i <= j
          PROVE  t[j] - t[i] <= (j - i) * m
      <4>1. s[j] - s[i] <= (j - i) * m
        BY <3>2 DEF Spaced
      <4> QED
        BY <4>1, <2>5, <1>0
    <3> QED
      BY <3>1, <3>2, <2>3 DEF Spaced
  <2>8. s # <<>> => t # <<>> /\ t[Len(t)] = s[Len(s)] - 1
    BY <1>0, <2>3, <2>5, EmptySeq
  <2>9. s = <<>> => t = <<>>
    BY <1>0, <2>3, EmptySeq
  <2> QED
    BY <2>3, <2>4, <2>6, <2>7, <2>8, <2>9, <1>0
<1> QED
  BY <1>1, <1>2

\* What try_admit appends.
LEMMA AppendSeq ==
  ASSUME NEW s \in Seq(Nat \ {0}), Ordered(s), NEW m \in Nat, Spaced(s, m),
         NEW a \in Nat, s = <<>> => a = 0, s # <<>> => a = s[Len(s)],
         NEW w \in 1..m
  PROVE  /\ Append(s, a + w) \in Seq(Nat \ {0})
         /\ Len(Append(s, a + w)) = Len(s) + 1
         /\ Append(s, a + w) # <<>>
         /\ Append(s, a + w)[Len(s) + 1] = a + w
         /\ Ordered(Append(s, a + w)) /\ Spaced(Append(s, a + w), m)
<1> DEFINE t == Append(s, a + w)
           n == Len(s)
<1>0. n \in Nat /\ \A i \in 1..n : s[i] \in Nat \ {0}
  BY LenProperties, ElementOfSeq
<1>1. /\ t \in Seq(Nat \ {0}) /\ Len(t) = n + 1
      /\ \A i \in 1..n : t[i] = s[i]
      /\ t[n + 1] = a + w
  BY AppendProperties
<1>2. t # <<>>
  BY <1>0, <1>1, EmptySeq
<1>3. \A i \in 1..n : s[i] <= a
  <2> SUFFICES ASSUME NEW i \in 1..n PROVE s[i] <= a
    OBVIOUS
  <2>1. s # <<>> /\ a = s[n] /\ n \in 1..n
    BY <1>0, EmptySeq
  <2>2. i = n \/ s[i] < s[n]
    BY <2>1, <1>0 DEF Ordered
  <2> QED
    BY <2>1, <2>2, <1>0
<1> HIDE DEF t
<1>4. Ordered(t)
  <2> SUFFICES ASSUME NEW i \in 1..(n + 1), NEW j \in 1..(n + 1), i < j PROVE t[i] < t[j]
    BY <1>1 DEF Ordered
  <2>1. CASE j = n + 1
    <3>1. i \in 1..n /\ t[i] = s[i] /\ s[i] <= a /\ s[i] \in Nat
      BY <2>1, <1>0, <1>1, <1>3
    <3> QED
      BY <2>1, <3>1, <1>1
  <2>2. CASE j # n + 1
    <3>1. i \in 1..n /\ j \in 1..n
      BY <2>2, <1>0
    <3> QED
      BY <3>1, <1>1 DEF Ordered
  <2> QED
    BY <2>1, <2>2
<1>5. Spaced(t, m)
  <2>1. t[1] <= m
    <3>1. CASE s = <<>>
      BY <3>1, <1>1, EmptySeq
    <3>2. CASE s # <<>>
      <4>1. 1 \in 1..n
        BY <3>2, <1>0, EmptySeq
      <4> QED
        BY <3>2, <4>1, <1>1 DEF Spaced
    <3> QED
      BY <3>1, <3>2
  <2>2. ASSUME NEW i \in 1..(n + 1), NEW j \in 1..(n + 1), i <= j
        PROVE  t[j] - t[i] <= (j - i) * m
    <3>1. CASE j # n + 1
      <4>1. i \in 1..n /\ j \in 1..n
        BY <2>2, <3>1, <1>0
      <4> QED
        BY <4>1, <2>2, <1>1 DEF Spaced
    <3>2. CASE i = n + 1
      <4>1. j = n + 1 /\ (j - i) * m = 0
        BY <2>2, <3>2, <1>0
      <4> QED
        BY <3>2, <4>1, <1>1
    <3>3. CASE j = n + 1 /\ i \in 1..n
      <4>1. a = s[n] /\ n \in 1..n /\ i <= n
        BY <3>3, <1>0, EmptySeq
      <4>2. s[n] - s[i] <= (n - i) * m
        BY <4>1, <3>3 DEF Spaced
      <4>3. (j - i) * m = (n - i) * m + m
        BY <3>3, <1>0
      <4>4. t[j] = s[n] + w /\ t[i] = s[i] /\ s[n] \in Nat /\ s[i] \in Nat
        BY <3>3, <4>1, <1>0, <1>1
      <4>5. (n - i) * m \in Int
        BY <3>3, <1>0
      <4>6. \A x \in Int : s[n] - s[i] <= x => s[n] + w - s[i] <= x + m
        BY <4>4, SMTT(40)
      <4>7. s[n] + w - s[i] <= (n - i) * m + m
        BY <4>2, <4>5, <4>6
      <4> QED
        BY <4>3, <4>4, <4>7
    <3> QED
      BY <3>1, <3>2, <3>3, <1>0
  <2> QED
    BY <2>1, <2>2, <1>1 DEF Spaced
<1> QED
  BY <1>0, <1>1, <1>2, <1>4, <1>5 DEF t

\* A full queue takes queue_len executions at most.
LEMMA LastBound ==
  ASSUME NEW s \in Seq(Nat \ {0}), NEW m \in Nat, Spaced(s, m), s # <<>>,
         NEW k \in Nat, Len(s) <= k
  PROVE  s[Len(s)] <= k * m
<1> DEFINE n == Len(s)
<1>1. n \in Nat /\ n >= 1 /\ s[1] \in Nat /\ s[n] \in Nat
  BY EmptySeq, ElementOfSeq, LenProperties
<1>2. s[n] - s[1] <= (n - 1) * m /\ s[1] <= m
  BY <1>1 DEF Spaced
<1>3. (n - 1) * m = n * m - m /\ n * m \in Nat /\ k * m \in Nat
  BY <1>1
<1>4. k * m = n * m + (k - n) * m /\ (k - n) * m \in Nat
  BY <1>1
<1> HIDE DEF n
<1>5. s[n] <= k * m
  BY <1>1, <1>2, <1>3, <1>4, SMTT(40)
<1> QED
  BY <1>5 DEF n

----------------------------------------------------------------------------
Counters == [total : Nat, rejected : Nat, violated : Nat]

\* The window stays short.
LEMMA PushTickType ==
  ASSUME NEW S, NEW w \in Seq(S), Len(w) <= RollingTicks, NEW x \in S
  PROVE  PushTick(w, x) \in Seq(S) /\ Len(PushTick(w, x)) <= RollingTicks
<1>0. Len(w) \in Nat /\ Len(w) <= 3
  BY LenProperties DEF RollingTicks
<1>1. CASE Len(w) < 3
  <2>1. Append(w, x) \in Seq(S) /\ Len(Append(w, x)) = Len(w) + 1
    BY AppendProperties
  <2> QED
    BY <1>0, <1>1, <2>1 DEF PushTick, RollingTicks
<1>2. CASE Len(w) = 3
  <2>1. w # <<>>
    BY <1>2, EmptySeq
  <2>2. Tail(w) \in Seq(S) /\ Len(Tail(w)) = 2
    BY <1>2, <2>1, HeadTailProperties
  <2>3. Append(Tail(w), x) \in Seq(S) /\ Len(Append(Tail(w), x)) = 3
    BY <2>2, AppendProperties
  <2> QED
    <3>1. PushTick(w, x) = Append(Tail(w), x)
      BY <1>2 DEF PushTick, RollingTicks
    <3>2. 3 <= RollingTicks
      BY DEF RollingTicks
    <3> QED
      BY <2>3, <3>1, <3>2
<1>3. \A k \in Nat : k <= 3 => k < 3 \/ k = 3
  OBVIOUS
<1> QED
  BY <1>0, <1>1, <1>2, <1>3, Zenon

USE QueueAssumption, ClockAssumption

\* A service takes a positive time, within the longest (try_admit).
LEMMA ServiceTimeType ==
  ASSUME NEW p \in Places
  PROVE  Longest(p) \in Nat /\ ServiceTime(p) \in 1..Longest(p)
<1>1. ExecTime[p] \in Nat \ {0} /\ ColdExtra[p] \in Nat
  OBVIOUS
<1> QED
  BY <1>1 DEF ServiceTime, Longest

\* The invariant holds before the first event (prime).
LEMMA InitInv == Init => Inv
<1> SUFFICES ASSUME Init PROVE Inv
  OBVIOUS
<1>0. /\ <<>> \in Seq(Outcomes) /\ <<>> \in Seq(Nat \ {0})
      /\ <<>> \in Seq([arrivals : Nat, rejected : Nat]) /\ Len(<<>>) = 0
  BY EmptySeq
<1>1. TypeOK
  <2>1. rolling \in Seq([arrivals : Nat, rejected : Nat]) /\ Len(rolling) <= RollingTicks
    BY <1>0 DEF Init, RollingTicks
  <2>2. tick \in Counters /\ shown \in Counters
    BY DEF Init, Counters, Zero
  <2>3. /\ books \in [Requests -> Seq(Outcomes)]
        /\ departures \in [Places -> Seq(Nat \ {0})]
    BY <1>0 DEF Init
  <2>a. finished \in BOOLEAN
    BY Zenon DEF Init
  <2>4. /\ toTick \in 0..Interval /\ sinceLast \in Nat
        /\ available \in [Places -> Nat] /\ ending \in [Places -> Nat]
    BY DEF Init
  <2>5. /\ status \in [Requests -> {"new", "routing", "over"}] /\ delay \in [Requests -> Nat]
        /\ state \in [Places -> {"NONE", "READY", "DRAINING"}] /\ readyFor \in [Places -> Nat]
    BY DEF Init
  <2> QED
    BY <2>1, <2>2, <2>3, <2>a, <2>4, <2>5, Zenon DEF TypeOK, Counters
<1>2. QueueInv
  BY EmptySeq DEF Init, QueueInv, QueueOK, Ordered, Spaced
<1> QED
  BY <1>1, <1>2 DEF Inv

\* Every handler keeps the types.
LEMMA TypeStep == TypeOK /\ QueueInv /\ [Next]_vars => TypeOK'
<1> SUFFICES ASSUME TypeOK, QueueInv, [Next]_vars PROVE TypeOK'
  OBVIOUS
<1> USE DEF TypeOK, replicaVars, clockVars
<1>a. /\ tick.total \in Nat /\ tick.rejected \in Nat /\ tick.violated \in Nat
      /\ shown.total \in Nat /\ shown.rejected \in Nat /\ shown.violated \in Nat
  OBVIOUS
<1>b. ASSUME NEW q \in Requests, NEW o \in Outcomes, Book(q, o)
      PROVE  status' \in [Requests -> {"new", "routing", "over"}] /\ books' \in [Requests -> Seq(Outcomes)]
  <2>1. Append(books[q], o) \in Seq(Outcomes)
    BY AppendProperties
  <2> QED
    BY <1>b, <2>1 DEF Book
<1>1. ASSUME NEW q \in Requests, NEW d \in RoutingDelays, Arrive(q, d) PROVE TypeOK'
  <2>1. d \in Nat
    BY RoutingAssumption
  <2>2. tick' \in Counters
    BY <1>1, <1>a DEF Arrive, Count, Counters
  <2> QED
    BY <1>1, <2>1, <2>2 DEF Arrive, Counters
<1>2. ASSUME NEW q \in Requests, Reject(q) PROVE TypeOK'
  <2>1. tick' \in Counters
    BY <1>2, <1>a DEF Reject, Count, Counters
  <2>2. status' \in [Requests -> {"new", "routing", "over"}] /\ books' \in [Requests -> Seq(Outcomes)]
    BY <1>2, <1>b DEF Reject, Outcomes, Rejected
  <2> QED
    BY <1>2, <2>1, <2>2 DEF Reject, Counters
<1>3. ASSUME NEW q \in Requests, NEW p \in Places, NEW o \in Outcomes \ Rejected, Admit(q, p, o)
      PROVE  TypeOK'
  <2>1. tick' \in Counters
    BY <1>3, <1>a, SMTT(40) DEF Admit, Count, Counters
  <2>2. status' \in [Requests -> {"new", "routing", "over"}] /\ books' \in [Requests -> Seq(Outcomes)]
    BY <1>3, <1>b DEF Admit
  <2> DEFINE f == Start(p) + ServiceTime(p)
  <2>3. f \in Nat \ {0}
    <3>1. available[p] \in Nat
      OBVIOUS
    <3> QED
      BY <3>1, ServiceTimeType, SMTT(40) DEF Start
  <2>4. departures' = [departures EXCEPT ![p] = Append(@, f)] /\ available' = [available EXCEPT ![p] = f]
    BY <1>3 DEF Admit
  <2> HIDE DEF f
  <2>5. Append(departures[p], f) \in Seq(Nat \ {0})
    BY <2>3, AppendProperties
  <2>6. departures' \in [Places -> Seq(Nat \ {0})] /\ available' \in [Places -> Nat]
    BY <2>3, <2>4, <2>5
  <2> QED
    BY <1>3, <2>1, <2>2, <2>6 DEF Admit, Counters
<1>4. ASSUME NEW p \in Places, BecomeReady(p) PROVE TypeOK'
  BY <1>4 DEF BecomeReady
<1>5. ASSUME NEW p \in Places, StartDrain(p) PROVE TypeOK'
  BY <1>5 DEF StartDrain, DrainWait
<1>6. ASSUME NEW p \in Places, Terminate(p) PROVE TypeOK'
  BY <1>6, SMTT(40) DEF Terminate
<1>7. CASE DecisionTick
  <2> DEFINE E == [arrivals : Nat, rejected : Nat]
             e == [arrivals |-> tick.total, rejected |-> tick.rejected]
  <2>1. e \in E /\ rolling \in Seq(E) /\ rolling' = PushTick(rolling, e)
    BY <1>7, <1>a DEF DecisionTick
  <2> HIDE DEF E, e
  <2>2. rolling' \in Seq(E) /\ Len(rolling') <= RollingTicks
    BY <2>1, PushTickType
  <2>3. tick' \in Counters /\ shown' \in Counters
    BY <1>7, <1>a DEF DecisionTick, Sum, Cleared, Zero, Counters
  <2> QED
    BY <1>7, <2>2, <2>3, SMTT(40) DEF DecisionTick, NextTick, E, Counters
<1>8. CASE TimePasses
  <2>1. departures' \in [Places -> Seq(Nat \ {0})]
    BY <1>8, LaterSeq DEF TimePasses, QueueInv, QueueOK, Longest
  <2>2. \A n \in Nat : Less(n) \in Nat
    BY DEF Less
  <2>3. readyFor' \in [Places -> Nat]
    BY <1>8 DEF TimePasses
  <2>4. toTick' \in 0..Interval /\ sinceLast' \in Nat
    BY <1>8 DEF TimePasses, NothingDue
  <2> QED
    BY <1>8, <2>1, <2>2, <2>3, <2>4 DEF TimePasses
<1>9. CASE Finish
  BY <1>9 DEF Finish
<1>10. CASE UNCHANGED vars
  BY <1>10 DEF vars
<1> QED
  BY <1>1, <1>2, <1>3, <1>4, <1>5, <1>6, <1>7, <1>8, <1>9, <1>10 DEF Next

\* A step that leaves a replica alone leaves its queue as it was.
LEMMA QueueUnchanged ==
  ASSUME NEW p \in Places, QueueOK(p), state'[p] = state[p],
         departures'[p] = departures[p], available'[p] = available[p], ending'[p] = ending[p]
  PROVE  QueueOK(p)'
BY DEF QueueOK, Longest

\* Every handler keeps the queues as QueueOK says.
LEMMA QueueStep == TypeOK /\ QueueInv /\ [Next]_vars => QueueInv'
<1> SUFFICES ASSUME TypeOK, QueueInv, [Next]_vars, NEW r \in Places PROVE QueueOK(r)'
  BY DEF QueueInv
<1>0. /\ QueueOK(r) /\ departures[r] \in Seq(Nat \ {0}) /\ Longest(r) \in Nat
      /\ available[r] \in Nat /\ ending[r] \in Nat
  BY DEF QueueInv, TypeOK, Longest
<1> USE DEF replicaVars, clockVars
<1>1. ASSUME NEW q \in Requests, NEW d \in RoutingDelays, Arrive(q, d) PROVE QueueOK(r)'
  BY <1>1, <1>0, QueueUnchanged DEF Arrive
<1>2. ASSUME NEW q \in Requests, Reject(q) PROVE QueueOK(r)'
  BY <1>2, <1>0, QueueUnchanged DEF Reject
<1>3. ASSUME NEW q \in Requests, NEW p \in Places, NEW o \in Outcomes \ Rejected, Admit(q, p, o)
      PROVE  QueueOK(r)'
  <2>1. CASE r # p
    BY <1>3, <2>1, <1>0, QueueUnchanged DEF Admit, TypeOK
  <2>2. CASE r = p
    <3> DEFINE s == departures[r]
               a == available[r]
               m == Longest(r)
               w == ServiceTime(r)
               t == Append(s, a + w)
    <3>1. w \in 1..m /\ m \in Nat /\ s \in Seq(Nat \ {0}) /\ a \in Nat
      BY <1>0, ServiceTimeType
    <3>2. /\ departures'[r] = t /\ available'[r] = a + w
          /\ state'[r] = "READY" /\ Len(s) < QueueLen
      BY <1>3, <2>2 DEF Admit, Start, WithRoom, Selectable, Occupancy, TypeOK
    <3>3. Ordered(s) /\ Spaced(s, m) /\ (s = <<>> => a = 0) /\ (s # <<>> => a = s[Len(s)])
      BY <1>0 DEF QueueOK
    <3>4. QueueOK(r)' <=> /\ Len(t) <= QueueLen
                          /\ Ordered(t) /\ Spaced(t, m)
                          /\ a + w = IF t = <<>> THEN 0 ELSE t[Len(t)]
      BY <3>2 DEF QueueOK, Longest
    <3> HIDE DEF s, a, m, w
    <3>5. Len(t) = Len(s) + 1 /\ t # <<>> /\ t[Len(s) + 1] = a + w
      <4>1. w \in 1..m /\ m \in Nat /\ s \in Seq(Nat \ {0}) /\ a \in Nat
        BY <3>1
      <4>2. Len(t) = Len(s) + 1
        BY <4>1, <3>3, AppendSeq
      <4>3. Len(s) \in Nat /\ Len(<<>>) = 0
        BY <4>1, LenProperties, EmptySeq
      <4>4. t[Len(s) + 1] = a + w
        BY <4>1, <3>3, AppendSeq
      <4> HIDE DEF t
      <4>5. t # <<>>
        BY <4>2, <4>3
      <4> QED
        BY <4>2, <4>4, <4>5
    <3>6. Ordered(t) /\ Spaced(t, m)
      BY <3>1, <3>3, AppendSeq
    <3>7. Len(s) \in Nat
      BY <3>1, LenProperties
    <3> HIDE DEF t
    <3>8. Len(t) <= QueueLen
      BY <3>2, <3>5, <3>7
    <3> QED
      BY <3>4, <3>5, <3>6, <3>8
  <2> QED
    BY <2>1, <2>2
<1>4. ASSUME NEW p \in Places, BecomeReady(p) PROVE QueueOK(r)'
  <2>1. CASE r # p
    BY <1>4, <2>1, <1>0, QueueUnchanged DEF BecomeReady, TypeOK
  <2>2. CASE r = p
    <3>1. /\ departures'[r] = departures[r] /\ available'[r] = available[r]
          /\ state'[r] = "READY"
      BY <1>4, <2>2 DEF BecomeReady, TypeOK
    <3>2. QueueOK(r)' <=> /\ Len(departures[r]) <= QueueLen
                          /\ Ordered(departures[r]) /\ Spaced(departures[r], Longest(r))
                          /\ available[r] = (IF departures[r] = <<>> THEN 0
                                            ELSE departures[r][Len(departures[r])])
      BY <3>1 DEF QueueOK, Longest
    <3> QED
      BY <3>2, <1>0 DEF QueueOK
  <2> QED
    BY <2>1, <2>2
<1>5. ASSUME NEW p \in Places, StartDrain(p) PROVE QueueOK(r)'
  <2>1. CASE r # p
    BY <1>5, <2>1, <1>0, QueueUnchanged DEF StartDrain, TypeOK
  <2>2. CASE r = p
    <3>1. /\ departures'[r] = departures[r] /\ available'[r] = available[r]
          /\ state[r] = "READY" /\ state'[r] = "DRAINING"
          /\ ending'[r] = DrainWait(r)
      BY <1>5, <2>2 DEF StartDrain, TypeOK
    <3>2. available[r] <= DrainWait(r)
      BY <1>0 DEF DrainWait
    <3>3. QueueOK(r)' <=> /\ Len(departures[r]) <= QueueLen
                          /\ Ordered(departures[r]) /\ Spaced(departures[r], Longest(r))
                          /\ available[r] = (IF departures[r] = <<>> THEN 0
                                            ELSE departures[r][Len(departures[r])])
                          /\ available[r] <= DrainWait(r)
      BY <3>1 DEF QueueOK, Longest
    <3> QED
      BY <3>2, <3>3, <1>0 DEF QueueOK
  <2> QED
    BY <2>1, <2>2
<1>6. ASSUME NEW p \in Places, Terminate(p) PROVE QueueOK(r)'
  <2>1. CASE r # p
    BY <1>6, <2>1, <1>0, QueueUnchanged DEF Terminate, TypeOK
  <2>2. CASE r = p
    <3>1. departures'[r] = <<>> /\ available'[r] = 0 /\ state'[r] = "NONE"
      BY <1>6, <2>2 DEF Terminate, TypeOK
    <3>2. QueueOK(r)' <=> /\ Len(<<>>) <= QueueLen
                          /\ Ordered(<<>>) /\ Spaced(<<>>, Longest(r))
      BY <3>1 DEF QueueOK, Longest
    <3>3. Ordered(<<>>) /\ Spaced(<<>>, Longest(r)) /\ Len(<<>>) <= QueueLen
      BY EmptySeq, QueueAssumption DEF Ordered, Spaced
    <3> QED
      BY <3>2, <3>3
  <2> QED
    BY <2>1, <2>2
<1>7. CASE DecisionTick
  BY <1>7, <1>0, QueueUnchanged DEF DecisionTick
<1>8. CASE TimePasses
  <2> DEFINE s == departures[r]
             t == Later(s)
  <2>1. /\ departures'[r] = t /\ available'[r] = Less(available[r])
        /\ ending'[r] = Less(ending[r]) /\ state'[r] = state[r]
    BY <1>8 DEF TimePasses
  <2>2. /\ Len(t) <= Len(s) /\ Ordered(t) /\ Spaced(t, Longest(r))
        /\ s # <<>> => IF t = <<>> THEN s[Len(s)] = 1 ELSE t[Len(t)] = s[Len(s)] - 1
        /\ s = <<>> => t = <<>>
        /\ t \in Seq(Nat \ {0})
    BY <1>0, LaterSeq DEF QueueOK
  <2>3. Len(s) \in Nat /\ Len(t) \in Nat /\ (s # <<>> => s[Len(s)] \in Nat \ {0})
    BY <1>0, <2>2, LenProperties, EmptySeq, ElementOfSeq
  <2> HIDE DEF t
  <2>a. available[r] = IF s = <<>> THEN 0 ELSE s[Len(s)]
    BY <1>0 DEF QueueOK
  <2>4. Less(available[r]) = IF t = <<>> THEN 0 ELSE t[Len(t)]
    <3> HIDE DEF s
    <3>1. CASE s = <<>>
      BY <2>2, <2>a, <3>1 DEF Less
    <3>2. CASE s # <<>>
      <4>1. /\ available[r] = s[Len(s)] /\ s[Len(s)] \in Nat \ {0}
            /\ IF t = <<>> THEN s[Len(s)] = 1 ELSE t[Len(t)] = s[Len(s)] - 1
        BY <2>2, <2>3, <2>a, <3>2
      <4>2. Less(available[r]) = s[Len(s)] - 1
        BY <4>1 DEF Less
      <4> QED
        BY <4>1, <4>2
    <3> QED
      BY <3>1, <3>2
  <2>5. available[r] <= ending[r] => Less(available[r]) <= Less(ending[r])
    BY <1>0 DEF Less
  <2>6. Len(t) <= QueueLen
    BY <1>0, <2>2, <2>3 DEF QueueOK
  <2> QED
    BY <1>0, <2>1, <2>2, <2>4, <2>5, <2>6 DEF QueueOK, Longest
<1>9. CASE Finish
  BY <1>9, <1>0, QueueUnchanged DEF Finish
<1>10. CASE UNCHANGED vars
  BY <1>10, <1>0, QueueUnchanged DEF vars
<1> QED
  BY <1>1, <1>2, <1>3, <1>4, <1>5, <1>6, <1>7, <1>8, <1>9, <1>10 DEF Next

\* The queues are as QueueOK says in every state.
THEOREM InvHolds == Spec => []Inv
<1>1. Inv /\ [Next]_vars => Inv'
  BY TypeStep, QueueStep DEF Inv
<1> QED
  BY InitInv, <1>1, PTL DEF Spec

\* Every state is well-typed, whatever the queues and the delays (all handlers).
THEOREM RequestsTypeCorrect == Spec => []TypeOK
<1>1. Inv => TypeOK
  BY DEF Inv
<1> QED
  BY InvHolds, <1>1, PTL

\* available_at is the last departure, and no queue holds more work than
\* queue_len executions (Replica.try_admit, queue_occupancy).
THEOREM BacklogIsBounded == Spec => []BacklogBounded
<1>1. Inv => BacklogBounded
  <2> SUFFICES ASSUME Inv, NEW p \in Places
               PROVE  /\ available[p] = IF departures[p] = <<>> THEN 0
                                        ELSE departures[p][Len(departures[p])]
                      /\ available[p] <= QueueLen * (ExecTime[p] + ColdExtra[p])
    BY DEF BacklogBounded
  <2>1. QueueOK(p) /\ departures[p] \in Seq(Nat \ {0}) /\ Longest(p) \in Nat
    BY ServiceTimeType DEF Inv, QueueInv, TypeOK
  <2>2. CASE departures[p] = <<>>
    <3>1. 0 <= QueueLen * Longest(p)
      BY <2>1
    <3> QED
      BY <2>1, <2>2, <3>1 DEF QueueOK, Longest
  <2>3. CASE departures[p] # <<>>
    <3>1. departures[p][Len(departures[p])] <= QueueLen * Longest(p)
      BY <2>1, <2>3, LastBound DEF QueueOK
    <3> QED
      BY <2>1, <2>3, <3>1 DEF QueueOK, Longest
  <2> QED
    BY <2>2, <2>3
<1> QED
  BY InvHolds, <1>1, PTL

----------------------------------------------------------------------------
\* The jobs of a sequence of finish times.
LEMMA JobsSeq ==
  ASSUME NEW s \in Seq(Nat \ {0})
  PROVE  /\ JobsOf(s) \in Seq(Int) /\ Len(JobsOf(s)) = Len(s)
         /\ \A i \in 1..Len(s) : JobsOf(s)[i] = IF i = 1 THEN s[1] ELSE s[i] - s[i - 1]
         /\ JobsOf(s) = <<>> <=> s = <<>>
<1>0. Len(s) \in Nat /\ DOMAIN s = 1..Len(s) /\ \A i \in 1..Len(s) : s[i] \in Nat
  BY LenProperties, ElementOfSeq
<1>1. JobsOf(s) = [i \in 1..Len(s) |-> IF i = 1 THEN s[1] ELSE s[i] - s[i - 1]]
  BY <1>0 DEF JobsOf
<1>2. \A i \in 1..Len(s) : (IF i = 1 THEN s[1] ELSE s[i] - s[i - 1]) \in Int
  <2> SUFFICES ASSUME NEW i \in 1..Len(s) PROVE (IF i = 1 THEN s[1] ELSE s[i] - s[i - 1]) \in Int
    OBVIOUS
  <2>1. s[i] \in Nat /\ (i # 1 => s[i - 1] \in Nat)
    BY <1>0
  <2> QED
    BY <2>1
<1>3. JobsOf(s) \in [1..Len(s) -> Int]
  BY <1>1, <1>2
<1>4. JobsOf(s) \in Seq(Int) /\ Len(JobsOf(s)) = Len(s)
  BY <1>0, <1>3, FunctionIsSeq
<1>5. JobsOf(s) = <<>> <=> s = <<>>
  BY <1>4, EmptySeq
<1>6. \A i \in 1..Len(s) : JobsOf(s)[i] = IF i = 1 THEN s[1] ELSE s[i] - s[i - 1]
  BY <1>1
<1> QED
  BY <1>4, <1>5, <1>6

\* try_admit appends a job of the length of its service.
LEMMA JobsAppend ==
  ASSUME NEW s \in Seq(Nat \ {0}), NEW a \in Nat, NEW w \in Nat \ {0},
         s = <<>> => a = 0, s # <<>> => a = s[Len(s)]
  PROVE  JobsOf(Append(s, a + w)) = Append(JobsOf(s), w)
<1> DEFINE n == Len(s)
           t == Append(s, a + w)
           u == Append(JobsOf(s), w)
<1>0. n \in Nat /\ \A i \in 1..n : s[i] \in Nat \ {0}
  BY LenProperties, ElementOfSeq
<1>1. /\ t \in Seq(Nat \ {0}) /\ Len(t) = n + 1
      /\ \A i \in 1..n : t[i] = s[i]
      /\ t[n + 1] = a + w
  BY AppendProperties
<1>2. /\ JobsOf(s) \in Seq(Int) /\ Len(JobsOf(s)) = n
      /\ \A i \in 1..n : JobsOf(s)[i] = IF i = 1 THEN s[1] ELSE s[i] - s[i - 1]
  BY JobsSeq
<1>3. /\ u \in Seq(Int) /\ Len(u) = n + 1
      /\ \A i \in 1..n : u[i] = JobsOf(s)[i]
      /\ u[n + 1] = w
  BY <1>2, AppendProperties
<1> HIDE DEF t, u
<1>4. /\ JobsOf(t) \in Seq(Int) /\ Len(JobsOf(t)) = n + 1
      /\ \A i \in 1..(n + 1) : JobsOf(t)[i] = IF i = 1 THEN t[1] ELSE t[i] - t[i - 1]
  BY <1>1, JobsSeq
<1>5. ASSUME NEW i \in 1..(n + 1) PROVE JobsOf(t)[i] = u[i]
  <2>1. CASE i # n + 1
    <3>1. i \in 1..n /\ (i # 1 => i - 1 \in 1..n) /\ 1 \in 1..n
      BY <2>1, <1>0
    <3>2. JobsOf(t)[i] = IF i = 1 THEN t[1] ELSE t[i] - t[i - 1]
      BY <1>4
    <3>3. u[i] = IF i = 1 THEN s[1] ELSE s[i] - s[i - 1]
      BY <3>1, <1>2, <1>3
    <3>4. t[1] = s[1] /\ t[i] = s[i] /\ (i # 1 => t[i - 1] = s[i - 1])
      BY <3>1, <1>1
    <3> QED
      BY <3>2, <3>3, <3>4
  <2>2. CASE i = n + 1 /\ n = 0
    <3>1. a = 0
      BY <2>2, EmptySeq
    <3> QED
      BY <2>2, <3>1, <1>1, <1>3, <1>4
  <2>3. CASE i = n + 1 /\ n # 0
    <3>1. a = s[n] /\ n \in 1..n /\ i # 1 /\ i - 1 = n
      BY <2>3, <1>0, EmptySeq
    <3>2. t[n] = s[n] /\ s[n] \in Nat
      BY <3>1, <1>0, <1>1
    <3>3. JobsOf(t)[i] = t[n + 1] - t[n]
      BY <2>3, <3>1, <1>4
    <3> QED
      BY <2>3, <3>1, <3>2, <3>3, <1>1, <1>3
  <2> QED
    BY <2>1, <2>2, <2>3
<1>6. JobsOf(t) = u
  BY <1>3, <1>4, <1>5, SeqEqual
<1> QED
  BY <1>6 DEF t, u

\* A unit of time is worked on the first job, which leaves when it is done.
LEMMA JobsLater ==
  ASSUME NEW s \in Seq(Nat \ {0}), Ordered(s), NEW m \in Nat, Spaced(s, m)
  PROVE  JobsOf(Later(s)) = Fifo!Worked(JobsOf(s))
<1> DEFINE n == Len(s)
           J == JobsOf(s)
           t == Later(s)
<1>0. n \in Nat /\ DOMAIN s = 1..n /\ \A i \in 1..n : s[i] \in Nat \ {0}
  BY LenProperties, ElementOfSeq
<1>1. /\ J \in Seq(Int) /\ Len(J) = n /\ (J = <<>> <=> s = <<>>)
      /\ \A i \in 1..n : J[i] = IF i = 1 THEN s[1] ELSE s[i] - s[i - 1]
  BY JobsSeq
<1>2. t \in Seq(Nat \ {0}) /\ (s = <<>> => t = <<>>)
  BY LaterSeq
<1>3. /\ JobsOf(t) \in Seq(Int) /\ Len(JobsOf(t)) = Len(t) /\ (JobsOf(t) = <<>> <=> t = <<>>)
      /\ \A i \in 1..Len(t) : JobsOf(t)[i] = IF i = 1 THEN t[1] ELSE t[i] - t[i - 1]
  BY <1>2, JobsSeq
<1>4. CASE s = <<>>
  <2>1. J = <<>> /\ JobsOf(t) = <<>>
    BY <1>1, <1>2, <1>3, <1>4
  <2>2. Fifo!Worked(J) = J
    BY <2>1 DEF Fifo!Worked
  <2> QED
    BY <2>1, <2>2
<1>5. CASE s # <<>> /\ Head(s) = 1
  <2>1. n >= 1 /\ s[1] = 1 /\ n - 1 \in Nat
    BY <1>0, <1>5, EmptySeq
  <2>2. t = [i \in 1..(n - 1) |-> s[i + 1] - 1]
    BY <1>5 DEF Later
  <2>3. Len(t) = n - 1 /\ \A i \in 1..(n - 1) : t[i] = s[i + 1] - 1
    <3>1. DOMAIN t = 1..(n - 1) /\ \A i \in 1..(n - 1) : t[i] = s[i + 1] - 1
      BY <2>2
    <3>2. DOMAIN t = 1..Len(t) /\ Len(t) \in Nat
      BY <1>2, LenProperties
    <3> QED
      BY <2>1, <3>1, <3>2
  <2>4. J # <<>> /\ J[1] = 1 /\ Head(J) = 1
    BY <2>1, <1>1, <1>5, HeadTailProperties
  <2>5. Fifo!Worked(J) = Tail(J)
    BY <2>4 DEF Fifo!Worked
  <2>6. /\ Tail(J) \in Seq(Int) /\ Len(Tail(J)) = n - 1
        /\ \A i \in 1..(n - 1) : Tail(J)[i] = J[i + 1]
    BY <2>4, <1>1, HeadTailProperties
  <2> HIDE DEF t, J
  <2>7. ASSUME NEW i \in 1..(n - 1) PROVE JobsOf(t)[i] = Tail(J)[i]
    <3>1. /\ i \in 1..n /\ i + 1 \in 1..n /\ i + 1 # 1 /\ (i + 1) - 1 = i
          /\ (i # 1 => i - 1 \in 1..(n - 1) /\ (i - 1) + 1 = i) /\ 1 \in 1..(n - 1)
      BY <2>1
    <3>2. Tail(J)[i] = s[i + 1] - s[i]
      BY <3>1, <2>6, <1>1
    <3>3. JobsOf(t)[i] = IF i = 1 THEN t[1] ELSE t[i] - t[i - 1]
      BY <1>3, <2>3
    <3>4. t[i] = s[i + 1] - 1 /\ (i # 1 => t[i - 1] = s[i] - 1)
      BY <3>1, <2>3
    <3>5. s[i + 1] \in Nat /\ s[i] \in Nat
      BY <3>1, <1>0
    <3>6. CASE i = 1
      BY <3>2, <3>3, <3>4, <3>6, <2>1
    <3>7. CASE i # 1
      <4>1. JobsOf(t)[i] = (s[i + 1] - 1) - (s[i] - 1)
        BY <3>3, <3>4, <3>7
      <4>2. \A a, b \in Nat : (a - 1) - (b - 1) = a - b
        OBVIOUS
      <4> QED
        BY <3>2, <3>5, <4>1, <4>2
    <3> QED
      BY <3>6, <3>7
  <2>8. JobsOf(t) = Tail(J)
    <3> DEFINE u == JobsOf(t)
               v == Tail(J)
    <3>1. u \in Seq(Int) /\ v \in Seq(Int) /\ Len(u) = n - 1 /\ Len(v) = n - 1
      BY <1>3, <2>3, <2>6
    <3>2. \A i \in 1..(n - 1) : u[i] = v[i]
      BY <2>7
    <3> HIDE DEF u, v
    <3>3. u = v
      BY <3>1, <3>2, SeqEqual
    <3> QED
      BY <3>3 DEF u, v
  <2> QED
    BY <2>5, <2>8 DEF t, J
<1>6. CASE s # <<>> /\ Head(s) # 1
  <2>1. n >= 1 /\ s[1] # 1 /\ s[1] \in Nat /\ 1 \in 1..n
    BY <1>0, <1>6, EmptySeq
  <2>2. t = [i \in 1..n |-> s[i] - 1]
    BY <1>0, <1>6 DEF Later
  <2>3. Len(t) = n /\ \A i \in 1..n : t[i] = s[i] - 1
    <3>1. DOMAIN t = 1..n /\ \A i \in 1..n : t[i] = s[i] - 1
      BY <2>2
    <3>2. DOMAIN t = 1..Len(t) /\ Len(t) \in Nat
      BY <1>2, LenProperties
    <3> QED
      BY <1>0, <3>1, <3>2
  <2>4. J # <<>> /\ J[1] = s[1] /\ Head(J) = J[1]
    BY <2>1, <1>1, <1>6, HeadTailProperties
  <2>5. Fifo!Worked(J) = [J EXCEPT ![1] = J[1] - 1]
    BY <2>1, <2>4 DEF Fifo!Worked
  <2> DEFINE v == [J EXCEPT ![1] = J[1] - 1]
  <2>6. /\ v \in Seq(Int) /\ Len(v) = n
        /\ \A i \in 1..n : v[i] = IF i = 1 THEN J[1] - 1 ELSE J[i]
    <3>1. J[1] - 1 \in Int /\ 1 \in 1..Len(J)
      BY <2>1, <2>4, <1>1
    <3> QED
      BY <3>1, <1>1, ExceptSeq
  <2> HIDE DEF t, J, v
  <2>7. ASSUME NEW i \in 1..n PROVE JobsOf(t)[i] = v[i]
    <3>1. JobsOf(t)[i] = IF i = 1 THEN t[1] ELSE t[i] - t[i - 1]
      BY <1>3, <2>3
    <3>2. t[i] = s[i] - 1 /\ s[i] \in Nat /\ t[1] = s[1] - 1
      BY <2>1, <2>3, <1>0
    <3>3. CASE i = 1
      BY <3>1, <3>2, <3>3, <2>4, <2>6
    <3>4. CASE i # 1
      <4>1. i - 1 \in 1..n
        BY <3>4, <1>0
      <4>2. t[i - 1] = s[i - 1] - 1 /\ s[i - 1] \in Nat
        BY <4>1, <2>3, <1>0
      <4>3. v[i] = s[i] - s[i - 1]
        BY <3>4, <2>6, <1>1
      <4>4. JobsOf(t)[i] = t[i] - t[i - 1]
        BY <3>1, <3>4
      <4>5. \A a, b \in Int : (a - 1) - (b - 1) = a - b
        OBVIOUS
      <4>6. t[i] - t[i - 1] = (s[i] - 1) - (s[i - 1] - 1)
        BY <3>2, <4>2
      <4>7. s[i] \in Int /\ s[i - 1] \in Int
        BY <3>2, <4>2
      <4>8. (s[i] - 1) - (s[i - 1] - 1) = s[i] - s[i - 1]
        BY <4>5, <4>7
      <4> QED
        BY <4>3, <4>4, <4>6, <4>8
    <3> QED
      BY <3>3, <3>4
  <2>8. JobsOf(t) = v
    BY <1>3, <2>3, <2>6, <2>7, SeqEqual
  <2> QED
    BY <2>5, <2>8 DEF t, J, v
<1> QED
  BY <1>4, <1>5, <1>6

\* What the FIFO server is made of.
Jobs == [p \in Places |-> JobsOf(departures[p])]

\* Jobs depend on nothing but the departures.
LEMMA JobsUnchanged == departures' = departures => Jobs' = Jobs
BY DEF Jobs

\* The step of the FIFO server for every step of the request path.
LEMMA FifoStep == Inv /\ [Next]_vars => [Fifo!FifoNext]_Jobs
<1> SUFFICES ASSUME Inv, [Next]_vars PROVE Fifo!FifoNext \/ Jobs' = Jobs
  OBVIOUS
<1>0. /\ departures \in [Places -> Seq(Nat \ {0})] /\ available \in [Places -> Nat]
      /\ \A p \in Places : QueueOK(p) /\ Longest(p) \in Nat
  BY ServiceTimeType DEF Inv, TypeOK, QueueInv
<1> USE DEF replicaVars, clockVars
<1>1. ASSUME NEW q \in Requests, NEW p \in Places, NEW o \in Outcomes \ Rejected, Admit(q, p, o)
      PROVE  Fifo!FifoNext
  <2> DEFINE w == ServiceTime(p)
             s == departures[p]
  <2>1. w \in Nat \ {0} /\ w \in {ExecTime[r] : r \in Places} \cup {ExecTime[r] + ColdExtra[r] : r \in Places}
    <3>1. w \in 1..Longest(p)
      BY ServiceTimeType
    <3>2. w = ExecTime[p] + ColdExtra[p] \/ w = ExecTime[p]
      BY DEF ServiceTime
    <3> QED
      BY <3>1, <3>2, <1>0
  <2>2. departures' = [departures EXCEPT ![p] = Append(s, available[p] + w)] /\ Len(s) < QueueLen
    BY <1>1 DEF Admit, Start, WithRoom, Occupancy
  <2>3. s \in Seq(Nat \ {0}) /\ available[p] \in Nat
    BY <1>0
  <2>4. (s = <<>> => available[p] = 0) /\ (s # <<>> => available[p] = s[Len(s)])
    BY <1>0 DEF QueueOK
  <2> HIDE DEF w
  <2>5. JobsOf(Append(s, available[p] + w)) = Append(JobsOf(s), w)
    BY <2>1, <2>3, <2>4, JobsAppend
  <2>6. Jobs' = [Jobs EXCEPT ![p] = Append(Jobs[p], w)]
    BY <1>0, <2>2, <2>5 DEF Jobs
  <2>7. Len(Jobs[p]) < QueueLen
    BY <2>2, <2>3, JobsSeq DEF Jobs
  <2>8. Fifo!Enter(p)
    BY <2>1, <2>6, <2>7 DEF Fifo!Enter, Jobs
  <2> QED
    BY <2>8 DEF Fifo!FifoNext
<1>2. CASE TimePasses
  <2>1. ASSUME NEW p \in Places
        PROVE  JobsOf(departures'[p]) = Fifo!Worked(JobsOf(departures[p]))
    <3>1. departures'[p] = Later(departures[p])
      BY <1>2 DEF TimePasses
    <3> QED
      BY <3>1, <1>0, JobsLater DEF QueueOK
  <2>2. Fifo!UnitOfTime
    BY <2>1 DEF Fifo!UnitOfTime, Jobs
  <2> QED
    BY <2>2 DEF Fifo!FifoNext
<1>3. ASSUME NEW p \in Places, Terminate(p) PROVE departures' = departures
  <2>1. state[p] = "DRAINING" /\ ending[p] = 0 /\ departures' = [departures EXCEPT ![p] = <<>>]
    BY <1>3 DEF Terminate
  <2>2. available[p] = 0
    BY <2>1, <1>0 DEF QueueOK
  <2>3. departures[p] = <<>>
    <3> SUFFICES ASSUME departures[p] # <<>> PROVE FALSE
      OBVIOUS
    <3>1. departures[p] \in Seq(Nat \ {0})
      BY <1>0
    <3>2. departures[p][Len(departures[p])] \in Nat \ {0}
      BY <3>1, EmptySeq, ElementOfSeq, LenProperties
    <3> QED
      BY <3>2, <2>2, <1>0 DEF QueueOK
  <2> QED
    BY <2>1, <2>3, <1>0
<1>4. ASSUME NEW q \in Requests, NEW d \in RoutingDelays, Arrive(q, d) PROVE departures' = departures
  BY <1>4 DEF Arrive
<1>5. ASSUME NEW q \in Requests, Reject(q) PROVE departures' = departures
  BY <1>5 DEF Reject
<1>6. ASSUME NEW p \in Places, BecomeReady(p) \/ StartDrain(p) PROVE departures' = departures
  BY <1>6 DEF BecomeReady, StartDrain
<1>7. ASSUME DecisionTick \/ Finish PROVE departures' = departures
  BY <1>7 DEF DecisionTick, Finish
<1>8. ASSUME UNCHANGED vars PROVE departures' = departures
  BY <1>8 DEF vars
<1> QED
  BY <1>1, <1>2, <1>3, <1>4, <1>5, <1>6, <1>7, <1>8, JobsUnchanged DEF Next

\* Every replica is a FIFO server with a bounded queue whose jobs are all
\* done, the drain included (Replica.try_admit, _start_replica_drain).
THEOREM QueueIsFifo == Spec => ImplementsFifo
<1>1. Init => Fifo!FifoInit
  <2> SUFFICES ASSUME Init PROVE [p \in Places |-> JobsOf(departures[p])] = [p \in Places |-> <<>>]
    BY DEF Fifo!FifoInit
  <2>1. <<>> \in Seq(Nat \ {0})
    BY EmptySeq
  <2>2. JobsOf(<<>>) = <<>>
    BY <2>1, JobsSeq
  <2> QED
    BY <2>2 DEF Init
<1>2. Inv /\ [Next]_vars => [Fifo!FifoNext]_[p \in Places |-> JobsOf(departures[p])]
  BY FifoStep DEF Jobs
<1> QED
  BY InvHolds, <1>1, <1>2, PTL DEF Spec, ImplementsFifo, Fifo!FifoSpec

----------------------------------------------------------------------------
(* The counters of the ticks and the report are made from the same         *)
(* requests.                                                               *)

Routing == {q \in Requests : status[q] = "routing"}

\* Those that the coming tick may find still routing.
Young == {q \in Routing : delay[q] >= toTick}

LastArrivals == IF rolling = <<>> THEN 0 ELSE rolling[Len(rolling)].arrivals

\* A request is recorded when it is over, once.
BooksInv ==
  \A q \in Requests :
    IF status[q] = "over" THEN \E o \in Outcomes : books[q] = <<o>> ELSE books[q] = <<>>

\* After the last arrival there is time for every request to be routed, and
\* then for a tick.
TimeInv ==
  /\ \A q \in Routing : delay[q] < Interval /\ delay[q] + sinceLast <= Margin - Interval
  /\ tick # Zero => sinceLast + toTick <= Margin
  /\ finished => tick = Zero /\ Routing = {}

\* A request that may still be rejected arrived in this interval or the last.
RejectInv ==
  /\ tick.rejected + Cardinality(Routing) <= tick.total + LastArrivals
  /\ Cardinality(Young) <= tick.total

\* The rejections of a tick arrived in it or in the one before: the first tick of
\* the window aside, when the window is full and may have lost that one.
RejectionsHaveArrivals ==
  LET arr(i) == IF i \in DOMAIN rolling THEN rolling[i].arrivals ELSE 0
  IN  \A i \in DOMAIN rolling :
        i > 1 \/ Len(rolling) < RollingTicks
          => rolling[i].rejected <= arr(i) + arr(i - 1)

BookInv == Inv /\ BooksInv /\ TimeInv /\ RejectInv /\ TicksMatchReport /\ RejectionsHaveArrivals

\* What a step means for the requests, whatever replicas do.
requestVars == <<status, delay, books, tick, shown, rolling, clockVars>>
If1(c) == IF c THEN 1 ELSE 0
Booked(q, o) ==
  /\ IsRouted(q) /\ Book(q, o)
  /\ tick' = Count(0, If1(o \in Rejected), If1(o \in Rejected \cup {"LATE"}))
  /\ UNCHANGED <<delay, shown, rolling, clockVars>>

\* A step is one of six of these.
LEMMA RequestSteps ==
  ASSUME [Next]_vars
  PROVE  \/ \E q \in Requests, d \in RoutingDelays : Arrive(q, d)
         \/ \E q \in Requests, o \in Outcomes : Booked(q, o)
         \/ DecisionTick \/ TimePasses \/ Finish
         \/ UNCHANGED requestVars
<1>1. ASSUME NEW q \in Requests, Reject(q)
      PROVE  \E o \in Outcomes : Booked(q, o)
  <2>1. PICK o \in Rejected : Book(q, o)
    BY <1>1 DEF Reject, Rejected
  <2>2. If1(o \in Rejected) = 1 /\ If1(o \in Rejected \cup {"LATE"}) = 1
    BY DEF If1
  <2>3. Booked(q, o)
    BY <1>1, <2>1, <2>2 DEF Reject, Booked
  <2> QED
    BY <2>3 DEF Outcomes
<1>2. ASSUME NEW q \in Requests, NEW p \in Places, NEW o \in Outcomes \ Rejected, Admit(q, p, o)
      PROVE  Booked(q, o)
  <2>1. If1(o \in Rejected) = 0 /\ If1(o \in Rejected \cup {"LATE"}) = IF o = "LATE" THEN 1 ELSE 0
    BY DEF If1
  <2> QED
    BY <1>2, <2>1 DEF Admit, Booked
<1>3. ASSUME NEW p \in Places, BecomeReady(p) \/ StartDrain(p) \/ Terminate(p)
      PROVE  UNCHANGED requestVars
  BY <1>3 DEF BecomeReady, StartDrain, Terminate, requestVars
<1>4. UNCHANGED vars => UNCHANGED requestVars
  BY DEF vars, requestVars
<1> QED
  BY <1>1, <1>2, <1>3, <1>4 DEF Next

\* Sets of requests are finite, and their sizes follow their elements.
LEMMA RequestSets ==
  ASSUME NEW S \in SUBSET Requests
  PROVE  /\ IsFiniteSet(S) /\ Cardinality(S) \in Nat
         /\ \A q \in Requests \ S : Cardinality(S \cup {q}) = Cardinality(S) + 1
         /\ \A q \in S : Cardinality(S \ {q}) = Cardinality(S) - 1
         /\ \A T \in SUBSET S : Cardinality(T) <= Cardinality(S)
<1>1. IsFiniteSet(S)
  BY RequestsAssumption, FS_Subset
<1> QED
  BY <1>1, FS_CardinalityType, FS_AddElement, FS_RemoveElement, FS_Subset

\* What booking a request does to the books.
LEMMA BookStep ==
  ASSUME TypeOK, BooksInv, NEW q \in Requests, NEW o \in Outcomes, Booked(q, o)
  PROVE  /\ status[q] = "routing" /\ books[q] = <<>> /\ delay[q] = 0 /\ ~finished
         /\ status'[q] = "over" /\ books'[q] = <<o>>
         /\ \A r \in Requests \ {q} : status'[r] = status[r] /\ books'[r] = books[r]
<1>1. status[q] = "routing" /\ books[q] = <<>> /\ delay[q] = 0 /\ ~finished
  BY DEF Booked, IsRouted, BooksInv
<1>2. Append(<<>>, o) = <<o>>
  OBVIOUS
<1> QED
  BY <1>1, <1>2 DEF Booked, Book, TypeOK

\* Every step keeps the books.
LEMMA BooksStep == TypeOK /\ BooksInv /\ [Next]_vars => BooksInv'
<1> SUFFICES ASSUME TypeOK, BooksInv, [Next]_vars PROVE BooksInv'
  OBVIOUS
<1>1. ASSUME NEW q \in Requests, NEW d \in RoutingDelays, Arrive(q, d) PROVE BooksInv'
  <2>1. /\ status'[q] = "routing" /\ status[q] = "new" /\ UNCHANGED books
        /\ \A r \in Requests \ {q} : status'[r] = status[r]
    BY <1>1 DEF Arrive, TypeOK
  <2> QED
    BY <2>1 DEF BooksInv
<1>2. ASSUME NEW q \in Requests, NEW o \in Outcomes, Booked(q, o) PROVE BooksInv'
  BY <1>2, BookStep DEF BooksInv
<1>3. UNCHANGED <<status, books>> => BooksInv'
  BY DEF BooksInv
<1>4. DecisionTick \/ TimePasses \/ Finish \/ UNCHANGED requestVars => UNCHANGED <<status, books>>
  BY DEF DecisionTick, TimePasses, Finish, requestVars
<1> QED
  BY <1>1, <1>2, <1>3, <1>4, RequestSteps


\* The counters of a tick, as numbers.
LEMMA CounterTypes ==
  ASSUME TypeOK
  PROVE  /\ tick.total \in Nat /\ tick.rejected \in Nat /\ tick.violated \in Nat
         /\ shown.total \in Nat /\ shown.rejected \in Nat /\ shown.violated \in Nat
         /\ toTick \in 0..Interval /\ sinceLast \in Nat
         /\ \A q \in Requests : delay[q] \in Nat
         /\ Interval \in Nat \ {0} /\ Margin \in Nat
BY ClockAssumption DEF TypeOK

\* What time passing does to the requests that are routing.
LEMMA RoutingLater ==
  ASSUME TypeOK, TimePasses, NEW q \in Routing
  PROVE  delay[q] > 0 /\ delay'[q] = delay[q] - 1
<1>1. q \in Requests /\ delay[q] \in Nat /\ status[q] = "routing"
  BY DEF Routing, TypeOK
<1>2. delay[q] # 0
  BY <1>1 DEF TimePasses, NothingDue, IsRouted
<1> QED
  BY <1>1, <1>2 DEF TimePasses, Less

\* There stays time for all requests and a tick after them.
LEMMA TimeStep == TypeOK /\ BooksInv /\ TimeInv /\ [Next]_vars => TimeInv'
<1> SUFFICES ASSUME TypeOK, BooksInv, TimeInv, [Next]_vars PROVE TimeInv'
  OBVIOUS
<1>0. /\ toTick \in 0..Interval /\ sinceLast \in Nat
      /\ \A q \in Requests : delay[q] \in Nat
      /\ Interval \in Nat \ {0} /\ Margin \in Nat
  BY CounterTypes
<1>1. ASSUME NEW q \in Requests, NEW d \in RoutingDelays, Arrive(q, d) PROVE TimeInv'
  <2>1. d \in Nat /\ d < Interval /\ d + Interval <= Margin
    BY <1>0, RoutingAssumption
  <2>2. /\ sinceLast' = 0 /\ UNCHANGED <<toTick, finished>> /\ ~finished /\ delay'[q] = d
        /\ \A r \in Requests \ {q} : status'[r] = status[r] /\ delay'[r] = delay[r]
    BY <1>1 DEF Arrive, TypeOK
  <2>3. \A r \in Routing' : delay'[r] < Interval /\ delay'[r] + sinceLast' <= Margin - Interval
    BY <1>0, <2>1, <2>2 DEF TimeInv, Routing
  <2>4. sinceLast' + toTick' <= Margin
    BY <1>0, <2>1, <2>2
  <2> QED
    BY <2>2, <2>3, <2>4 DEF TimeInv
<1>2. ASSUME NEW q \in Requests, NEW o \in Outcomes, Booked(q, o) PROVE TimeInv'
  <2>1. /\ status[q] = "routing" /\ delay[q] = 0 /\ ~finished
        /\ status'[q] = "over" /\ \A r \in Requests \ {q} : status'[r] = status[r]
        /\ UNCHANGED <<delay, toTick, sinceLast, finished>>
    BY <1>2, BookStep DEF Booked, clockVars
  <2>2. Routing' \subseteq Routing /\ q \in Routing
    BY <2>1 DEF Routing
  <2>3. delay[q] + sinceLast <= Margin - Interval
    BY <2>2 DEF TimeInv
  <2>4. sinceLast' + toTick' <= Margin
    BY <1>0, <2>1, <2>3
  <2> QED
    BY <2>1, <2>2, <2>4 DEF TimeInv
<1>3. CASE DecisionTick
  <2>1. UNCHANGED <<status, delay, sinceLast, finished>> /\ ~finished /\ tick' = Zero
    BY <1>3 DEF DecisionTick, Cleared
  <2>2. Routing' = Routing
    BY <2>1 DEF Routing
  <2> QED
    BY <2>1, <2>2 DEF TimeInv
<1>4. CASE TimePasses
  <2>1. /\ UNCHANGED <<status, tick, finished>> /\ ~finished
        /\ toTick' = toTick - 1 /\ sinceLast' = sinceLast + 1
    BY <1>4 DEF TimePasses
  <2>2. Routing' = Routing
    BY <2>1 DEF Routing
  <2>3. ASSUME NEW q \in Routing
        PROVE  delay'[q] < Interval /\ delay'[q] + sinceLast' <= Margin - Interval
    <3>1. delay'[q] = delay[q] - 1 /\ q \in Requests
      BY <1>4, RoutingLater DEF Routing
    <3>2. delay[q] < Interval /\ delay[q] + sinceLast <= Margin - Interval
      BY <2>3 DEF TimeInv
    <3> QED
      BY <1>0, <2>1, <3>1, <3>2
  <2>4. toTick' + sinceLast' = toTick + sinceLast
    BY <1>0, <2>1
  <2> QED
    BY <1>0, <2>1, <2>2, <2>3, <2>4 DEF TimeInv
<1>5. CASE Finish
  <2>1. /\ UNCHANGED <<status, delay, tick, toTick, sinceLast>>
        /\ sinceLast = Margin /\ toTick > 0
    BY <1>5 DEF Finish, AtCutoff, NothingDue
  <2>2. Routing' = Routing
    BY <2>1 DEF Routing
  <2>3. Routing = {}
    <3> SUFFICES ASSUME NEW q \in Routing PROVE FALSE
      OBVIOUS
    <3>1. delay[q] + sinceLast <= Margin - Interval /\ q \in Requests
      BY DEF TimeInv, Routing
    <3> QED
      BY <1>0, <2>1, <3>1
  <2>4. tick = Zero
    BY <1>0, <2>1 DEF TimeInv
  <2> QED
    BY <2>1, <2>2, <2>3, <2>4 DEF TimeInv
<1>6. CASE UNCHANGED requestVars
  BY <1>6 DEF requestVars, clockVars, TimeInv, Routing
<1> QED
  BY <1>1, <1>2, <1>3, <1>4, <1>5, <1>6, RequestSteps

\* The windows: a tick appends one entry to what it keeps of the others.
LEMMA PushTickEntries ==
  ASSUME NEW E, NEW w \in Seq(E), Len(w) <= RollingTicks, NEW e \in E
  PROVE  LET v == PushTick(w, e)
         IN  /\ v # <<>> /\ v[Len(v)] = e
             /\ Len(w) < RollingTicks => Len(v) = Len(w) + 1 /\ \A i \in 1..Len(w) : v[i] = w[i]
             /\ Len(w) = RollingTicks =>
                  Len(v) = RollingTicks /\ \A i \in 1..(RollingTicks - 1) : v[i] = w[i + 1]
<1> DEFINE v == PushTick(w, e)
<1> USE DEF RollingTicks
<1>0. Len(w) \in Nat /\ Len(w) <= 3
  BY LenProperties
<1>1. CASE Len(w) < RollingTicks
  <2>1. v = Append(w, e)
    BY <1>1 DEF PushTick
  <2>2. /\ v \in Seq(E) /\ Len(v) = Len(w) + 1 /\ v[Len(w) + 1] = e
        /\ \A i \in 1..Len(w) : v[i] = w[i]
    BY <2>1, AppendProperties
  <2> HIDE DEF v
  <2>3. v # <<>>
    BY <1>0, <2>2, EmptySeq
  <2> QED
    BY <1>0, <1>1, <2>2, <2>3 DEF v
<1>2. CASE Len(w) = RollingTicks
  <2> DEFINE t == Tail(w)
  <2>1. v = Append(t, e)
    BY <1>0, <1>2 DEF PushTick
  <2>2. w # <<>>
    <3>1. Len(<<>>) = 0 /\ Len(w) = 3
      BY <1>2, EmptySeq
    <3>2. 3 # 0
      OBVIOUS
    <3> QED
      BY <3>1, <3>2, Zenon
  <2>3. /\ t \in Seq(E) /\ Len(t) = Len(w) - 1
        /\ \A i \in 1..Len(t) : t[i] = w[i + 1]
    BY <2>2, HeadTailProperties
  <2> HIDE DEF t
  <2>4. /\ v \in Seq(E) /\ Len(v) = Len(t) + 1 /\ v[Len(t) + 1] = e
        /\ \A i \in 1..Len(t) : v[i] = t[i]
    BY <2>1, <2>3, AppendProperties
  <2> HIDE DEF v
  <2>5. v # <<>>
    <3>1. Len(<<>>) = 0 /\ Len(v) = 3
      BY <1>2, <2>3, <2>4, EmptySeq
    <3>2. 3 # 0
      OBVIOUS
    <3> QED
      BY <3>1, <3>2, Zenon
  <2>6. Len(t) = 2 /\ Len(v) = 3 /\ RollingTicks - 1 = 2
    BY <1>0, <1>2, <2>3, <2>4
  <2>7. \A i \in 1..2 : v[i] = w[i + 1]
    BY <2>3, <2>4, <2>6
  <2> QED
    BY <1>0, <1>2, <2>4, <2>5, <2>6, <2>7 DEF v
<1>3. Len(w) < RollingTicks \/ Len(w) = RollingTicks
  <2>1. \A n \in Nat : n <= 3 => n < 3 \/ n = 3
    OBVIOUS
  <2> QED
    BY <1>0, <2>1
<1> QED
  BY <1>1, <1>2, <1>3, Zenon


\* RejectionsHaveArrivals, for any windows.
Entries == [arrivals : Nat, rejected : Nat]
Arr(w, i) == IF i \in DOMAIN w THEN w[i].arrivals ELSE 0
WindowsOK(w) ==
  \A i \in DOMAIN w : i > 1 \/ Len(w) < RollingTicks => w[i].rejected <= Arr(w, i) + Arr(w, i - 1)

\* A tick whose rejections are of its own arrivals or of those of the last one
\* keeps the windows as they should be.
LEMMA PushWindows ==
  ASSUME NEW w \in Seq(Entries), Len(w) <= RollingTicks, WindowsOK(w), NEW e \in Entries,
         e.rejected <= e.arrivals + (IF w = <<>> THEN 0 ELSE w[Len(w)].arrivals)
  PROVE  WindowsOK(PushTick(w, e))
<1> DEFINE v == PushTick(w, e)
           n == Len(w)
           last == IF w = <<>> THEN 0 ELSE w[n].arrivals
<1>0. /\ n \in Nat /\ n <= 3 /\ DOMAIN w = 1..n
      /\ \A i \in 1..n : w[i].arrivals \in Nat /\ w[i].rejected \in Nat
      /\ e.arrivals \in Nat /\ e.rejected \in Nat
  <2>1. n \in Nat /\ n <= 3 /\ DOMAIN w = 1..n
    BY LenProperties DEF RollingTicks
  <2>2. \A i \in 1..n : w[i] \in Entries
    BY ElementOfSeq
  <2> QED
    BY <2>1, <2>2 DEF Entries
<1>1. n = 0 => w = <<>>
  BY EmptySeq
<1>2. v \in Seq(Entries) /\ DOMAIN v = 1..Len(v)
  <2>1. v \in Seq(Entries)
    BY PushTickType
  <2> HIDE DEF v
  <2> QED
    BY <2>1, LenProperties
<1>3. /\ v[Len(v)] = e
      /\ n < 3 => Len(v) = n + 1 /\ \A i \in 1..n : v[i] = w[i]
      /\ n = 3 => Len(v) = 3 /\ \A i \in 1..2 : v[i] = w[i + 1]
  BY PushTickEntries DEF RollingTicks
<1>4. e.rejected <= e.arrivals + last
  OBVIOUS
<1>5. \A i \in 1..n : i > 1 \/ n < 3 => w[i].rejected <= Arr(w, i) + Arr(w, i - 1)
  BY <1>0 DEF WindowsOK, RollingTicks
<1> SUFFICES ASSUME NEW i \in 1..Len(v), i > 1 \/ Len(v) < 3
             PROVE  v[i].rejected <= Arr(v, i) + Arr(v, i - 1)
  BY <1>2 DEF WindowsOK, RollingTicks
<1>6. n > 0 => last = w[n].arrivals
  <2>1. Len(<<>>) = 0
    BY EmptySeq
  <2>2. n > 0 => n # 0
    OBVIOUS
  <2>3. n > 0 => w # <<>>
    BY <2>1, <2>2, Zenon
  <2> QED
    BY <2>3
<1>7. n = 0 => last = 0
  BY <1>1
<1> HIDE DEF v, n, last
<1>8. CASE n < 3 /\ i <= n
  <2>1. v[i] = w[i] /\ i \in DOMAIN w /\ i \in DOMAIN v
    BY <1>0, <1>2, <1>3, <1>8
  <2>2. i - 1 = 0 \/ (i - 1 \in 1..n /\ i - 1 \in 1..Len(v))
    BY <1>0, <1>3, <1>8
  <2>3. Arr(v, i) = Arr(w, i) /\ Arr(v, i - 1) = Arr(w, i - 1)
    BY <1>0, <1>2, <1>3, <1>8, <2>1, <2>2 DEF Arr
  <2> QED
    BY <1>5, <1>8, <1>0, <2>1, <2>3
<1>9. CASE i = Len(v)
  <2>1. v[i] = e /\ Arr(v, i) = e.arrivals
    BY <1>2, <1>3, <1>9 DEF Arr
  <2>2. Arr(v, i - 1) = last
    <3>1. CASE n = 0
      <4>1. i - 1 = 0
        BY <1>3, <1>9, <3>1
      <4> QED
        BY <1>2, <1>7, <3>1, <4>1 DEF Arr
    <3>2. CASE n \in 1..2
      <4>1. i - 1 = n /\ n \in 1..n /\ n \in 1..Len(v)
        BY <1>3, <1>9, <3>2
      <4>2. v[n] = w[n] /\ n > 0
        BY <1>3, <3>2, <4>1
      <4> QED
        BY <1>2, <1>6, <4>1, <4>2 DEF Arr
    <3>3. CASE n = 3
      <4>1. i - 1 = 2 /\ 2 \in 1..Len(v) /\ v[2] = w[3] /\ 2 + 1 = 3
        BY <1>3, <1>9, <3>3
      <4>2. last = w[3].arrivals
        BY <1>6, <3>3
      <4> QED
        BY <1>2, <4>1, <4>2 DEF Arr
    <3> QED
      BY <1>0, <3>1, <3>2, <3>3
  <2> QED
    BY <1>4, <2>1, <2>2
<1>10. CASE n = 3 /\ i # Len(v)
  <2>1. i = 2 /\ Len(v) = 3 /\ v[2] = w[3] /\ v[1] = w[2] /\ 2 - 1 = 1 /\ 3 - 1 = 2
    <3>1. 1 \in 1..2 /\ 2 \in 1..2 /\ 1 + 1 = 2 /\ 2 + 1 = 3
      OBVIOUS
    <3>2. Len(v) = 3 /\ v[1] = w[1 + 1] /\ v[2] = w[2 + 1]
      BY <1>3, <1>10, <3>1
    <3> QED
      BY <1>10, <3>1, <3>2
  <2>2. 1 \in DOMAIN v /\ 2 \in DOMAIN v /\ 2 \in DOMAIN w /\ 3 \in DOMAIN w
    BY <1>0, <1>2, <1>10, <2>1
  <2>3. w[3].rejected <= Arr(w, 3) + Arr(w, 2)
    BY <1>5, <1>10, <1>0
  <2>4. Arr(v, 2) = Arr(w, 3) /\ Arr(v, 1) = Arr(w, 2)
    BY <2>1, <2>2 DEF Arr
  <2> QED
    BY <2>1, <2>3, <2>4
<1> QED
  BY <1>0, <1>3, <1>8, <1>9, <1>10


\* The rejections of an interval are of the arrivals of that one or the last.
LEMMA RejectStep ==
  TypeOK /\ BooksInv /\ TimeInv /\ RejectInv /\ RejectionsHaveArrivals /\ [Next]_vars
    => RejectInv' /\ RejectionsHaveArrivals'
<1> SUFFICES ASSUME TypeOK, BooksInv, TimeInv, RejectInv, RejectionsHaveArrivals, [Next]_vars
             PROVE  RejectInv' /\ RejectionsHaveArrivals'
  OBVIOUS
<1> DEFINE R == Cardinality(Routing)
           Y == Cardinality(Young)
<1>0. /\ tick.total \in Nat /\ tick.rejected \in Nat
      /\ toTick \in 0..Interval /\ \A q \in Requests : delay[q] \in Nat
      /\ Interval \in Nat \ {0}
  BY CounterTypes
<1>a. Routing \in SUBSET Requests /\ Young \in SUBSET Requests
  BY DEF Routing, Young
<1>b. /\ R \in Nat /\ Y \in Nat
      /\ \A q \in Requests \ Routing : Cardinality(Routing \cup {q}) = R + 1
      /\ \A q \in Routing : Cardinality(Routing \ {q}) = R - 1
      /\ \A q \in Requests \ Young : Cardinality(Young \cup {q}) = Y + 1
      /\ \A T \in SUBSET Young : Cardinality(T) <= Y /\ Cardinality(T) \in Nat
  <2>1. \A T \in SUBSET Young : T \in SUBSET Requests
    BY <1>a
  <2> QED
    BY <1>a, <2>1, RequestSets
<1>c. tick.rejected + R <= tick.total + LastArrivals /\ Y <= tick.total
  BY DEF RejectInv
<1>d. LastArrivals \in Nat
  <2> DEFINE n == Len(rolling)
  <2>1. rolling \in Seq(Entries)
    BY DEF TypeOK, Entries
  <2>2. rolling # <<>> => n \in Nat \ {0}
    BY <2>1, EmptySeq
  <2>3. \A i \in 1..n : rolling[i] \in Entries
    BY <2>1, ElementOfSeq
  <2> HIDE DEF n
  <2>4. rolling # <<>> => rolling[n] \in Entries
    BY <2>2, <2>3
  <2> QED
    BY <2>4 DEF LastArrivals, Entries, n
<1>e. ASSUME UNCHANGED rolling PROVE RejectionsHaveArrivals' /\ LastArrivals' = LastArrivals
  BY <1>e DEF RejectionsHaveArrivals, LastArrivals
<1> HIDE DEF R, Y
<1>1. ASSUME NEW q \in Requests, NEW d \in RoutingDelays, Arrive(q, d)
      PROVE  RejectInv' /\ RejectionsHaveArrivals'
  <2>1. /\ status[q] = "new" /\ status'[q] = "routing" /\ UNCHANGED <<rolling, toTick>>
        /\ \A r \in Requests \ {q} : status'[r] = status[r] /\ delay'[r] = delay[r]
        /\ tick'.total = tick.total + 1 /\ tick'.rejected = tick.rejected
    BY <1>0, <1>1 DEF Arrive, TypeOK, Count
  <2>2. Routing' = Routing \cup {q} /\ q \notin Routing
    BY <2>1 DEF Routing
  <2>3. q \notin Young /\ Young' \subseteq Young \cup {q}
    BY <2>1 DEF Young, Routing
  <2>4. Cardinality(Young \cup {q}) = Y + 1 /\ Cardinality(Routing') = R + 1
    BY <1>b, <2>2, <2>3
  <2>5. Cardinality(Young') <= Cardinality(Young \cup {q}) /\ Cardinality(Young') \in Nat
    <3>1. Young \cup {q} \in SUBSET Requests /\ Young' \in SUBSET (Young \cup {q})
      BY <1>a, <2>3
    <3>2. Young' \in SUBSET Requests
      BY <3>1
    <3> QED
      BY <3>1, <3>2, RequestSets
  <2>6. Cardinality(Young') <= tick'.total
    BY <1>0, <1>b, <1>c, <2>1, <2>4, <2>5
  <2>7. tick'.rejected + Cardinality(Routing') <= tick'.total + LastArrivals'
    BY <1>0, <1>b, <1>c, <1>d, <1>e, <2>1, <2>4
  <2> QED
    BY <1>e, <2>1, <2>6, <2>7 DEF RejectInv
<1>2. ASSUME NEW q \in Requests, NEW o \in Outcomes, Booked(q, o)
      PROVE  RejectInv' /\ RejectionsHaveArrivals'
  <2>1. /\ status[q] = "routing" /\ status'[q] = "over"
        /\ \A r \in Requests \ {q} : status'[r] = status[r]
    BY <1>2, BookStep
  <2>2. /\ UNCHANGED <<delay, rolling, toTick>>
        /\ tick'.total = tick.total /\ tick'.rejected \in {tick.rejected, tick.rejected + 1}
    BY <1>0, <1>2 DEF Booked, clockVars, Count, If1
  <2>3. Routing' = Routing \ {q} /\ q \in Routing
    BY <2>1 DEF Routing
  <2>4. Young' \subseteq Young
    BY <2>2, <2>3 DEF Young
  <2>5. Cardinality(Routing') = R - 1
    BY <1>b, <2>3
  <2>6. Cardinality(Young') <= Y /\ Cardinality(Young') \in Nat
    BY <1>b, <2>4
  <2>7. Cardinality(Young') <= tick'.total
    BY <1>0, <1>b, <1>c, <2>2, <2>6
  <2>8. tick'.rejected + Cardinality(Routing') <= tick'.total + LastArrivals'
    BY <1>0, <1>b, <1>c, <1>d, <1>e, <2>2, <2>5
  <2> QED
    BY <1>e, <2>2, <2>7, <2>8 DEF RejectInv
<1>3. CASE DecisionTick
  <2> DEFINE e == [arrivals |-> tick.total, rejected |-> tick.rejected]
  <2>1. /\ rolling' = PushTick(rolling, e)
        /\ tick'.total = 0 /\ tick'.rejected = 0
        /\ toTick = 0 /\ toTick' = Interval /\ UNCHANGED <<status, delay>>
    BY <1>3 DEF DecisionTick, Cleared, Zero, NextTick
  <2>2. e \in Entries /\ e.rejected = tick.rejected /\ e.arrivals = tick.total
    BY <1>0 DEF Entries
  <2> HIDE DEF e
  <2>3. rolling \in Seq(Entries) /\ Len(rolling) <= RollingTicks
    BY DEF TypeOK, Entries
  <2>4. Routing' = Routing /\ Young = Routing
    <3>1. \A q \in Routing : delay[q] >= toTick
      BY <1>0, <2>1 DEF Routing
    <3> QED
      BY <2>1, <3>1 DEF Routing, Young
  <2>5. R <= tick.total
    BY <1>c, <2>4 DEF R, Y
  <2>6. Young' = {}
    <3>1. \A q \in Routing : delay[q] \in Nat /\ delay[q] < Interval
      BY <1>0 DEF TimeInv, Routing
    <3> QED
      BY <1>0, <2>1, <2>4, <3>1 DEF Young
  <2>7. LastArrivals' = tick.total
    <3>1. rolling' # <<>> /\ rolling'[Len(rolling')] = e
      BY <2>1, <2>2, <2>3, PushTickEntries
    <3> QED
      BY <2>2, <3>1 DEF LastArrivals
  <2>8. RejectionsHaveArrivals'
    <3>1. WindowsOK(rolling)
      BY DEF RejectionsHaveArrivals, WindowsOK, Arr
    <3>2. e.rejected <= e.arrivals + (IF rolling = <<>> THEN 0 ELSE rolling[Len(rolling)].arrivals)
      <4>1. e.rejected <= e.arrivals + LastArrivals
        BY <1>0, <1>b, <1>c, <1>d, <2>2
      <4> QED
        BY <4>1 DEF LastArrivals
    <3>3. WindowsOK(PushTick(rolling, e))
      BY <2>2, <2>3, <3>1, <3>2, PushWindows
    <3> QED
      BY <2>1, <3>3 DEF RejectionsHaveArrivals, WindowsOK, Arr
  <2>9. Cardinality({}) = 0 /\ Cardinality(Routing') = R
    BY <2>4, FS_EmptySet DEF R
  <2> QED
    BY <1>0, <1>b, <2>1, <2>5, <2>6, <2>7, <2>8, <2>9 DEF RejectInv
<1>4. CASE TimePasses
  <2>1. UNCHANGED <<status, tick, rolling>> /\ toTick' = toTick - 1
    BY <1>4 DEF TimePasses
  <2>2. Routing' = Routing
    BY <2>1 DEF Routing
  <2>3. Young' = Young
    <3>1. \A q \in Routing : delay'[q] = delay[q] - 1 /\ delay[q] \in Nat
      BY <1>0, <1>4, RoutingLater DEF Routing
    <3>2. \A q \in Routing : delay'[q] >= toTick' <=> delay[q] >= toTick
      BY <1>0, <2>1, <3>1
    <3> QED
      BY <2>2, <3>2 DEF Young
  <2> QED
    BY <1>c, <1>e, <2>1, <2>2, <2>3 DEF RejectInv, R, Y
<1>5. CASE Finish \/ UNCHANGED requestVars
  <2>1. UNCHANGED <<status, delay, tick, rolling, toTick>>
    BY <1>5 DEF Finish, requestVars, clockVars
  <2>2. Routing' = Routing /\ Young' = Young
    BY <2>1 DEF Routing, Young
  <2> QED
    BY <1>c, <1>e, <2>1, <2>2 DEF RejectInv, R, Y
<1> QED
  BY <1>1, <1>2, <1>3, <1>4, <1>5, RequestSteps


----------------------------------------------------------------------------
Arrived == {q \in Requests : status[q] # "new"}
BookedAs(b, S) == {q \in Requests : \E i \in DOMAIN b[q] : b[q][i] \in S}
Violated == Rejected \cup {"LATE"}

\* TicksMatchReport, number by number.
Matches ==
  /\ shown.total + tick.total = Cardinality(Arrived)
  /\ shown.rejected + tick.rejected = Cardinality(BookedAs(books, Rejected))
  /\ shown.violated + tick.violated = Cardinality(BookedAs(books, Violated))

LEMMA MatchNumbers == TicksMatchReport <=> Matches
BY DEF TicksMatchReport, Matches, Sum, Counted, Arrived, BookedAs, Violated

\* Booking a request adds it to those of its outcome.
LEMMA BookedAsStep ==
  ASSUME TypeOK, BooksInv, NEW q \in Requests, NEW o \in Outcomes, Booked(q, o), NEW S
  PROVE  Cardinality(BookedAs(books', S)) = Cardinality(BookedAs(books, S)) + If1(o \in S)
<1>1. /\ books[q] = <<>> /\ books'[q] = <<o>>
      /\ \A r \in Requests \ {q} : books'[r] = books[r]
  BY BookStep
<1>2. DOMAIN <<o>> = 1..1 /\ <<o>>[1] = o
  OBVIOUS
<1>3. q \notin BookedAs(books, S)
  <2>1. DOMAIN <<>> = {}
    OBVIOUS
  <2> QED
    BY <1>1, <2>1 DEF BookedAs
<1>4. BookedAs(books, S) \in SUBSET Requests
  BY DEF BookedAs
<1>5. CASE o \in S
  <2>1. BookedAs(books', S) = BookedAs(books, S) \cup {q}
    BY <1>1, <1>2, <1>5 DEF BookedAs
  <2> QED
    BY <1>3, <1>4, <1>5, <2>1, RequestSets DEF If1
<1>6. CASE o \notin S
  <2>1. BookedAs(books', S) = BookedAs(books, S)
    BY <1>1, <1>2, <1>3, <1>6 DEF BookedAs
  <2>2. Cardinality(BookedAs(books, S)) \in Nat
    BY <1>4, RequestSets
  <2> QED
    BY <1>6, <2>1, <2>2 DEF If1
<1> QED
  BY <1>5, <1>6

\* What a tick is shown and what it clears stay together the report.
LEMMA MatchStep == TypeOK /\ BooksInv /\ Matches /\ [Next]_vars => Matches'
<1> SUFFICES ASSUME TypeOK, BooksInv, Matches, [Next]_vars PROVE Matches'
  OBVIOUS
<1>0. /\ tick.total \in Nat /\ tick.rejected \in Nat /\ tick.violated \in Nat
      /\ shown.total \in Nat /\ shown.rejected \in Nat /\ shown.violated \in Nat
  BY CounterTypes
<1>1. ASSUME NEW q \in Requests, NEW d \in RoutingDelays, Arrive(q, d) PROVE Matches'
  <2>1. /\ status[q] = "new" /\ status'[q] = "routing" /\ UNCHANGED <<books, shown>>
        /\ \A r \in Requests \ {q} : status'[r] = status[r]
        /\ tick'.total = tick.total + 1
        /\ tick'.rejected = tick.rejected /\ tick'.violated = tick.violated
    BY <1>0, <1>1 DEF Arrive, TypeOK, Count
  <2>2. Arrived' = Arrived \cup {q} /\ q \in Requests \ Arrived /\ Arrived \in SUBSET Requests
    BY <2>1 DEF Arrived
  <2>3. Cardinality(Arrived') = Cardinality(Arrived) + 1
    BY <2>2, RequestSets
  <2> QED
    BY <1>0, <2>1, <2>3 DEF Matches
<1>2. ASSUME NEW q \in Requests, NEW o \in Outcomes, Booked(q, o) PROVE Matches'
  <2>1. /\ status[q] = "routing" /\ status'[q] = "over"
        /\ \A r \in Requests \ {q} : status'[r] = status[r]
    BY <1>2, BookStep
  <2>2. Arrived' = Arrived
    BY <2>1 DEF Arrived
  <2>3. /\ UNCHANGED shown /\ tick'.total = tick.total
        /\ tick'.rejected = tick.rejected + If1(o \in Rejected)
        /\ tick'.violated = tick.violated + If1(o \in Violated)
    BY <1>0, <1>2 DEF Booked, Count, Violated
  <2>4. If1(o \in Rejected) \in Nat /\ If1(o \in Violated) \in Nat
    BY DEF If1
  <2>5. /\ Cardinality(BookedAs(books', Rejected))
             = Cardinality(BookedAs(books, Rejected)) + If1(o \in Rejected)
        /\ Cardinality(BookedAs(books', Violated))
             = Cardinality(BookedAs(books, Violated)) + If1(o \in Violated)
    BY <1>2, BookedAsStep
  <2> QED
    BY <1>0, <2>2, <2>3, <2>4, <2>5 DEF Matches
<1>3. CASE DecisionTick
  <2>1. /\ UNCHANGED <<status, books>>
        /\ tick'.total = 0 /\ tick'.rejected = 0 /\ tick'.violated = 0
        /\ shown'.total = shown.total + tick.total
        /\ shown'.rejected = shown.rejected + tick.rejected
        /\ shown'.violated = shown.violated + tick.violated
    BY <1>3 DEF DecisionTick, Sum, Cleared, Zero
  <2> QED
    BY <1>0, <2>1 DEF Matches, Arrived
<1>4. CASE TimePasses \/ Finish \/ UNCHANGED requestVars
  <2>1. UNCHANGED <<status, books, tick, shown>>
    BY <1>4 DEF TimePasses, Finish, requestVars
  <2> QED
    BY <2>1 DEF Matches, Arrived
<1> QED
  BY <1>1, <1>2, <1>3, <1>4, RequestSteps

\* A run begins with nothing counted.
LEMMA BookInit == Init => BookInv
<1> SUFFICES ASSUME Init PROVE BookInv
  OBVIOUS
<1>1. /\ Routing = {} /\ Young = {} /\ Arrived = {} /\ tick = Zero /\ shown = Zero /\ rolling = <<>>
  BY DEF Init, Routing, Young, Arrived
<1>2. BookedAs(books, Rejected) = {} /\ BookedAs(books, Violated) = {}
  <2>1. DOMAIN <<>> = {}
    OBVIOUS
  <2> QED
    BY <2>1 DEF Init, BookedAs
<1>3. Cardinality({}) = 0
  BY FS_EmptySet
<1>4. Matches
  BY <1>1, <1>2, <1>3 DEF Matches, Zero
<1>5. BooksInv /\ TimeInv
  BY <1>1 DEF Init, BooksInv, TimeInv
<1>6. RejectInv
  BY <1>1, <1>3 DEF RejectInv, LastArrivals, Zero
<1>7. RejectionsHaveArrivals
  <2>1. DOMAIN <<>> = {}
    OBVIOUS
  <2> QED
    BY <1>1, <2>1 DEF RejectionsHaveArrivals
<1> QED
  BY <1>4, <1>5, <1>6, <1>7, InitInv, MatchNumbers DEF BookInv

\* The whole invariant holds in every state.
THEOREM BookInvHolds == Spec => []BookInv
<1>1. BookInv /\ [Next]_vars /\ Inv' => BookInv'
  <2> SUFFICES ASSUME BookInv, [Next]_vars, Inv' PROVE BookInv'
    OBVIOUS
  <2>1. TypeOK /\ BooksInv /\ TimeInv /\ RejectInv /\ TicksMatchReport /\ RejectionsHaveArrivals
    BY DEF BookInv, Inv
  <2>2. BooksInv' /\ TimeInv' /\ RejectInv' /\ RejectionsHaveArrivals'
    BY <2>1, BooksStep, TimeStep, RejectStep
  <2>3. Matches'
    BY <2>1, MatchStep, MatchNumbers
  <2>4. TicksMatchReport' <=> Matches'
    BY MatchNumbers, PTL
  <2> QED
    BY <2>2, <2>3, <2>4 DEF BookInv
<1> QED
  BY <1>1, InvHolds, BookInit, PTL DEF Spec

\* The ticks and the report count the same arrivals, rejections and violations,
\* and no tick comes too early for one of them (_handle_arrival, _handle_routed,
\* the clearing in _handle_decision_tick, and _cutoff).
THEOREM TicksAgreeWithReport == Spec => []TicksTellTheReport
<1>1. BookInv => TicksTellTheReport
  BY DEF BookInv, TimeInv, TicksTellTheReport, TicksSeeEverything
<1> QED
  BY <1>1, BookInvHolds, PTL

\* A rejection is seen in rolling_rejection_rate at the tick that reads it and at
\* the next, for which the window still holds an arrival to divide it by.  At the
\* third tick the rate may be 0 (RollingRejectionTracker.push_tick).
THEOREM RejectionsAreRated == Spec => []RejectionsAreSeen
<1>1. TypeOK /\ RejectionsHaveArrivals => RejectionsAreSeen
  <2> SUFFICES ASSUME TypeOK, RejectionsHaveArrivals, NEW i \in DOMAIN rolling,
                      Len(rolling) - i < 2, rolling[i].rejected > 0
               PROVE  \E k \in DOMAIN rolling : rolling[k].arrivals > 0
    BY DEF RejectionsAreSeen, RollingRateIsPositive
  <2>1. /\ rolling \in Seq([arrivals : Nat, rejected : Nat]) /\ Len(rolling) <= 3
        /\ i \in 1..Len(rolling) /\ DOMAIN rolling = 1..Len(rolling)
    BY DEF TypeOK, RollingTicks
  <2>0. \A k \in 1..Len(rolling) : rolling[k].arrivals \in Nat /\ rolling[k].rejected \in Nat
    <3> SUFFICES ASSUME NEW k \in 1..Len(rolling)
                 PROVE  rolling[k].arrivals \in Nat /\ rolling[k].rejected \in Nat
      OBVIOUS
    <3>1. rolling[k] \in [arrivals : Nat, rejected : Nat]
      BY <2>1, ElementOfSeq
    <3> QED  BY <3>1
  <2>2. i > 1 \/ Len(rolling) < RollingTicks
    BY <2>1 DEF RollingTicks
  <2>3. CASE i - 1 \in DOMAIN rolling
    <3>1. rolling[i].rejected <= rolling[i].arrivals + rolling[i - 1].arrivals
      BY <2>2, <2>3 DEF RejectionsHaveArrivals
    <3>2. /\ rolling[i].rejected \in Nat /\ rolling[i].arrivals \in Nat
          /\ rolling[i - 1].arrivals \in Nat
      BY <2>0, <2>1, <2>3
    <3>3. rolling[i].arrivals > 0 \/ rolling[i - 1].arrivals > 0
      BY <3>1, <3>2
    <3> QED  BY <2>3, <3>3
  <2>4. CASE i - 1 \notin DOMAIN rolling
    <3>1. rolling[i].rejected <= rolling[i].arrivals + 0
      BY <2>2, <2>4 DEF RejectionsHaveArrivals
    <3>2. rolling[i].rejected \in Nat /\ rolling[i].arrivals \in Nat
      BY <2>0, <2>1
    <3>3. rolling[i].arrivals > 0
      BY <3>1, <3>2
    <3> QED  BY <3>3
  <2> QED  BY <2>3, <2>4
<1>2. BookInv => TypeOK /\ RejectionsHaveArrivals
  BY DEF BookInv, Inv
<1> QED
  BY <1>1, <1>2, BookInvHolds, PTL

\* A step of the requests is a step of the accounting that the report promises.
LEMMA AccountingStep == BookInv /\ [Next]_vars => [Accounting!AccountingNext]_<<Arrived, books, finished>>
<1> SUFFICES ASSUME BookInv, [Next]_vars
             PROVE  [Accounting!AccountingNext]_<<Arrived, books, finished>>
  OBVIOUS
<1> USE DEF Accounting!AccountingNext, Accounting!Arrive, Accounting!Book, Accounting!Report,
            Accounting!Unbooked
<1>0. TypeOK /\ BooksInv /\ TimeInv
  BY DEF BookInv, Inv
<1>1. ASSUME NEW q \in Requests, NEW d \in RoutingDelays, Arrive(q, d)
      PROVE  Accounting!AccountingNext
  <2>1. Arrived' = Arrived \cup {q} /\ UNCHANGED <<books, finished>> /\ ~finished
    BY <1>0, <1>1 DEF Arrive, Arrived, TypeOK
  <2>2. {q} \in SUBSET Requests
    OBVIOUS
  <2> QED
    BY <2>1, <2>2 DEF Arrived
<1>2. ASSUME NEW q \in Requests, NEW o \in Outcomes, Booked(q, o)
      PROVE  Accounting!AccountingNext
  <2>1. /\ status[q] = "routing" /\ books[q] = <<>> /\ ~finished
        /\ status'[q] = "over" /\ books'[q] = <<o>>
        /\ \A r \in Requests \ {q} : status'[r] = status[r] /\ books'[r] = books[r]
    BY <1>0, <1>2, BookStep
  <2>2. Arrived' = Arrived \cup {q}
    BY <2>1 DEF Arrived
  <2>3. books' = [r \in Requests |-> IF r \in {q} THEN <<o>> ELSE books[r]]
    <3>1. DOMAIN books' = Requests
      BY <1>0, <1>2 DEF Booked, Book, TypeOK
    <3>2. books' = [r \in Requests |-> books'[r]]
      BY <1>0, <1>2 DEF Booked, Book, TypeOK
    <3> QED
      BY <2>1, <3>2
  <2>4. UNCHANGED finished /\ {q} \in SUBSET Requests /\ {q} \subseteq {r \in Requests : books[r] = <<>>}
    BY <1>2, <2>1 DEF Booked, clockVars
  <2> QED
    BY <2>1, <2>2, <2>3, <2>4 DEF Arrived
<1>3. CASE Finish
  <2>1. UNCHANGED <<status, books>> /\ finished' = TRUE /\ ~finished
    BY <1>3 DEF Finish
  <2>2. Routing = {}
    <3>1. Routing' = {}
      <4>1. TimeInv'
        BY <1>0, TimeStep
      <4> QED
        BY <2>1, <4>1 DEF TimeInv
    <3> QED
      BY <2>1, <3>1 DEF Routing
  <2>3. {q \in Arrived : books[q] = <<>>} = {}
    <3> SUFFICES ASSUME NEW q \in Arrived PROVE books[q] # <<>>
      OBVIOUS
    <3>1. q \in Requests /\ status[q] = "over"
      BY <1>0, <2>2 DEF Arrived, Routing, TypeOK
    <3>2. PICK o \in Outcomes : books[q] = <<o>>
      BY <1>0, <3>1 DEF BooksInv
    <3> QED
      BY <3>2
  <2>4. Arrived' = Arrived
    BY <2>1 DEF Arrived
  <2> QED
    BY <2>1, <2>3, <2>4 DEF Arrived
<1>4. DecisionTick \/ TimePasses \/ UNCHANGED requestVars => UNCHANGED <<Arrived, books, finished>>
  BY DEF DecisionTick, TimePasses, requestVars, clockVars, Arrived
<1> QED
  BY <1>1, <1>2, <1>3, <1>4, RequestSteps

\* The simulator records every request it has accepted from the trace once,
\* under one outcome, before run() returns the report (_finalize_request and
\* _cutoff): what the k8s dispatcher promises too.
THEOREM SimKeepsThePromise == Spec => ImplementsAccounting
<1>1. Init => Accounting!AccountingInit
  BY DEF Init, Accounting!AccountingInit
<1>2. BookInv /\ [Next]_vars => [Accounting!AccountingNext]_(Accounting!accountingVars)
  BY AccountingStep DEF Accounting!accountingVars, Arrived
<1> QED
  BY <1>1, <1>2, BookInvHolds, PTL DEF Spec, ImplementsAccounting, Accounting!AccountingSpec

=============================================================================
