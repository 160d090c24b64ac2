\* Times in units of 5 s: sweep 10 s, max_age 55 s, a run of 210 s (span 115 s,
\* margin 95 s).
CONSTANTS
  q1 = q1
  q2 = q2
  Requests <- const_Requests
  SweepInterval = 2
  MaxAge = 11
  MaxWait = 32
  Lifetime = 42
SPECIFICATION Spec
INVARIANTS TypeOK ReportedInTimeIsCompleted
PROPERTIES ImplementsAccounting
CHECK_DEADLOCK FALSE
