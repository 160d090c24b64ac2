CONSTANTS
  q1 = q1
  q2 = q2
  q3 = q3
  fast = fast
  slow = slow
  Requests <- const_Requests
  Places <- const_Places
  QueueLen = 2
  ExecTime <- const_ExecTime
  ColdExtra <- const_ColdExtra
  ColdWindow <- const_ColdWindow
  RoutingDelays <- const_RoutingDelays
  DrainDelay = 1
  Interval = 3
  Margin = 5
  MaxGap = 9
SPECIFICATION FairSpec
INVARIANTS TypeOK TicksTellTheReport RejectionsAreSeen BacklogBounded
PROPERTIES ImplementsFifo ImplementsAccounting RunEnds
CHECK_DEADLOCK FALSE
