CONSTANTS
  q1 = q1
  q2 = q2
  q3 = q3
  Requests <- const_Requests
  None = None
  QueueLen = 2
SPECIFICATION Spec
INVARIANTS NoPodAboveCapacity
