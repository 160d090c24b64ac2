SPECIFICATION Spec
CONSTANTS
  s1 = s1
  s2 = s2
  s3 = s3
  None = None
  Servers = {s1, s2, s3}
  NServices = 3
  Capacity <- MCCapacity
  ResourceMips <- MCResourceMips
  EffMips <- MCEffMips
  Generations = 2
  LongDrains = FALSE
  SlowPods = FALSE
INVARIANTS
  EmergencyCleared
