SPECIFICATION FairSpec
CONSTANTS
  s1 = s1
  s2 = s2
  s3 = s3
  None = None
  Servers = {s1, s2}
  NServices = 2
  Capacity <- MCCapacity
  ResourceMips <- MCResourceMips
  EffMips <- MCEffMips
  Generations = 1
  LongDrains = FALSE
  SlowPods = TRUE
INVARIANTS
  OffServersHostNothing
  MigrationKeepsSource
  ReadyIsRunning
PROPERTIES
  KeepsServing
  RejectionsReadOnce
  CoroutinesGoOn
