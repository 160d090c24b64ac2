SPECIFICATION Spec
CONSTANTS
  s1 = s1
  s2 = s2
  s3 = s3
  None = None
  Servers = {s1, s2, s3}
  NServices = 2
  Capacity <- MCCapacity
  ResourceMips <- MCResourceMips
  EffMips <- MCEffMips
  BootDelay = 6
  PodStartup = 1
  Graceful = 2
  DrainGrace = 3
  DecisionInterval = 10
  Cooldown = 4
  MinActive = 10
  MinReplicaAge = 10
  Backlogs = {0, 11}
PROPERTIES
  ServiceStaysAvailable
