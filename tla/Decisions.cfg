SPECIFICATION FairDecisionsSpec
CONSTANTS
  s1 = s1
  s2 = s2
  None = None
  Servers = {s1, s2}
  NServices = 2
  Capacity <- MCCapacity
  ResourceMips <- MCResourceMips
  EffMips <- MCEffMips
  BootDelay = 6
  PodStartup = 1
  Graceful = 2
  DrainGrace = 3
  DecisionInterval = 10
  Cooldown = 4
  MinActive = 12
  MinReplicaAge = 20
  Backlogs = {7}
  LargeMips = 6
  MediumMips = 4
  Algorithms = {"greedy", "hpa", "voila", "ppo", "ppo_train"}
  Utils = {20, 100}
  Loads <- MCLoads
  SustainLow = 12
  SustainHigh = 6
INVARIANTS
  RefusalsHaveACause
  SustainIsFresh
PROPERTIES
  VisibleNeedsAreBooked
  NoFlapping
  IdleShrinks
