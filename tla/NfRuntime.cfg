CONSTANTS
  NbWorkers = 2
  Traffic <- MCTraffic
  QueueCap = 2
  BurstSize = 2
SPECIFICATION AclSpec
INVARIANTS NoReflection OneWorkerPerFrame OrderUntilDeparture CountersAddUp LossesAreCounted TalliesAddUp SentAsReceived
PROPERTIES QuitEnds
CHECK_DEADLOCK FALSE
