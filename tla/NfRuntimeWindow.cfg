CONSTANTS
  NbWorkers = 2
  Traffic <- MCMixed
  QueueCap = 2
  BurstSize = 2
SPECIFICATION AclSpec
INVARIANTS FrameOnOneWorker
CHECK_DEADLOCK FALSE
