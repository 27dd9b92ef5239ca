CONSTANTS
  Vip = "vip"
  Frames <- MCFrames
  Backends = {"10.0.2.1", "10.0.2.2"}
  Lookups <- MCLookups
  QueueCap = 2
  MaxFrames = 3
SPECIFICATION Spec
INVARIANTS CrossCheckAgrees SummaryAddsUp
PROPERTIES InterruptEnds
CHECK_DEADLOCK FALSE
