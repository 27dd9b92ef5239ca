CONSTANTS
  Lcores = {c1, c2}
  PerLcore = 7
  RxRing = 3
  TxRing = 1
  BurstSize = 2
  CacheSize = 1
  MaxFrames = 6
SPECIFICATION Spec
INVARIANTS NoBufferLost NeverOutOfBuffers FramesAddUp
PROPERTIES QuitEnds
CHECK_DEADLOCK FALSE
