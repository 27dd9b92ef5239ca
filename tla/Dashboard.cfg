CONSTANTS
  Vip = "vip"
  Frames <- MCFrames
  Backends = {"10.0.2.1", "10.0.2.2"}
  Lookups <- MCLookups
  QueueCap = 1
  MaxFrames = 3
  HexBytes = 70
SPECIFICATION DashSpec
INVARIANTS ScreenIsConsistent PaintFollowsFrame
PROPERTIES RowsAsCounted ScreenCatchesUp
CHECK_DEADLOCK FALSE
