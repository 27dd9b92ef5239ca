CONSTANTS
  HiBits = 2
  LoBits = 2
  MaxAdds = 3
  Hi <- MCHi
  Lo <- MCLo
  Prefixes <- MCPrefixes
  TopDepth = 2
  NbRoutes = 2
  ByteBits = 2
  Bytes = 2
  Nets6 <- MCNets6
  NextHops = {0, 1}
  GroupLimit = 4
SPECIFICATION L3Spec
INVARIANTS LongestPrefixWins GroupsAreDisjoint FramesLeaveForBestHop
CHECK_DEADLOCK FALSE
