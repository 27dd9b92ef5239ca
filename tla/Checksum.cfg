CONSTANTS
  Word = 8
  Sums <- MCSums
SPECIFICATION RewriteSpec
INVARIANTS MatchesRecompute
PROPERTIES UdpChecksumStays
CHECK_DEADLOCK FALSE
