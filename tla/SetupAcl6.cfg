CONSTANTS
  Lcores = {c1, c2}
  Entries = 2
  Programs <- MCAcl6
  Networks <- MCNetworks
  Ports = {0, 80}
  Hashes <- MCHashes
SPECIFICATION Spec
INVARIANTS LadderHolds
CHECK_DEADLOCK FALSE
