CONSTANTS
  Lcores = {c1, c2}
  Entries = 4
  Programs <- MCAll
  Networks <- MCNetworks
  Ports = {0, 80}
  Hashes <- MCHashes
SPECIFICATION Spec
INVARIANTS SetupStands SetupConverges VerdictsMatchPort PairsComeFromPool MacsBelongToHops
CHECK_DEADLOCK FALSE
