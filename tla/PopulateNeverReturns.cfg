CONSTANTS
  K = 5
  N = 2
  Sentinel = 3
  Reach = 16
  Word = 16
  RowSets <- MCOnTheFlyOnly
SPECIFICATION Spec
PROPERTIES PopulateFinishes
CHECK_DEADLOCK FALSE
