CONSTANTS
  K = 5
  N = 3
  Sentinel = 3
  Reach = 16
  Word = 16
  RowSets <- MCRowSets
SPECIFICATION Spec
INVARIANTS Balanced OntoRowsNeverOverrun
PROPERTIES OntoRowsFinish ImplementsGreedy
CHECK_DEADLOCK FALSE
