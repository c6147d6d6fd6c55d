SPECIFICATION Spec
CONSTANTS
  v1 = v1
  v2 = v2
  v3 = v3
SYMMETRY Symmetry
INVARIANTS
  SearchKeepsItsBooks
  BestIsSelected
  VerdictsHaveReasons
PROPERTIES
  CheckpointsAreOwned
  JudgedBeforeSelected
CHECK_DEADLOCK FALSE
