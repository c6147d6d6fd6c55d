SPECIFICATION Spec
CONSTANTS
  one = one
  two = two
SYMMETRY Symmetry
INVARIANTS
  HandoverHolds
  ProcessesDoTheirWork
PROPERTIES
  SlotsAreKept
  RunsRespectTheOperator
CHECK_DEADLOCK FALSE
