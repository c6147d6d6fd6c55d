SPECIFICATION Spec
CONSTANTS
  one = one
  two = two
  ref1 = ref1
  ref2 = ref2
SYMMETRY Symmetry
INVARIANTS
  AuthorityIsExact
  RunsAsGranted
  FileKeepsEdits
PROPERTIES
  DispatchIsAllowed
  HashFollowsMeaning
  FileChangesAreOwned
  ImplementsDayBudget
CHECK_DEADLOCK FALSE
