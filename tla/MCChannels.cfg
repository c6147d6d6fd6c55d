SPECIFICATION Spec
CONSTANTS
  p = p
  q = q
  x = x
  y = y
  z = z
SYMMETRY Symmetry
INVARIANTS
  SentOnce
  RecordsAreReal
  RequestsFollowAnswers
PROPERTIES
  SentAsConfirmed
CHECK_DEADLOCK FALSE
