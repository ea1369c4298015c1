SPECIFICATION Spec
CONSTANTS
  Callers = {c1, c2}
  Studio = studio
  Old = old
  Arguments <- Complete
  MaxCalls = 2
  MaxEdits = 1
INVARIANTS TypeOK AskedFor
PROPERTIES RestAsRead
SYMMETRY Symmetry
CHECK_DEADLOCK FALSE
