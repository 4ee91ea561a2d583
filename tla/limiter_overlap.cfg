SPECIFICATION Spec
CONSTANTS
  Requests = {q1, q2, q3}
  Limit = 1
  Window = 2
  Unit = 1
  InFlight = 2
  Prompt = TRUE
  MaxTime = 3
SYMMETRY RequestSymmetry
INVARIANT StrictLimit
CHECK_DEADLOCK FALSE
