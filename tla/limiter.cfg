SPECIFICATION Spec
CONSTANTS
  Requests = {q1, q2, q3, q4, q5}
  Limit = 1
  Window = 5
  Unit = 2
  InFlight = 2
  Prompt = FALSE
  MaxTime = 6
SYMMETRY RequestSymmetry
INVARIANT TypeOK
INVARIANT SetBounded
INVARIANT WindowBounded
PROPERTY RetryWithinASecond
CHECK_DEADLOCK FALSE
