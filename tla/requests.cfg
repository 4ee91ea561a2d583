SPECIFICATION Spec
CONSTANTS
  q1 = q1
  q2 = q2
  q3 = q3
  q4 = q4
  q5 = q5
  k1 = k1
  a = a
  b = b
  NoKey = NoKey
  EmptyKey = EmptyKey
  Nobody = Nobody
  Requests = {q1, q2, q3, q4, q5}
  Keys = {k1}
  Key <- WithEmptyHeaders
  Payloads = {a, b}
  Payload <- OneOtherPayload
  FaultKinds = {"crash", "slow", "expire", "db", "broker", "redis"}
  MaxFaults = 2
SYMMETRY Symmetry
INVARIANT TypeOK
INVARIANT OnePerKey
INVARIANT AnswerHonest
INVARIANT SameAnswer
INVARIANT DoneIsComplete
CHECK_DEADLOCK FALSE
