SPECIFICATION FairSpec
CONSTANTS
  q1 = q1
  q2 = q2
  q3 = q3
  q4 = q4
  q5 = q5
  k1 = k1
  a = a
  b = b
  NoKey = NoKey
  EmptyKey = EmptyKey
  Nobody = Nobody
  Requests = {q1, q2, q3, q4}
  Keys = {k1}
  Key <- WithoutHeader
  Payloads = {a, b}
  Payload <- OneOtherPayload
  FaultKinds = {"crash", "db", "broker"}
  MaxFaults = 2
INVARIANT MutualExclusion
PROPERTY DoneStays
PROPERTY Answered
PROPERTY LockEnds
CHECK_DEADLOCK FALSE
