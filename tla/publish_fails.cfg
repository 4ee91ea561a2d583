SPECIFICATION Spec
CONSTANTS
  q1 = q1
  q2 = q2
  q3 = q3
  q4 = q4
  q5 = q5
  k1 = k1
  a = a
  b = b
  NoKey = NoKey
  EmptyKey = EmptyKey
  Nobody = Nobody
  Requests = {q1, q2}
  Keys = {k1}
  Key <- OneKey
  Payloads = {a, b}
  Payload <- OneOtherPayload
  FaultKinds = {"broker"}
  MaxFaults = 1
INVARIANT FreeKeyIsUsable
CHECK_DEADLOCK FALSE
