SPECIFICATION FairSpec
CONSTANTS
  q1 = q1
  q2 = q2
  k1 = k1
  email = email
  sms = sms
  a = a
  NoKey = NoKey
  EmptyKey = EmptyKey
  Nobody = Nobody
  Requests = {q1, q2}
  Keys = {k1}
  Key <- SameKey
  Payloads = {a}
  Payload <- SamePayload
  WebFaultKinds = {"crash", "broker"}
  MaxWebFaults = 1
  Channels = {email, sms}
  PriorityOf <- AllNormal
  Workers = {w1}
  WorkerQueues <- AllQueues
  MaxRetries = 0
  NoJob = NoJob
  WorkerFaultKinds = {"enqueue", "child"}
  MaxWorkerFaults = 1
  MaxCopies = 1
  CounterCap = 2
INVARIANT TypeOK
INVARIANT SentOnce
INVARIANT AnsweredInHand
PROPERTY AnsweredSettles
CONSTRAINT FirstOfPairs
