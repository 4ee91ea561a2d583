SPECIFICATION Spec
CONSTANTS
  d1 = d1
  d2 = d2
  Deliveries = {d1}
  Workers = {w1, w2}
  Priority <- OnePriority
  WorkerQueues <- AllQueues
  MaxRetries = 1
  FaultKinds = {"enqueue", "child", "node", "visibility", "db", "template"}
  MaxFaults = 1
  MaxCopies = 2
  CounterCap = 3
  NoJob = NoJob
SYMMETRY WorkerSymmetry
INVARIANT TypeOK
INVARIANT NoPhantomTask
INVARIANT DeliveredMeansAccepted
INVARIANT RetryCountHonest
INVARIANT GaveUpOnlyWhenExhausted
INVARIANT SentHasOwner
INVARIANT PendingInHand
