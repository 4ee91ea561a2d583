SPECIFICATION Spec
CONSTANTS
  d1 = d1
  d2 = d2
  Deliveries = {d1}
  Workers = {w1, w2}
  Priority <- OnePriority
  WorkerQueues <- AllQueues
  MaxRetries = 1
  FaultKinds = {"template"}
  MaxFaults = 0
  MaxCopies = 2
  CounterCap = 3
  NoJob = NoJob
INVARIANT AtMostOnceAccepted
