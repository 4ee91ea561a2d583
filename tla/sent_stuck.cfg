SPECIFICATION FairSpec
CONSTANTS
  d1 = d1
  d2 = d2
  Deliveries = {d1}
  Workers = {w1}
  Priority <- OnePriority
  WorkerQueues <- AllQueues
  MaxRetries = 1
  FaultKinds = {"child", "template"}
  MaxFaults = 1
  MaxCopies = 2
  CounterCap = 3
  NoJob = NoJob
PROPERTY Settles
