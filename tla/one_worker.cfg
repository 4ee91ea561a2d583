SPECIFICATION FairSpec
CONSTANTS
  d1 = d1
  d2 = d2
  Deliveries = {d1}
  Workers = {w1}
  Priority <- OnePriority
  WorkerQueues <- AllQueues
  MaxRetries = 2
  FaultKinds = {"enqueue", "child", "node", "visibility", "template"}
  MaxFaults = 2
  MaxCopies = 2
  CounterCap = 12
  NoJob = NoJob
INVARIANT AtMostOnceAccepted
INVARIANT AuditAgrees
PROPERTY FinishedStays
PROPERTY ImplementsLifecycle
PROPERTY PendingLeaves
