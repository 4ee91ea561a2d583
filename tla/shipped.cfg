SPECIFICATION FairSpec
CONSTANTS
  d1 = d1
  d2 = d2
  Deliveries = {d1, d2}
  Workers = {w1, w2}
  Priority <- TwoPriorities
  WorkerQueues <- ShippedQueues
  MaxRetries = 1
  FaultKinds = {"template"}
  MaxFaults = 0
  MaxCopies = 2
  CounterCap = 3
  NoJob = NoJob
INVARIANT AttemptsBounded
PROPERTY AuditChain
PROPERTY ImplementsLifecycle
PROPERTY Settles
CHECK_DEADLOCK FALSE
