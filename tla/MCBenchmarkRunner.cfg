CONSTANTS
  HardwareConcurrency = 2
  IterationCounts = {0, 1, 2, 5}
  ThreadRequests = {0, 1, 3}
  MaxWorkers = 3
SPECIFICATION Spec
INVARIANTS
  TypeOK
  IInv
  PlanPartition
  CompleteResult
  FirstFailureRethrown
  JoinedBeforeRead
  RejectedBeforeWork
  LifecyclesClosed
PROPERTIES
  Terminates
  ImplementsRun
