CONSTANTS
  HardwareConcurrency = 2
  IterationCounts = {3}
  ThreadRequests = {1, 2}
  MaxWorkers = 2
SPECIFICATION Spec
INVARIANTS
  SetupFromWorker0Only
