CONSTANTS
  HardwareConcurrency = 2
  IterationCounts = {0, 1, 3, 4}
  ThreadRequests = {1, 2, 3}
  MaxWorkers = 3
  Operations = {"update", "insert", "delete"}
  InitialBlockCounts = {0, 1, 3}
SPECIFICATION SpecApp
INVARIANTS
  IndicesLegal
  CallsAccounted
  FinalBlockIdentity
  SetupMeasuredPerWorker
  ExitCodeTells
