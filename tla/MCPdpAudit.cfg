CONSTANTS
  HardwareConcurrency = 2
  IterationCounts = {0, 3}
  ThreadRequests = {2}
  MaxWorkers = 2
  Files = {0, 3}
  Corruptions = {0, 2, 4}
  Samples = {1, 2, 4}
  BlockSizes = {0, 1}
SPECIFICATION SpecAudit
INVARIANTS
  DamagedAsConfigured
  CertaintyIsObserved
  AuditsAccounted
