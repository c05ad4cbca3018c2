CONSTANTS
  UserCounts <- Users
  SampleCounts <- Counts
  NegativeShares <- Mixtures
  Iterations = 2
SPECIFICATION SpecIdentity
INVARIANTS
  LabelsTrue
  OutcomesPerLabel
  SoundIsAccurate
  TrafficMatchesSamples
CHECK_DEADLOCK FALSE
