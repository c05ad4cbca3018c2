CONSTANTS
  Stages = {"sign"}
  Messages = {"tags", "proof"}
  NumWorkers = 2
  MaxRounds = 2
SPECIFICATION Spec
INVARIANTS
  MergeIsWholeRun
  SetupSpansWorkers
  AveragesCurrent
\* The life of a run's collectors ends when the merged one has been reset.
CHECK_DEADLOCK FALSE
