CONSTANTS
  Commands <- SomeCommands
  NameLengths <- SomeLengths
  Workers = {w1, w2}
  Modulus = 128
SPECIFICATION Spec
INVARIANTS
  ExitZeroDelivers
  NothingFromFailedSweep
  ReportReadable
  ConfigsCoverAxes
PROPERTIES
  MainEnds
