CONSTANTS
  Modulus <- Width4
  Numbers <- SomeOf
  Growths <- Growth
  Lists <- CsvLists
  MaxPoints = 6
  Shares <- Portions
SPECIFICATION SpecAxis
INVARIANTS
  LinearIsProgression
  GeometricIncreases
  AcceptedHasPoints
  ConfigsAuditable
CHECK_DEADLOCK FALSE
