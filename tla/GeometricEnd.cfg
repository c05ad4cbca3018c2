CONSTANTS
  Modulus <- Width4
  Numbers <- SomeOf
  Growths <- Growth
  Lists <- CsvLists
  MaxPoints = 6
  Shares <- Portions
SPECIFICATION SpecAxis
INVARIANTS
  GeometricReachesEnd
CHECK_DEADLOCK FALSE
