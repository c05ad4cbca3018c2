CONSTANTS
  BlockCounts <- Sizes
  Targets <- Fractions
SPECIFICATION SpecSearch
INVARIANT SizeSmallest
CHECK_DEADLOCK FALSE
