CONSTANTS
  BlockCounts <- Sizes
  Targets <- Fractions
SPECIFICATION SpecSearch
INVARIANTS
  SearchInv
  SizeSuffices
  ReachMonotone
  SizeSmallestAmongIntact
  RateIsHypergeometric
PROPERTIES
  SearchEnds
CHECK_DEADLOCK FALSE
