SPECIFICATION Spec
CONSTANTS
  NBlocks = 3
  Concurrency = 2
  Capitals <- MCCapitals
  Legs = 2
  PriceChoices <- MCPrices
  RateUnit = 2
  MaxU128 = 21
  MaxU64 = 39999
  FeeBps = 6
INVARIANTS TypeOK PermitsConserved EveryBlockCounted
PROPERTIES ScanEnds
CHECK_DEADLOCK FALSE
