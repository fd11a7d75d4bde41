SPECIFICATION ReportSpec
CONSTANTS
  LimbBase = 4
  Capital = 6
  GasCost = 1
  FailureCost = 1
  BribeBps = 3000
  GasStressBps = 5000
  BribeStressBps = 1000
  InclusionRate = "sometimes"
  GrossProfits = {0, 1, 3, 7, 13}
  TrainBlocks = 3
  TestBlocks = 2
  BlocksPerDay = 2
  LastBlock = 5
INVARIANTS ReportAddsUp NoDrawdownWithinLimb TestIsUnseen
CHECK_DEADLOCK FALSE
