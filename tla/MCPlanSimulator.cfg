SPECIFICATION Spec
CONSTANTS
  pool = pool
  other = other
  Word = 32768
  Mille = 10
  Bps = 100
  Q96 = 511
  One = 10
  Rounds = 12
  Plans <- MCPlans
  Markets <- MCMarkets
INVARIANTS QuoteWithinReserve SmallTradesKeepK InputSuffices NoProfitFromBalance
CHECK_DEADLOCK FALSE
