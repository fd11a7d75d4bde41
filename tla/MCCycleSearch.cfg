SPECIFICATION Spec
CONSTANTS
  A = A
  B = B
  C = C
  D = D
  Tokens <- MCSquareTokens
  Start = A
  Pools <- Kite
  Rates <- MCTwoRates
  MaxHops = 3
  MinLogProfit = 0
  MaxResults = 2
  MaxInsertions = 1
INVARIANTS TypeOK PrevConsistent NothingWithoutProfit OverstatementBounded RoutesAreCycles
CHECK_DEADLOCK FALSE
