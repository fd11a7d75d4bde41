SPECIFICATION Spec
CONSTANTS
  t1 = t1
  t2 = t2
  Txs <- MCTxs
  NRelays = 2
  Ttl = 1
  ClockWord = 16
  BaseFees <- MCBaseFees
  TipPct = 50
  HeadroomPct <- MCHeadroomPct
  LimbBase = 3
  MaxNonce = 2
  MaxAttempts = 2
  Clocks <- MCClocks
SYMMETRY Symmetry
INVARIANTS TypeOK NoncesDistinct TipFollowsBaseFee
PROPERTIES SettledIsFinal
