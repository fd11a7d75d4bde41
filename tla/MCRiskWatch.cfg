SPECIFICATION Spec
CONSTANTS
  None = None
  v1 = v1
  v2 = v2
  Vaults <- MCVaults
  Limit = 2
  MaxVisible = 3
  MaxPerMs = 2
INVARIANTS TypeOK OnlyLastMsRepeats
PROPERTIES SeenBeforePassed BreachIsTold
