SPECIFICATION VaultSpec
CONSTANTS
  alice = alice
  treasury = treasury
  Vault = Vault
  Executor = Executor
  Accounts <- MCAccounts
  InitialAsset <- MCInitialAsset
  Amounts <- MCAmounts
  FeeChoices = {0, 5000, 10000}
  MaxRealized = 3
  MaxLedger = 1
INVARIANTS VaultTypeOK ClaimsCovered EveryClaimPayable ReportsNeedNoLedger
PROPERTIES OnlyReportsDilute FeeSharesWithinCap
