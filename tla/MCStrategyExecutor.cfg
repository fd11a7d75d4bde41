SPECIFICATION Spec
CONSTANTS
  alice = alice
  treasury = treasury
  weth = weth
  adapter = adapter
  pool1 = pool1
  pool2 = pool2
  Vault = Vault
  Executor = Executor
  Asset = Asset
  Accounts <- MCAccounts
  InitialAsset <- MCInitialAsset
  Amounts = {0, 1}
  FeeChoices = {0, 5000}
  MaxRealized = 4
  ChainId = 1
  Chains = {1}
  Scopes = {"vault", "executor"}
  BlacklistTargets = {}
  PolicyChoices = {}
  Losses = {}
  Days = {0}
  MaxLoss = 0
  Strategies = {"atomic-amm"}
  AllocationChoices = {}
  OtherTokens <- MCOtherTokens
  Adapters = {adapter}
  Pools <- MCPools
  Requests <- MCConnected
  SwapOutputs = {0, 1, 4}
  InitialPolicy <- NoCaps
  InitialAllocation <- FullAllocation
  GuardianCalls = {"vault"}
  MaxTime = 0
  MaxInventory = 0
  MaxLedger = 1
  RiskManagerSet = FALSE
  ExecutorAccounting = TRUE
INVARIANTS TypeOK ClaimsCovered
PROPERTIES ImplementsFund FeeSharesWithinCap
