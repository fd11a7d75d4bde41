SPECIFICATION Spec
CONSTANTS
  alice = alice
  treasury = treasury
  weth = weth
  adapter = adapter
  pool1 = pool1
  pool2 = pool2
  Vault = Vault
  Executor = Executor
  Asset = Asset
  Accounts <- MCAlone
  InitialAsset <- MCFundedAsset
  Amounts = {0, 1}
  FeeChoices = {0}
  MaxRealized = 1
  ChainId = 1
  Chains = {1}
  Scopes = {"vault", "executor"}
  BlacklistTargets = {}
  PolicyChoices = {}
  Losses = {}
  Days = {0}
  MaxLoss = 0
  Strategies = {"atomic-amm"}
  AllocationChoices = {}
  OtherTokens <- MCOtherTokens
  Adapters = {adapter}
  Pools <- MCPools
  Requests <- MCOtherAsset
  SwapOutputs = {0, 1, 2}
  InitialPolicy <- NoCaps
  InitialAllocation <- FullAllocation
  GuardianCalls = {}
  MaxTime = 0
  MaxInventory = 1
  MaxLedger = 1
  RiskManagerSet = TRUE
  ExecutorAccounting = TRUE
PROPERTIES ReportedProfitArrives
