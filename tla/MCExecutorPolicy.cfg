SPECIFICATION Spec
CONSTANTS
  alice = alice
  treasury = treasury
  weth = weth
  adapter = adapter
  pool1 = pool1
  pool2 = pool2
  Vault = Vault
  Executor = Executor
  Asset = Asset
  Accounts <- MCAlone
  InitialAsset <- MCFundedAsset
  Amounts = {0, 1}
  FeeChoices = {0}
  MaxRealized = 1
  ChainId = 1
  Chains = {1}
  Scopes = {"vault"}
  BlacklistTargets <- MCTargets
  PolicyChoices <- MCPolicies
  Losses = {1}
  Days = {0}
  MaxLoss = 1
  Strategies = {"atomic-amm"}
  AllocationChoices <- MCAllocations
  OtherTokens <- MCOtherTokens
  Adapters = {adapter}
  Pools <- MCPools
  Requests <- MCAnyRoute
  SwapOutputs = {0, 1}
  InitialPolicy <- NoCaps
  InitialAllocation <- FullAllocation
  GuardianCalls = {"risk", "controller", "executor"}
  MaxTime = 1
  MaxInventory = 1
  MaxLedger = 0
  RiskManagerSet = TRUE
  ExecutorAccounting = TRUE
PROPERTIES BlacklistHonoured CyclesLeaveNothing
