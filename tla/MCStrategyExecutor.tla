-------------------------- MODULE MCStrategyExecutor --------------------------
(* One vault, one strategy, one asset and one other token; a connected       *)
(* two-hop route, a one-hop route as in the tests, and a disconnected one.   *)
EXTENDS StrategyExecutor
CONSTANTS alice, treasury, weth, adapter, pool1, pool2

MCAccounts == {alice, treasury}
MCAlone == {alice}
Funded(accounts, user, executor) ==
  [a \in accounts \cup {Vault, Executor} |->
     IF a = alice THEN user ELSE IF a = Executor THEN executor ELSE 0]
MCInitialAsset == Funded(MCAccounts, 3, 0)
MCFundedAsset == Funded(MCAlone, 1, 1)
MCOtherTokens == {weth}
MCPools == {pool1, pool2}
MCTargets == {weth, pool2}

Hop(pool, from, to) ==
  [adapter |-> adapter, pool |-> pool, tokenIn |-> from, tokenOut |-> to, minAmountOut |-> 0]
Request(principal, minProfit, route) ==
  [strategyId |-> "atomic-amm", asset |-> Last(route).tokenOut, principal |-> principal,
   minProfitAssets |-> minProfit, deadline |-> 0, route |-> route]

TwoHops == <<Hop(pool1, Asset, weth), Hop(pool2, weth, Asset)>>
OneHop == <<Hop(pool1, Asset, Asset)>>
Around == <<Hop(pool1, weth, Asset), Hop(pool2, Asset, weth)>>
Broken == <<Hop(pool1, Asset, weth), Hop(pool2, Asset, Asset)>>

MCConnected == {Request(p, m, OneHop) : p \in {0, 1}, m \in {0, 1}} \cup {Request(1, 0, TwoHops)}
MCSmallRoutes == {Request(1, 0, TwoHops), Request(1, 0, OneHop)}
MCOtherAsset == {Request(1, 0, Around)}
MCAnyRoute == MCSmallRoutes \cup MCOtherAsset \cup {Request(1, 0, Broken)}

NoCaps == [maxLossPerTx |-> 0, maxLossPerDay |-> 0, maxTokenExposure |-> 0, maxDexExposure |-> 0]
LossCap == [NoCaps EXCEPT !.maxLossPerDay = 1]
MCPolicies == {NoCaps, LossCap}

FullAllocation == [maxCapital |-> 5, maxLossPerDay |-> 5, maxDeployablePct |-> 10000, active |-> TRUE]
Inactive == [FullAllocation EXCEPT !.active = FALSE]
MCAllocations == {FullAllocation, Inactive}
=============================================================================
