-------------------------- MODULE StrategyExecutor --------------------------
(***************************************************************************)
(* contracts/src/StrategyExecutor.sol composed with the contracts it calls *)
(* in one transaction: RiskManager, StrategyController, the DEX adapters,  *)
(* ArbVault and Accounting.  An execution that reverts changes nothing, so *)
(* it is no step; one that succeeds is one step of all contracts.          *)
(***************************************************************************)
EXTENDS ArbVault, RiskManager, StrategyController, Sequences, SequencesExt

CONSTANTS
  Asset,           \* the vault's asset
  OtherTokens,     \* the other tokens routes pass through
  Adapters, Pools, \* adapter contracts and the venues they trade on
  Requests,        \* the execution requests that are submitted
  SwapOutputs,     \* what a venue may pay out for one swap
  RiskManagerSet, ExecutorAccounting,  \* whether the constructor was given each contract
  InitialPolicy, InitialAllocation,
  GuardianCalls,   \* the configuration calls an instance explores
  MaxTime, MaxInventory  \* bounds

Tokens == OtherTokens \cup {Asset}
Hops == [adapter : Adapters, pool : Pools, tokenIn : Tokens, tokenOut : Tokens, minAmountOut : Nat]

ASSUME ExecutorAssumption ==
  /\ Asset \notin OtherTokens
  /\ \A req \in Requests :
       /\ req.strategyId \in Strategies /\ req.asset \in Tokens /\ req.principal \in Nat
       /\ req.minProfitAssets \in Nat /\ req.deadline \in Nat
       /\ req.route \in Seq(Hops)
  /\ SwapOutputs \subseteq Nat
  /\ InitialPolicy \in Policies /\ InitialAllocation \in Allocations
  /\ RiskManagerSet \in BOOLEAN /\ ExecutorAccounting \in BOOLEAN
  /\ MaxTime \in Nat /\ MaxInventory \in Nat

VARIABLES
  trustedVault, whitelistedAdapters,
  controllerSet,   \* whether the executor has a controller to ask
  inventory,       \* the executor's balances of the other tokens
  now              \* block time; one tick is one day

executorVars == <<trustedVault, whitelistedAdapters, controllerSet>>
vars == <<vaultVars, riskVars, controllerVars, executorVars, inventory, now>>

-----------------------------------------------------------------------------
\* The state after deployment and wiring (Deploy.s.sol and the test set-up).
Init ==
  /\ VaultInit /\ executorRole = {Executor}
  /\ allowedChains = {ChainId} /\ pausedScopes = {} /\ blacklist = {}
  /\ policy = InitialPolicy /\ dailyLoss = [sd \in Scopes \X Days |-> 0]
  /\ executorAllowed = TRUE /\ allocations = [s \in Strategies |-> InitialAllocation]
  /\ trustedVault = TRUE /\ whitelistedAdapters = Adapters /\ controllerSet = TRUE
  /\ inventory = [t \in OtherTokens |-> 0]
  /\ now = 0

-----------------------------------------------------------------------------
(* The executor's balances while it walks a route.  Hop i is given what    *)
(* hop i - 1 paid out, whatever token that was; the adapter takes it from  *)
(* the executor and the venue pays outs[i] of the hop's tokenOut back.     *)

Holdings == [t \in Tokens |-> IF t = Asset THEN asset[Executor] ELSE inventory[t]]

\* Mutant: every hop is given the principal, not the previous hop's output.
AmountInPrincipal(req, outs, i) == req.principal

AmountIn(req, outs, i) == IF i = 1 THEN req.principal ELSE outs[i - 1]

Swapped(held, hop, in, out) ==
  [[held EXCEPT ![hop.tokenIn] = @ - in] EXCEPT ![hop.tokenOut] = @ + out]

Walk(req, outs) ==
  LET held[i \in 0..Len(req.route)] ==
        IF i = 0 THEN Holdings
        ELSE Swapped(held[i - 1], req.route[i], AmountIn(req, outs, i), outs[i])
  IN  held

\* Every swap of the walk succeeds: its adapter is whitelisted, the executor
\* holds what the adapter takes, and the output meets the hop's floor.
WalkSucceeds(req, outs) ==
  \A i \in 1..Len(req.route) :
    /\ req.route[i].adapter \in whitelistedAdapters
    /\ AmountIn(req, outs, i) <= Walk(req, outs)[i - 1][req.route[i].tokenIn]
    /\ outs[i] >= req.route[i].minAmountOut
    /\ Walk(req, outs)[i] \in [Tokens -> Nat]

\* _extractRouteTokensAndPools: the tokens and pools the risk check sees.
\* Mutant: only the entry and exit tokens are shown to the risk check.
RouteTokensEnds(route) == {route[1].tokenIn, Last(route).tokenOut}

RouteTokens(route) == {route[i].tokenIn : i \in DOMAIN route} \cup {Last(route).tokenOut}
RoutePools(route) == {route[i].pool : i \in DOMAIN route}

Admitted(req) ==
  /\ now <= req.deadline
  /\ trustedVault
  /\ req.route # <<>>
  /\ RiskManagerSet => CheckExecution(RouteTokens(req.route), RoutePools(req.route), req.principal)
  /\ controllerSet => Authorize(req.strategyId, req.principal, totalAssets)

\* What the vault receives of its own asset: nothing checks that the request's
\* asset is the vault's.
Delivered(req, balEnd) == IF req.asset = Asset THEN balEnd ELSE 0

\* Mutants: only the principal is transferred back; the transfer is taken from the
\* balance before the walk.
AssetAfterPrincipal(req, held) ==
  [[asset EXCEPT ![Executor] = held[Asset] - req.principal] EXCEPT ![Vault] = @ + req.principal]
AssetAfterFromStart(req, held) == Moved(asset, Executor, Vault, held[Asset])

\* The asset's balances after execute(req), with held what the walk left: all of the
\* executor's balance in the request's asset goes to the vault.
AssetAfter(req, held) ==
  [[asset EXCEPT ![Executor] = held[Asset] - Delivered(req, held[Asset])]
     EXCEPT ![Vault] = @ + Delivered(req, held[Asset])]

InventoryAfter(req, held) == [t \in OtherTokens |-> IF t = req.asset THEN 0 ELSE held[t]]

\* The ledger after reportProfit and the executor's own recordExecution, whose
\* failure is swallowed as well.
LedgersAfterExecution(profit) ==
  LedgersAfter(profit) \cup
    {t \in {[l EXCEPT !.executions = @ + 1] : l \in LedgersAfter(profit)} :
       ExecutorAccounting /\ t \in Ledgers}

\* Mutant: profit is reported before the assets are transferred.
SettleReportsFirst(req, held) ==
  LET balEnd == held[req.asset]
  IN  /\ balEnd >= req.principal
      /\ Executor \in executorRole
      /\ TakeProfit(balEnd - req.principal, req.minProfitAssets, totalAssets)
      /\ asset' = AssetAfter(req, held)
      /\ inventory' = InventoryAfter(req, held)
      /\ totals' \in LedgersAfterExecution(balEnd - req.principal)

\* The end of execute(req): what exceeds the principal is reported as profit, once
\* everything has been transferred.
Settle(req, held) ==
  LET balEnd == held[req.asset]
  IN  /\ balEnd >= req.principal
      /\ Executor \in executorRole
      /\ TakeProfit(balEnd - req.principal, req.minProfitAssets,
                    totalAssets + Delivered(req, balEnd))
      /\ asset' = AssetAfter(req, held)
      /\ inventory' = InventoryAfter(req, held)
      /\ totals' \in LedgersAfterExecution(balEnd - req.principal)

Execute(req, outs) ==
  /\ Admitted(req)
  /\ Holdings[req.asset] >= req.principal
  /\ WalkSucceeds(req, outs)
  /\ Last(req.route).tokenOut = req.asset
  /\ Settle(req, Walk(req, outs)[Len(req.route)])
  /\ UNCHANGED <<configVars, riskVars, controllerVars, executorVars, now>>

ExecuteRequest(req) == \E outs \in [DOMAIN req.route -> SwapOutputs] : Execute(req, outs)

-----------------------------------------------------------------------------
(* The executor's own configuration, and the guardian's calls to all three *)
(* contracts.                                                              *)

SetTrustedVault(trusted) ==
  /\ trustedVault' = trusted
  /\ UNCHANGED <<whitelistedAdapters, controllerSet>>

WhitelistAdapter(adapter, allowed) ==
  /\ whitelistedAdapters' = IF allowed THEN whitelistedAdapters \cup {adapter}
                            ELSE whitelistedAdapters \ {adapter}
  /\ UNCHANGED <<trustedVault, controllerSet>>

SetController(isSet) ==
  /\ controllerSet' = isSet
  /\ UNCHANGED <<trustedVault, whitelistedAdapters>>

GuardianExecutorStep ==
  /\ "executor" \in GuardianCalls
  /\ UNCHANGED <<riskVars, controllerVars>>
  /\ \/ \E b \in BOOLEAN : SetTrustedVault(b) \/ SetController(b)
     \/ \E a \in Adapters, b \in BOOLEAN : WhitelistAdapter(a, b)

GuardianRiskStep ==
  /\ "risk" \in GuardianCalls
  /\ UNCHANGED <<executorVars, controllerVars>>
  /\ \/ \E c \in Chains, b \in BOOLEAN : SetAllowedChain(c, b)
     \/ \E t \in BlacklistTargets, b \in BOOLEAN : SetBlacklist(t, b)
     \/ \E p \in PolicyChoices : SetPolicy(p)
     \/ \E s \in Scopes : PauseScope(s) \/ UnpauseScope(s)
     \/ \E s \in Scopes, l \in Losses, d \in Days : RecordLoss(s, l, d)

GuardianControllerStep ==
  /\ "controller" \in GuardianCalls
  /\ UNCHANGED <<executorVars, riskVars>>
  /\ \/ \E b \in BOOLEAN : SetExecutor(b)
     \/ \E s \in Strategies, a \in AllocationChoices : SetAllocation(s, a)

GuardianStep ==
  /\ GuardianExecutorStep \/ GuardianRiskStep \/ GuardianControllerStep
  /\ UNCHANGED <<vaultVars, inventory, now>>

-----------------------------------------------------------------------------
(* Everything else that moves: users and the vault's administrator, the    *)
(* asset token (which is also how the executor is funded), other tokens    *)
(* that reach the executor, and time.                                      *)

restVars == <<riskVars, controllerVars, executorVars, inventory, now>>

UserVaultStep ==
  /\ \/ UserStep
     \/ \E from \in Accounts, to \in Addresses, n \in Amounts : TransferAsset(from, to, n)
     \/ "vault" \in GuardianCalls /\ AdminStep
     \/ LedgerStep
  /\ UNCHANGED restVars

ReceiveToken(t, n) ==
  /\ inventory[t] + n <= MaxInventory   \* bound
  /\ inventory' = [inventory EXCEPT ![t] = @ + n]
  /\ UNCHANGED <<vaultVars, riskVars, controllerVars, executorVars, now>>

Tick ==
  /\ now < MaxTime /\ now' = now + 1
  /\ UNCHANGED <<vaultVars, riskVars, controllerVars, executorVars, inventory>>

Next ==
  \/ \E req \in Requests : ExecuteRequest(req)
  \/ UserVaultStep
  \/ GuardianStep
  \/ \E t \in OtherTokens, n \in Amounts : ReceiveToken(t, n)
  \/ Tick

Spec == Init /\ [][Next]_vars

-----------------------------------------------------------------------------
(* Properties.                                                             *)

\* Every variable has its type.
TypeOK ==
  /\ VaultTypeOK /\ RiskTypeOK /\ ControllerTypeOK
  /\ trustedVault \in BOOLEAN /\ controllerSet \in BOOLEAN
  /\ whitelistedAdapters \subseteq Adapters
  /\ inventory \in [OtherTokens -> Nat] /\ now \in Nat

Fund == INSTANCE SharePriceFund WITH
  fundAssets <- totalAssets, fundShares <- totalSupply, fundProfit <- totalRealizedProfit

\* Of requests in the vault's asset the composed contracts implement the fund: no
\* deposit, withdrawal, execution or fee ever lowers the rate of assets to shares,
\* and profit is reported only in a step that brings at least that much
\* (StrategyExecutor.sol:162-181 with ArbVault.sol:130-149).
ImplementsFund == Fund!FundSpec

SingleAsset == \A req \in Requests : req.asset = Asset

Connected(route) == \A i \in 2..Len(route) : route[i].tokenIn = route[i - 1].tokenOut
Cyclic(route) == Connected(route) /\ Head(route).tokenIn = Last(route).tokenOut

\* "No leftover exposure" (StrategyExecutor.sol:22) where it is true: an execution
\* of a cyclic route leaves the executor with none of the request's asset and with
\* exactly the other tokens it had, however many hops and whatever they paid.
LeavesNothing(req) ==
  \A t \in Tokens : Holdings'[t] = IF t = req.asset THEN 0 ELSE Holdings[t]

CyclesLeaveNothing ==
  [][\A req \in Requests :
       Cyclic(req.route) /\ ~LeavesNothing(req) => ~ExecuteRequest(req)]_vars

Avoids(route, targets) ==
  \A i \in DOMAIN route : {route[i].tokenIn, route[i].tokenOut, route[i].pool} \cap targets = {}

\* With a risk manager set, an execution of a connected route never passes through a
\* blacklisted token, as an input or an output of any hop, nor through a blacklisted pool
\* (RiskManager.sol:100-105 over StrategyExecutor.sol:204-216).
BlacklistHonoured ==
  [][\A req \in Requests :
       RiskManagerSet /\ Connected(req.route) /\ ~Avoids(req.route, blacklist)
         => ~ExecuteRequest(req)]_vars

-----------------------------------------------------------------------------
(* What the documents and comments say, and the code does not do.          *)

Trades == \E req \in Requests : ExecuteRequest(req)

\* "return principal + profit to the vault; report profit" (StrategyExecutor.sol:21):
\* what is reported has arrived, in the vault's asset.
ReportedProfitArrives ==
  [][totalRealizedProfit' # totalRealizedProfit
       => totalRealizedProfit' - totalRealizedProfit <= totalAssets' - totalAssets]_vars

\* "Enforces on-chain risk policy before every execution: per-tx and per-day loss
\* caps" (RiskManager.sol:9-10): with a risk manager set, no trade on a day whose losses
\* exceed the cap.
DailyLossCapHolds ==
  [][RiskManagerSet /\ policy.maxLossPerDay > 0 /\ Trades
       => \A s \in Scopes : dailyLoss[<<s, now>>] <= policy.maxLossPerDay]_vars
=============================================================================
