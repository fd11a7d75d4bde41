------------------------------ MODULE ArbVault ------------------------------
(***************************************************************************)
(* contracts/src/ArbVault.sol: the ERC-4626 vault that holds user funds.   *)
(* Every external function is one atomic transaction; a revert changes     *)
(* nothing, so each revert condition is a guard of the action.  The asset  *)
(* token is an external ERC-20 whose balances are the variable asset.  The *)
(* Accounting contract (contracts/src/Accounting.sol) is called by the     *)
(* vault, and by anyone else who cares to.                                 *)
(***************************************************************************)
EXTENDS ShareMath, FiniteSets, Functions

CONSTANTS
  Accounts,      \* the addresses that may own vault shares (users, treasury)
  Vault,         \* the vault's own address
  Executor,      \* the address of the StrategyExecutor
  InitialAsset,  \* asset balances when the vault is deployed
  Amounts,       \* the asset and share amounts callers ask for
  FeeChoices,    \* the fees the administrator asks for, in basis points
  MaxRealized,   \* bound: profit reported in one behaviour
  MaxLedger      \* the largest number a ledger entry holds (2^256 - 1)

MaxFeeBps == 5000
BpsDenominator == 10000
Addresses == Accounts \cup {Vault, Executor}

ASSUME VaultAssumption ==
  /\ IsFiniteSet(Accounts) /\ Accounts # {}
  /\ Vault \notin Accounts /\ Executor \notin Accounts /\ Vault # Executor
  /\ InitialAsset \in [Addresses -> Nat] /\ InitialAsset[Vault] = 0
  /\ Amounts \subseteq Nat /\ FeeChoices \subseteq Nat
  /\ MaxRealized \in Nat /\ MaxLedger \in Nat

VARIABLES
  asset,                \* ERC-20 balance of every address
  shares, totalSupply,  \* the vault's own ERC-20
  performanceFeeBps, feeRecipient, totalRealizedProfit,
  paused,
  executorRole,         \* the holders of EXECUTOR_ROLE
  riskManager, accounting,  \* whether each contract is set
  totals                \* Accounting.totals[vault]

ledgerVars == <<asset, shares, totalSupply>>
profitVars == <<totalRealizedProfit, totals>>
configVars == <<performanceFeeBps, feeRecipient, paused, executorRole,
                riskManager, accounting>>
vaultVars == <<ledgerVars, profitVars, configVars>>

-----------------------------------------------------------------------------
totalAssets == asset[Vault]

Moved(balance, from, to, n) ==
  [[balance EXCEPT ![from] = @ - n] EXCEPT ![to] = @ + n]

VaultInit ==
  /\ asset = InitialAsset
  /\ shares = [a \in Accounts |-> 0] /\ totalSupply = 0
  /\ performanceFeeBps \in {f \in FeeChoices : f <= MaxFeeBps}
  /\ feeRecipient \in Accounts
  /\ totalRealizedProfit = 0
  /\ paused = FALSE
  /\ executorRole \in SUBSET {Executor}   \* before or after the deployment's grantRole
  /\ riskManager = TRUE /\ accounting = TRUE
  /\ totals = [realizedProfit |-> 0, fees |-> 0, executions |-> 0]

-----------------------------------------------------------------------------
(* Deposits and withdrawals.  Callers act for themselves: allowances only  *)
(* decide who may submit a call, not what it does.                         *)

\* Mutant: the payer's balance is not checked.
IssueUnpaid(payer, receiver, assets, minted) ==
  /\ asset' = Moved(asset, payer, Vault, assets)
  /\ shares' = [shares EXCEPT ![receiver] = @ + minted]
  /\ totalSupply' = totalSupply + minted
  /\ UNCHANGED <<profitVars, configVars>>

Issue(payer, receiver, assets, minted) ==
  /\ assets <= asset[payer]
  /\ asset' = Moved(asset, payer, Vault, assets)
  /\ shares' = [shares EXCEPT ![receiver] = @ + minted]
  /\ totalSupply' = totalSupply + minted
  /\ UNCHANGED <<profitVars, configVars>>

Payout(owner, receiver, assets, burned) ==
  /\ burned <= shares[owner]
  /\ assets <= totalAssets
  /\ shares' = [shares EXCEPT ![owner] = @ - burned]
  /\ totalSupply' = totalSupply - burned
  /\ asset' = Moved(asset, Vault, receiver, assets)
  /\ UNCHANGED <<profitVars, configVars>>

\* Mutant: a deposit rounds the shares up.
DepositRoundsUp(caller, assets, receiver) ==
  /\ ~paused
  /\ Issue(caller, receiver, assets, SharesUp(assets, totalAssets, totalSupply))

Deposit(caller, assets, receiver) ==
  /\ ~paused
  /\ Issue(caller, receiver, assets, SharesDown(assets, totalAssets, totalSupply))

Mint(caller, minted, receiver) ==
  /\ ~paused
  /\ Issue(caller, receiver, AssetsUp(minted, totalAssets, totalSupply), minted)

Withdraw(owner, assets, receiver) ==
  /\ assets <= AssetsDown(shares[owner], totalAssets, totalSupply)
  /\ Payout(owner, receiver, assets, SharesUp(assets, totalAssets, totalSupply))

\* Mutant: a pause also stops redemptions.
RedeemPaused(owner, burned, receiver) ==
  /\ ~paused
  /\ burned <= shares[owner]
  /\ Payout(owner, receiver, AssetsDown(burned, totalAssets, totalSupply), burned)

Redeem(owner, burned, receiver) ==
  /\ burned <= shares[owner]
  /\ Payout(owner, receiver, AssetsDown(burned, totalAssets, totalSupply), burned)

\* Vault shares and the asset are ordinary ERC-20 tokens between calls.
TransferShares(from, to, n) ==
  /\ from # to /\ n <= shares[from]
  /\ shares' = Moved(shares, from, to, n)
  /\ UNCHANGED <<asset, totalSupply, profitVars, configVars>>

TransferAsset(from, to, n) ==
  /\ from # to /\ n <= asset[from]
  /\ asset' = Moved(asset, from, to, n)
  /\ UNCHANGED <<shares, totalSupply, profitVars, configVars>>

-----------------------------------------------------------------------------
(* Accounting.  Its two functions have no access control, and their checked *)
(* additions fail when a sum exceeds the largest number.                    *)

Ledgers ==
  [realizedProfit : 0..MaxLedger, fees : 0..MaxLedger, executions : 0..MaxLedger]

Credited(amount, fee) ==
  [totals EXCEPT !.realizedProfit = @ + amount, !.fees = @ + fee]

RecordProfit(amount, fee) ==
  /\ Credited(amount, fee) \in Ledgers
  /\ totals' = Credited(amount, fee)

RecordExecution ==
  /\ totals.executions < MaxLedger
  /\ totals' = [totals EXCEPT !.executions = @ + 1]

-----------------------------------------------------------------------------
(* Profit reporting.  held is the vault's asset balance at the time of the *)
(* call, which in a composed transaction is not the balance it began with. *)

FeeOn(amount) == (amount * performanceFeeBps) \div BpsDenominator
\* Mutant: the fee shares are rounded up.
FeeSharesUp(amount, held) == SharesUp(FeeOn(amount), held, totalSupply)

FeeShares(amount, held) == SharesDown(FeeOn(amount), held, totalSupply)

\* Mutant: the fee shares are credited without being added to the supply.
TakeProfitUnminted(amount, minProfitAssets, held) ==
  /\ amount >= minProfitAssets
  /\ held >= amount
  /\ totalRealizedProfit + amount <= MaxRealized
  /\ totalRealizedProfit' = totalRealizedProfit + amount
  /\ shares' = [shares EXCEPT ![feeRecipient] = @ + FeeShares(amount, held)]
  /\ UNCHANGED totalSupply

TakeProfit(amount, minProfitAssets, held) ==
  /\ amount >= minProfitAssets
  /\ held >= amount
  /\ totalRealizedProfit + amount <= MaxRealized   \* bound
  /\ totalRealizedProfit' = totalRealizedProfit + amount
  /\ shares' = [shares EXCEPT ![feeRecipient] = @ + FeeShares(amount, held)]
  /\ totalSupply' = totalSupply + FeeShares(amount, held)

\* Mutant: a failure of the call fails the report.
LedgersAfterUncaught(amount) ==
  {t \in {IF accounting THEN Credited(amount, FeeOn(amount)) ELSE totals} : t \in Ledgers}

\* try accounting.recordProfit(...) {} catch {}: the ledger is credited, or the call
\* fails, for an overflow or for want of gas, and its failure is swallowed.
LedgersAfter(amount) ==
  {totals} \cup {t \in {Credited(amount, FeeOn(amount))} : accounting /\ t \in Ledgers}

ReportProfit(caller, amount, minProfitAssets) ==
  /\ caller \in executorRole
  /\ TakeProfit(amount, minProfitAssets, totalAssets)
  /\ totals' \in LedgersAfter(amount)
  /\ UNCHANGED <<asset, configVars>>

-----------------------------------------------------------------------------
(* Administration.  Each setter changes one configuration variable.        *)

Pause ==
  /\ ~paused /\ paused' = TRUE
  /\ UNCHANGED <<performanceFeeBps, feeRecipient, executorRole, riskManager, accounting>>

Unpause ==
  /\ paused /\ paused' = FALSE
  /\ UNCHANGED <<performanceFeeBps, feeRecipient, executorRole, riskManager, accounting>>

SetPerformanceFee(newBps) ==
  /\ newBps <= MaxFeeBps
  /\ performanceFeeBps' = newBps
  /\ UNCHANGED <<feeRecipient, paused, executorRole, riskManager, accounting>>

SetFeeRecipient(recipient) ==
  /\ feeRecipient' = recipient
  /\ UNCHANGED <<performanceFeeBps, paused, executorRole, riskManager, accounting>>

\* The vault stores the risk manager but never calls it.
SetRiskManager(isSet) ==
  /\ riskManager' = isSet
  /\ UNCHANGED <<performanceFeeBps, feeRecipient, paused, executorRole, accounting>>

SetAccounting(isSet) ==
  /\ accounting' = isSet
  /\ UNCHANGED <<performanceFeeBps, feeRecipient, paused, executorRole, riskManager>>

SetExecutorRole(who, granted) ==
  /\ executorRole' = IF granted THEN executorRole \cup {who} ELSE executorRole \ {who}
  /\ UNCHANGED <<performanceFeeBps, feeRecipient, paused, riskManager, accounting>>

-----------------------------------------------------------------------------
UserStep ==
  \E a \in Accounts, b \in Accounts, n \in Amounts :
    \/ Deposit(a, n, b) \/ Mint(a, n, b)
    \/ Withdraw(a, n, b) \/ Redeem(a, n, b)
    \/ TransferShares(a, b, n)

TokenStep ==
  \E from \in Addresses \ {Vault}, to \in Addresses, n \in Amounts : TransferAsset(from, to, n)

AdminStep ==
  /\ UNCHANGED <<ledgerVars, profitVars>>
  /\ \/ Pause \/ Unpause
     \/ \E f \in FeeChoices : SetPerformanceFee(f)
     \/ \E a \in Accounts : SetFeeRecipient(a)
     \/ \E b \in BOOLEAN : SetRiskManager(b) \/ SetAccounting(b) \/ SetExecutorRole(Executor, b)

ReportStep ==
  \E caller \in Addresses, n \in Amounts, m \in Amounts : ReportProfit(caller, n, m)

LedgerStep ==
  /\ UNCHANGED <<ledgerVars, totalRealizedProfit, configVars>>
  /\ RecordExecution \/ \E n \in Amounts, f \in Amounts : RecordProfit(n, f)

VaultNext == UserStep \/ TokenStep \/ AdminStep \/ ReportStep \/ LedgerStep

VaultSpec == VaultInit /\ [][VaultNext]_vaultVars

-----------------------------------------------------------------------------
(* Properties.                                                             *)

\* Every variable has its type.
VaultTypeOK ==
  /\ asset \in [Addresses -> Nat]
  /\ shares \in [Accounts -> Nat] /\ totalSupply \in Nat
  /\ performanceFeeBps \in Nat /\ feeRecipient \in Accounts
  /\ totalRealizedProfit \in Nat
  /\ paused \in BOOLEAN /\ riskManager \in BOOLEAN /\ accounting \in BOOLEAN
  /\ executorRole \subseteq Addresses
  /\ totals \in Ledgers

Claim(a) == AssetsDown(shares[a], totalAssets, totalSupply)

\* The vault owes no more than it holds: the supply is the sum of the
\* holdings, and all holders together can redeem no more than totalAssets,
\* whatever the mix of roundings, gifts, profits and fee shares before.
ClaimsCovered ==
  /\ SumFunction(shares) = totalSupply
  /\ SumFunction([a \in Accounts |-> Claim(a)]) <= totalAssets

\* An owner may take any part of its claim at any time: no state of the vault,
\* paused or not, and none of its ledger disables its withdraw or redeem
\* (ArbVault.sol:103-119).
EveryClaimPayable ==
  \A a \in Accounts :
    /\ \A n \in 0..shares[a] : ENABLED Redeem(a, n, a)
    /\ \A n \in 0..Claim(a) : ENABLED Withdraw(a, n, a)

\* Only a profit report may dilute: every other step leaves the rate of
\* assets to shares at least where it was (ERC4626 rounding, ArbVault.sol:83-119).
OnlyReportsDilute ==
  [][totalRealizedProfit' = totalRealizedProfit
       => RateAtLeast(totalAssets', totalSupply', totalAssets, totalSupply)]_vaultVars

\* A report dilutes by at most half of the profit it reports: the fee shares,
\* at the rate of the assets held once the profit has arrived, are worth no more
\* than the capped fee (ArbVault.sol:135-149 with the cap of 163-167).
FeeSharesWithinCap ==
  [][2 * (totalSupply' - totalSupply) * (totalAssets' + 1)
       <= (totalRealizedProfit' - totalRealizedProfit) * (totalSupply + 1)
     \/ totalRealizedProfit' = totalRealizedProfit]_vaultVars

\* Reporting does not depend on the external ledger: whatever anyone has recorded
\* there, and full or not, a profit the vault holds can be reported
\* (ArbVault.sol:152-154).
ReportsNeedNoLedger ==
  \A n \in Amounts :
    /\ Executor \in executorRole /\ n <= totalAssets
    /\ totalRealizedProfit + n <= MaxRealized
    => ENABLED ReportProfit(Executor, n, 0)
=============================================================================
