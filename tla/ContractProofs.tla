--------------------------- MODULE ContractProofs ----------------------------
(***************************************************************************)
(* The contracts.  First the vault alone, from its own assumptions, for    *)
(* every set of accounts, every initial distribution of the asset and all  *)
(* amounts and fees; then the executor composed with the vault, the risk   *)
(* manager and the controller, for every route, venue output and           *)
(* configuration.                                                          *)
(***************************************************************************)
EXTENDS StrategyExecutor, FiniteFacts

(* The share arithmetic, for every amount and every state of the vault.    *)

(* Rounding down: the quotient never exceeds the exact ratio. *)
LEMMA DivDown ==
  ASSUME NEW x \in Nat, NEW y \in Nat, NEW d \in Nat \ {0}
  PROVE  /\ MulDivDown(x, y, d) \in Nat
         /\ MulDivDown(x, y, d) * d <= x * y
<1>1. x * y \in Nat
  BY SMT
<1>2. /\ (x * y) \div d \in Int
      /\ d * ((x * y) \div d) <= x * y
      /\ x * y < d * ((x * y) \div d) + d
  BY <1>1, DivBounds
<1>3. (x * y) \div d \in Nat
  BY <1>1, <1>2, SMT
<1> QED
  BY <1>2, <1>3, SMT DEF MulDivDown

(* Rounding up: the quotient is never below the exact ratio, and is the    *)
(* least such number.                                                      *)
LEMMA DivUp ==
  ASSUME NEW x \in Nat, NEW y \in Nat, NEW d \in Nat \ {0}
  PROVE  /\ MulDivUp(x, y, d) \in Nat
         /\ MulDivUp(x, y, d) * d >= x * y
         /\ \A n \in Nat : n * d >= x * y => MulDivUp(x, y, d) <= n
<1> DEFINE q == (x * y + (d - 1)) \div d
<1>1. x * y \in Nat /\ x * y + (d - 1) \in Nat
  BY SMT
<1>2. /\ q \in Int
      /\ d * q <= x * y + (d - 1)
      /\ x * y + (d - 1) < d * q + d
  BY <1>1, DivBounds
<1>3. q \in Nat
  BY <1>1, <1>2, SMT
<1>4. q * d >= x * y
  BY <1>1, <1>2, <1>3, SMT
<1>5. ASSUME NEW n \in Nat, n * d >= x * y
      PROVE  q <= n
  <2>1. d * q < d * n + d
    BY <1>1, <1>2, <1>5, SMT
  <2>2. q < n + 1
    BY <2>1, <1>3, SMT
  <2> QED
    BY <2>2, <1>3, SMT
<1> QED
  BY <1>3, <1>4, <1>5 DEF MulDivUp

(* Issuing s shares for a assets does not lower the rate as long as the    *)
(* shares are worth at most the assets at the old rate.                    *)
LEMMA IssueKeepsRate ==
  ASSUME NEW A \in Nat, NEW S \in Nat, NEW a \in Nat, NEW s \in Nat,
         s * (A + 1) <= a * (S + 1)
  PROVE  RateAtLeast(A + a, S + s, A, S)
<1>1. (A + a + 1) * (S + 1) = (A + 1) * (S + 1) + a * (S + 1)
  BY SMT
<1>2. (A + 1) * (S + s + 1) = (A + 1) * (S + 1) + s * (A + 1)
  BY SMT
<1> QED
  BY <1>1, <1>2, SMT DEF RateAtLeast

(* Burning s shares for a assets does not lower the rate as long as the    *)
(* assets are worth at most the shares at the old rate.                    *)
LEMMA BurnKeepsRate ==
  ASSUME NEW A \in Nat, NEW S \in Nat, NEW a \in Nat, NEW s \in Nat,
         a * (S + 1) <= s * (A + 1)
  PROVE  RateAtLeast(A - a, S - s, A, S)
<1>1. (A - a + 1) * (S + 1) = (A + 1) * (S + 1) - a * (S + 1)
  BY SMT
<1>2. (A + 1) * (S - s + 1) = (A + 1) * (S + 1) - s * (A + 1)
  BY SMT
<1> QED
  BY <1>1, <1>2, SMT DEF RateAtLeast

(* A claim on s of the S issued shares never exceeds the assets held.      *)
LEMMA ClaimIsCovered ==
  ASSUME NEW A \in Nat, NEW S \in Nat, NEW s \in Nat, s <= S
  PROVE  AssetsDown(s, A, S) <= A
<1> DEFINE a == AssetsDown(s, A, S)
<1>1. a \in Nat /\ a * (S + 1) <= s * (A + 1)
  BY DivDown, SMT DEF AssetsDown
<1>2. s * (A + 1) <= S * (A + 1)
  BY SMT
<1>3. S * (A + 1) < (A + 1) * (S + 1)
  BY SMT
<1>4. a * (S + 1) < (A + 1) * (S + 1)
  BY <1>1, <1>2, <1>3, SMT
<1>5. a < A + 1
  BY <1>1, <1>4, SMT
<1> QED
  BY <1>1, <1>5, SMT

(* withdraw's check on the assets is as strong as a check on the shares:   *)
(* assets within the owner's claim never need more shares than it holds.   *)
LEMMA WithdrawalWithinShares ==
  ASSUME NEW A \in Nat, NEW S \in Nat, NEW a \in Nat, NEW s \in Nat,
         a <= AssetsDown(s, A, S)
  PROVE  SharesUp(a, A, S) <= s
<1>1. /\ AssetsDown(s, A, S) \in Nat
      /\ AssetsDown(s, A, S) * (S + 1) <= s * (A + 1)
  BY DivDown, SMT DEF AssetsDown
<1>2. a * (S + 1) <= AssetsDown(s, A, S) * (S + 1)
  BY <1>1, SMT
<1>3. s * (A + 1) >= a * (S + 1)
  BY <1>1, <1>2, SMT
<1>4. \A n \in Nat : n * (A + 1) >= a * (S + 1) => MulDivUp(a, S + 1, A + 1) <= n
  <2>1. S + 1 \in Nat /\ A + 1 \in Nat \ {0}
    BY SMT
  <2> QED
    BY <2>1, DivUp
<1> QED
  BY <1>3, <1>4 DEF SharesUp

-----------------------------------------------------------------------------
\* The strengthening: the supply is the sum of the holdings, and the fee in
\* force is one the setter accepts.
VaultInv ==
  /\ VaultTypeOK
  /\ IsSum(totalSupply, shares, Accounts)
  /\ performanceFeeBps <= MaxFeeBps

(* What issuing and burning shares do to the two ledgers.                  *)
LEMMA AddressFacts ==
  /\ Accounts \subseteq Addresses /\ Vault \in Addresses /\ Executor \in Addresses
  BY DEF Addresses

LEMMA MovedType ==
  ASSUME NEW S, NEW b \in [S -> Nat], NEW from \in S, NEW to \in S,
         NEW n \in Nat, n <= b[from]
  PROVE  Moved(b, from, to, n) \in [S -> Nat]
<1>1. [b EXCEPT ![from] = b[from] - n] \in [S -> Nat]
  BY SMT
<1> DEFINE c == [b EXCEPT ![from] = b[from] - n]
<1>2. c[to] + n \in Nat
  BY <1>1, SMT
<1>3. [c EXCEPT ![to] = c[to] + n] \in [S -> Nat]
  BY <1>1, <1>2
<1> QED
  BY <1>3 DEF Moved

LEMMA MovedFrom ==
  ASSUME NEW S, NEW b \in [S -> Nat], NEW from \in S, NEW to \in S, NEW n \in Nat
  PROVE  /\ from # to => Moved(b, from, to, n)[to] = b[to] + n
         /\ from # to => Moved(b, from, to, n)[from] = b[from] - n
         /\ \A s \in S \ {from, to} : Moved(b, from, to, n)[s] = b[s]
  BY SMT DEF Moved

LEMMA IssueLemma ==
  ASSUME VaultInv, NEW payer \in Accounts, NEW receiver \in Accounts,
         NEW assets \in Nat, NEW minted \in Nat, Issue(payer, receiver, assets, minted)
  PROVE  /\ VaultInv'
         /\ totalAssets' = totalAssets + assets
         /\ totalSupply' = totalSupply + minted
         /\ totalRealizedProfit' = totalRealizedProfit
<1> USE VaultAssumption, AddressFacts DEF VaultInv, VaultTypeOK, Issue
<1>1. payer \in Addresses /\ Vault # payer
  OBVIOUS
<1>2. asset' \in [Addresses -> Nat]
  BY <1>1, MovedType
<1>3. totalAssets' = totalAssets + assets
  <2>1. /\ asset \in [Addresses -> Nat] /\ asset' = Moved(asset, payer, Vault, assets)
        /\ payer \in Addresses /\ Vault \in Addresses /\ payer # Vault
    BY <1>1
  <2> HIDE VaultAssumption DEF VaultInv, VaultTypeOK, Issue
  <2> QED
    BY <2>1, MovedFrom DEF totalAssets
<1>4. shares[receiver] \in Nat /\ shares[receiver] + minted \in Nat
  BY SMT
<1>5. shares' \in [Accounts -> Nat] /\ totalSupply' \in Nat
  BY <1>4, SMT
<1>6. IsSum(totalSupply, shares, Accounts)'
  <2> DEFINE v == shares[receiver] + minted
  <2>1. IsSum(totalSupply - shares[receiver] + v, [shares EXCEPT ![receiver] = v], Accounts)
    BY <1>4, SumUpdate
  <2>2. totalSupply - shares[receiver] + v = totalSupply + minted
    BY <1>4, SMT
  <2> QED
    BY <2>1, <2>2
<1>7. UNCHANGED <<profitVars, configVars>>
  OBVIOUS
<1> QED
  BY <1>2, <1>3, <1>5, <1>6, <1>7 DEF profitVars, configVars

LEMMA PayoutLemma ==
  ASSUME VaultInv, NEW owner \in Accounts, NEW receiver \in Accounts,
         NEW assets \in Nat, NEW burned \in Nat, Payout(owner, receiver, assets, burned)
  PROVE  /\ VaultInv'
         /\ totalAssets' = totalAssets - assets
         /\ totalSupply' = totalSupply - burned
         /\ totalRealizedProfit' = totalRealizedProfit
<1> USE VaultAssumption, AddressFacts DEF VaultInv, VaultTypeOK, Payout
<1>1. receiver \in Addresses /\ Vault # receiver
  OBVIOUS
<1>2. asset' \in [Addresses -> Nat]
  BY <1>1, MovedType DEF totalAssets
<1>3. totalAssets' = totalAssets - assets
  <2>1. /\ asset \in [Addresses -> Nat] /\ asset' = Moved(asset, Vault, receiver, assets)
        /\ receiver \in Addresses /\ Vault \in Addresses /\ receiver # Vault
    BY <1>1
  <2> HIDE VaultAssumption DEF VaultInv, VaultTypeOK, Payout
  <2> QED
    BY <2>1, MovedFrom DEF totalAssets
<1>4. shares[owner] \in Nat /\ shares[owner] - burned \in Nat
  BY SMT
<1>5. shares' \in [Accounts -> Nat]
  BY <1>4, SMT
<1>6. IsSum(totalSupply, shares, Accounts)' /\ totalSupply' \in Nat
  <2> DEFINE v == shares[owner] - burned
  <2>1. /\ IsSum(totalSupply - shares[owner] + v, [shares EXCEPT ![owner] = v], Accounts)
        /\ totalSupply - shares[owner] + v \in Nat
    BY <1>4, SumUpdate
  <2>2. totalSupply - shares[owner] + v = totalSupply - burned
    BY <1>4, SMT
  <2> QED
    BY <2>1, <2>2
<1>7. UNCHANGED <<profitVars, configVars>>
  OBVIOUS
<1> QED
  BY <1>2, <1>3, <1>5, <1>6, <1>7 DEF profitVars, configVars

(* A fee never exceeds half of the profit it is taken from.                *)
LEMMA FeeWithinCap ==
  ASSUME VaultInv, NEW amount \in Nat
  PROVE  FeeOn(amount) \in Nat /\ 2 * FeeOn(amount) <= amount
<1> DEFINE q == (amount * performanceFeeBps) \div BpsDenominator
<1>1. performanceFeeBps \in Nat /\ performanceFeeBps <= 5000
  BY DEF VaultInv, VaultTypeOK, MaxFeeBps
<1>2. amount * performanceFeeBps \in Nat /\ amount * performanceFeeBps <= amount * 5000
  BY <1>1, SMT
<1>3. /\ q \in Int /\ 10000 * q <= amount * performanceFeeBps
      /\ amount * performanceFeeBps < 10000 * q + 10000
  BY <1>2, DivBounds, SMT DEF BpsDenominator
<1>4. q \in Nat /\ 2 * q <= amount
  BY <1>2, <1>3, SMT
<1> QED
  BY <1>4 DEF FeeOn

(* The shares minted for a fee are worth at most the fee at the rate in    *)
(* force when they are minted.                                             *)
LEMMA FeeSharesWorth ==
  ASSUME VaultInv, NEW amount \in Nat, NEW held \in Nat
  PROVE  /\ FeeShares(amount, held) \in Nat
         /\ FeeShares(amount, held) * (held + 1) <= FeeOn(amount) * (totalSupply + 1)
         /\ 2 * FeeShares(amount, held) * (held + 1) <= amount * (totalSupply + 1)
<1> DEFINE m == FeeShares(amount, held)
           fee == FeeOn(amount)
<1>1. totalSupply \in Nat /\ totalSupply + 1 \in Nat /\ held + 1 \in Nat \ {0}
  BY SMT DEF VaultInv, VaultTypeOK
<1>2. fee \in Nat /\ 2 * fee <= amount
  BY FeeWithinCap
<1>3. m \in Nat /\ m * (held + 1) <= fee * (totalSupply + 1)
  BY <1>1, <1>2, DivDown DEF FeeShares, SharesDown
<1>4. 2 * (fee * (totalSupply + 1)) <= amount * (totalSupply + 1)
  BY <1>1, <1>2, SMT
<1>5. 2 * m * (held + 1) = 2 * (m * (held + 1))
  BY <1>3, SMT
<1>6. 2 * m * (held + 1) <= amount * (totalSupply + 1)
  BY <1>1, <1>2, <1>3, <1>4, <1>5, SMT
<1> QED
  BY <1>3, <1>6

(* A profit report keeps the invariant, whatever becomes of the ledger and *)
(* whatever else the transaction does to the asset balances.               *)
LEMMA TakeProfitLemma ==
  ASSUME VaultInv, NEW amount \in Nat, NEW floor \in Nat, NEW held \in Nat,
         TakeProfit(amount, floor, held), totals' \in Ledgers, asset' \in [Addresses -> Nat], UNCHANGED configVars
  PROVE  VaultInv'
<1> USE VaultAssumption DEF VaultInv, VaultTypeOK, TakeProfit, configVars
<1> DEFINE m == FeeShares(amount, held)
<1>1. m \in Nat /\ feeRecipient \in Accounts /\ shares[feeRecipient] \in Nat
  BY FeeSharesWorth
<1>2. shares[feeRecipient] + m \in Nat /\ totalSupply + m \in Nat
  BY <1>1, SMT
<1>3. shares' \in [Accounts -> Nat] /\ totalSupply' \in Nat
  BY <1>1, <1>2
<1>4. IsSum(totalSupply, shares, Accounts)'
  <2> DEFINE v == shares[feeRecipient] + m
  <2>1. IsSum(totalSupply - shares[feeRecipient] + v, [shares EXCEPT ![feeRecipient] = v], Accounts)
    BY <1>1, <1>2, SumUpdate
  <2>2. totalSupply - shares[feeRecipient] + v = totalSupply + m
    BY <1>1, SMT
  <2> QED
    BY <2>1, <2>2
<1>5. totalRealizedProfit' \in Nat /\ totalRealizedProfit' = totalRealizedProfit + amount
  BY SMT
<1> QED
  BY <1>3, <1>4, <1>5

\* Assets and shares move the same way.
SameDirection ==
  \/ totalAssets' >= totalAssets /\ totalSupply' >= totalSupply
  \/ totalAssets' <= totalAssets /\ totalSupply' <= totalSupply

(* The user operations: each keeps the invariant and the rate.             *)
LEMMA UserStepLemma ==
  ASSUME VaultInv, NEW a \in Accounts, NEW b \in Accounts, NEW n \in Nat,
         \/ Deposit(a, n, b) \/ Mint(a, n, b) \/ Withdraw(a, n, b) \/ Redeem(a, n, b)
         \/ TransferShares(a, b, n)
  PROVE  /\ VaultInv'
         /\ totalRealizedProfit' = totalRealizedProfit
         /\ RateAtLeast(totalAssets', totalSupply', totalAssets, totalSupply)
         /\ SameDirection
<1> DEFINE A == totalAssets
           S == totalSupply
<1>1. /\ A \in Nat /\ S \in Nat /\ A + 1 \in Nat \ {0} /\ S + 1 \in Nat \ {0}
      /\ shares[a] \in Nat
  BY AddressFacts, SMT DEF VaultInv, VaultTypeOK, totalAssets
<1> HIDE DEF A, S
<1>2. CASE Deposit(a, n, b)
  <2> DEFINE m == SharesDown(n, A, S)
  <2>1. m \in Nat /\ m * (A + 1) <= n * (S + 1)
    BY <1>1, DivDown DEF SharesDown
  <2>2. Issue(a, b, n, m)
    BY <1>2 DEF Deposit, A, S
  <2>3. /\ VaultInv' /\ totalRealizedProfit' = totalRealizedProfit
        /\ totalAssets' = A + n /\ totalSupply' = S + m
    BY <2>1, <2>2, IssueLemma DEF A, S
  <2>4. SameDirection
    BY <2>1, <2>3, <1>1, SMT DEF SameDirection, A, S
  <2> QED
    BY <2>1, <2>3, <2>4, <1>1, IssueKeepsRate DEF A, S
<1>3. CASE Mint(a, n, b)
  <2> DEFINE v == AssetsUp(n, A, S)
  <2>1. v \in Nat /\ n * (A + 1) <= v * (S + 1)
    BY <1>1, DivUp DEF AssetsUp
  <2>2. Issue(a, b, v, n)
    BY <1>3 DEF Mint, A, S
  <2>3. /\ VaultInv' /\ totalRealizedProfit' = totalRealizedProfit
        /\ totalAssets' = A + v /\ totalSupply' = S + n
    BY <2>1, <2>2, IssueLemma DEF A, S
  <2>4. SameDirection
    BY <2>1, <2>3, <1>1, SMT DEF SameDirection, A, S
  <2> QED
    BY <2>1, <2>3, <2>4, <1>1, IssueKeepsRate DEF A, S
<1>4. CASE Withdraw(a, n, b)
  <2> DEFINE m == SharesUp(n, A, S)
  <2>1. m \in Nat /\ n * (S + 1) <= m * (A + 1)
    BY <1>1, DivUp DEF SharesUp
  <2>2. Payout(a, b, n, m)
    BY <1>4 DEF Withdraw, A, S
  <2>3. /\ VaultInv' /\ totalRealizedProfit' = totalRealizedProfit
        /\ totalAssets' = A - n /\ totalSupply' = S - m
    BY <2>1, <2>2, PayoutLemma DEF A, S
  <2>4. SameDirection
    BY <2>1, <2>3, <1>1, SMT DEF SameDirection, A, S
  <2> QED
    BY <2>1, <2>3, <2>4, <1>1, BurnKeepsRate DEF A, S
<1>5. CASE Redeem(a, n, b)
  <2> DEFINE v == AssetsDown(n, A, S)
  <2>1. v \in Nat /\ v * (S + 1) <= n * (A + 1)
    BY <1>1, DivDown DEF AssetsDown
  <2>2. Payout(a, b, v, n)
    BY <1>5 DEF Redeem, A, S
  <2>3. /\ VaultInv' /\ totalRealizedProfit' = totalRealizedProfit
        /\ totalAssets' = A - v /\ totalSupply' = S - n
    BY <2>1, <2>2, PayoutLemma DEF A, S
  <2>4. SameDirection
    BY <2>1, <2>3, <1>1, SMT DEF SameDirection, A, S
  <2> QED
    BY <2>1, <2>3, <2>4, <1>1, BurnKeepsRate DEF A, S
<1>6. CASE TransferShares(a, b, n)
  <2> USE <1>6 DEF TransferShares, VaultInv, VaultTypeOK
  <2>1. shares' \in [Accounts -> Nat]
    BY MovedType
  <2>2. UNCHANGED <<asset, totalSupply, profitVars, configVars>>
    OBVIOUS
  <2>3. IsSum(totalSupply, shares, Accounts)'
    <3>1. shares \in [Accounts -> Nat] /\ a # b /\ n <= shares[a]
      OBVIOUS
    <3>2. IsSum(totalSupply, shares', Accounts)
      BY <3>1, SumOfTransfer DEF Moved
    <3> QED
      BY <3>2, <2>2
  <2>4. VaultInv'
    BY <2>1, <2>2, <2>3 DEF profitVars, configVars
  <2>5. totalAssets' = A /\ totalSupply' = S /\ totalRealizedProfit' = totalRealizedProfit
    BY <2>2 DEF totalAssets, profitVars, A, S
  <2>6. RateAtLeast(A, S, A, S)
    BY <1>1, SMT DEF RateAtLeast
  <2>7. SameDirection
    BY <2>5, <1>1, SMT DEF SameDirection, A, S
  <2> QED
    BY <2>4, <2>5, <2>6, <2>7 DEF A, S
<1> QED
  BY <1>2, <1>3, <1>4, <1>5, <1>6

LEMMA TokenStepLemma ==
  ASSUME VaultInv, NEW from \in Addresses \ {Vault}, NEW to \in Addresses, NEW n \in Nat,
         TransferAsset(from, to, n)
  PROVE  /\ VaultInv'
         /\ totalRealizedProfit' = totalRealizedProfit
         /\ RateAtLeast(totalAssets', totalSupply', totalAssets, totalSupply)
         /\ SameDirection
<1> USE DEF VaultInv, VaultTypeOK, TransferAsset
<1>1. asset' \in [Addresses -> Nat]
  BY MovedType
<1>2. totalAssets \in Nat /\ totalAssets' \in Nat /\ totalAssets' >= totalAssets
  <2>1. totalAssets \in Nat /\ totalAssets' \in Nat
    BY <1>1, AddressFacts DEF totalAssets
  <2>2. CASE to = Vault
    BY <2>1, <2>2, MovedFrom, SMT DEF totalAssets
  <2>3. CASE to # Vault
    BY <2>1, <2>3, MovedFrom, AddressFacts, SMT DEF totalAssets
  <2> QED
    BY <2>1, <2>2, <2>3
<1>3. UNCHANGED <<shares, totalSupply, profitVars, configVars>>
  OBVIOUS
<1>4. VaultInv'
  BY <1>1, <1>3 DEF profitVars, configVars
<1>5. RateAtLeast(totalAssets', totalSupply', totalAssets, totalSupply)
  <2>1. \A A, B, S \in Nat : B >= A => (B + 1) * (S + 1) >= (A + 1) * (S + 1)
    BY SMT
  <2>2. totalSupply \in Nat /\ totalSupply' = totalSupply
    OBVIOUS
  <2> QED
    BY <1>2, <2>1, <2>2 DEF RateAtLeast
<1>6. SameDirection
  BY <1>2, <1>3, SMT DEF SameDirection
<1> QED
  BY <1>3, <1>4, <1>5, <1>6 DEF profitVars

LEMMA AdminStepLemma ==
  ASSUME VaultInv, AdminStep
  PROVE  VaultInv' /\ UNCHANGED <<totalAssets, totalSupply, totalRealizedProfit>>
<1> USE VaultAssumption DEF VaultInv, VaultTypeOK, AdminStep
<1>1. UNCHANGED <<ledgerVars, profitVars>>
  OBVIOUS
<1> DEFINE ConfigOK ==
             /\ performanceFeeBps' \in Nat /\ performanceFeeBps' <= MaxFeeBps
             /\ feeRecipient' \in Accounts /\ paused' \in BOOLEAN
             /\ riskManager' \in BOOLEAN /\ accounting' \in BOOLEAN
             /\ executorRole' \subseteq Addresses
<1>2. ASSUME Pause \/ Unpause
      PROVE  ConfigOK
  BY <1>2 DEF Pause, Unpause
<1>3. ASSUME NEW f \in FeeChoices, SetPerformanceFee(f)
      PROVE  ConfigOK
  BY <1>3 DEF SetPerformanceFee
<1>4. ASSUME NEW a \in Accounts, SetFeeRecipient(a)
      PROVE  ConfigOK
  BY <1>4 DEF SetFeeRecipient
<1>5. ASSUME NEW b \in BOOLEAN, SetRiskManager(b) \/ SetAccounting(b) \/ SetExecutorRole(Executor, b)
      PROVE  ConfigOK
  BY <1>5, AddressFacts DEF SetRiskManager, SetAccounting, SetExecutorRole
<1>6. ConfigOK
  BY <1>2, <1>3, <1>4, <1>5 DEF Pause, Unpause
<1> QED
  BY <1>1, <1>6 DEF ledgerVars, profitVars, totalAssets

LEMMA ReportStepLemma ==
  ASSUME VaultInv, NEW caller \in Addresses, NEW n \in Nat, NEW m \in Nat,
         ReportProfit(caller, n, m)
  PROVE  VaultInv'
<1>1. totalAssets \in Nat
  BY AddressFacts DEF VaultInv, VaultTypeOK, totalAssets
<1>2. asset' \in [Addresses -> Nat] /\ UNCHANGED configVars
  BY DEF ReportProfit, VaultInv, VaultTypeOK
<1>3. TakeProfit(n, m, totalAssets) /\ totals' \in Ledgers
  BY DEF ReportProfit, LedgersAfter, VaultInv, VaultTypeOK
<1> QED
  BY <1>1, <1>2, <1>3, TakeProfitLemma

(* What anyone writes to the ledger leaves the vault alone.                *)
LEMMA LedgerStepLemma ==
  ASSUME VaultInv, LedgerStep
  PROVE  VaultInv' /\ UNCHANGED <<totalAssets, totalSupply, totalRealizedProfit>>
<1> USE DEF VaultInv, VaultTypeOK
<1>1. UNCHANGED <<ledgerVars, totalRealizedProfit, configVars>>
  BY DEF LedgerStep
<1>2. totals' \in Ledgers
  <2>1. CASE RecordExecution
    <3>1. totals.executions \in 0..MaxLedger /\ totals.executions < MaxLedger
      BY <2>1 DEF RecordExecution, Ledgers
    <3>2. totals.executions + 1 \in 0..MaxLedger
      BY <3>1, VaultAssumption, SMT
    <3> QED
      BY <2>1, <3>2 DEF RecordExecution, Ledgers
  <2>2. CASE \E n \in Amounts, f \in Amounts : RecordProfit(n, f)
    BY <2>2 DEF RecordProfit
  <2> QED
    BY <2>1, <2>2 DEF LedgerStep
<1> QED
  BY <1>1, <1>2 DEF ledgerVars, configVars, totalAssets

(* Induction: the initial states, every step and stuttering.               *)
LEMMA InitEstablishes == VaultInit => VaultInv
<1> SUFFICES ASSUME VaultInit PROVE VaultInv
  OBVIOUS
<1> USE VaultAssumption DEF VaultInit
<1>0. executorRole \subseteq Addresses
  BY AddressFacts
<1>1. VaultTypeOK
  <2>1. totals \in Ledgers
    <3>1. 0 \in 0..MaxLedger
      BY SMT
    <3> HIDE DEF VaultInit
    <3> QED
      BY <3>1 DEF Ledgers, VaultInit
  <2>2. performanceFeeBps \in Nat
    OBVIOUS
  <2> QED
    BY <1>0, <2>1, <2>2 DEF VaultTypeOK
<1>2. IsSum(totalSupply, shares, Accounts)
  BY SumOfZeros
<1>3. performanceFeeBps <= MaxFeeBps
  OBVIOUS
<1> QED
  BY <1>1, <1>2, <1>3 DEF VaultInv

LEMMA StepPreserves == VaultInv /\ [VaultNext]_vaultVars => VaultInv'
<1> SUFFICES ASSUME VaultInv, [VaultNext]_vaultVars PROVE VaultInv'
  OBVIOUS
<1> USE VaultAssumption
<1>1. CASE UserStep
  BY <1>1, UserStepLemma DEF UserStep
<1>2. CASE TokenStep
  BY <1>2, TokenStepLemma DEF TokenStep
<1>3. CASE AdminStep
  BY <1>3, AdminStepLemma
<1>4. CASE ReportStep
  BY <1>4, ReportStepLemma DEF ReportStep
<1>5. CASE LedgerStep
  BY <1>5, LedgerStepLemma
<1>6. CASE UNCHANGED vaultVars
  BY <1>6 DEF VaultInv, VaultTypeOK, vaultVars, ledgerVars, profitVars, configVars
<1> QED
  BY <1>1, <1>2, <1>3, <1>4, <1>5, <1>6 DEF VaultNext

LEMMA VaultInvariant == VaultSpec => []VaultInv
  BY InitEstablishes, StepPreserves, PTL DEF VaultSpec

(* Every variable keeps its type (no unsigned subtraction underflows).     *)
THEOREM VaultTypeCorrect == VaultSpec => []VaultTypeOK
<1>1. VaultInv => VaultTypeOK
  BY DEF VaultInv
<1> QED
  BY <1>1, VaultInvariant, PTL

\* What withdraw and redeem require of the state, for every part of every claim: it
\* names the balances only, so neither the pause nor any setting can refuse it.
ClaimsAdmitted ==
  \A a \in Accounts :
    /\ \A n \in 0..shares[a] : AssetsDown(n, totalAssets, totalSupply) <= totalAssets
    /\ \A n \in 0..Claim(a) :
         n <= totalAssets /\ SharesUp(n, totalAssets, totalSupply) <= shares[a]

LEMMA InvariantAdmitsClaims == VaultInv => ClaimsAdmitted
<1> SUFFICES ASSUME VaultInv, NEW a \in Accounts
             PROVE  /\ \A n \in 0..shares[a] :
                         AssetsDown(n, totalAssets, totalSupply) <= totalAssets
                    /\ \A n \in 0..Claim(a) :
                         n <= totalAssets /\ SharesUp(n, totalAssets, totalSupply) <= shares[a]
  BY DEF ClaimsAdmitted
<1> DEFINE A == totalAssets
           S == totalSupply
<1>1. A \in Nat /\ S \in Nat /\ shares[a] \in Nat /\ shares[a] <= S
  BY AddressFacts, MemberAtMostSum DEF VaultInv, VaultTypeOK, totalAssets
<1>2. Claim(a) \in Nat
  <2>1. A + 1 \in Nat /\ S + 1 \in Nat \ {0}
    BY <1>1, SMT
  <2> QED
    BY <1>1, <2>1, DivDown DEF Claim, AssetsDown
<1>3. Claim(a) <= A
  BY <1>1, ClaimIsCovered DEF Claim
<1> HIDE DEF A, S
<1>4. ASSUME NEW n \in 0..shares[a] PROVE AssetsDown(n, A, S) <= A
  <2>1. n \in Nat /\ n <= S
    BY <1>1, SMT
  <2> QED
    BY <1>1, <2>1, ClaimIsCovered
<1>5. ASSUME NEW n \in 0..Claim(a) PROVE n <= A /\ SharesUp(n, A, S) <= shares[a]
  <2>1. n \in Nat /\ n <= Claim(a) /\ n <= A
    BY <1>1, <1>2, <1>3, SMT
  <2>2. n <= AssetsDown(shares[a], A, S)
    BY <2>1 DEF Claim, A, S
  <2> QED
    BY <1>1, <2>1, <2>2, WithdrawalWithinShares
<1> QED
  BY <1>4, <1>5 DEF A, S

(* Where a claim is admitted, redeem and withdraw have no further guard:   *)
(* each is an assignment to every variable of the vault.                   *)
LEMMA AdmittedIsTaken ==
  ASSUME ClaimsAdmitted, NEW a \in Accounts
  PROVE  /\ \A n \in 0..shares[a] : n <= shares[a] =>
              (Redeem(a, n, a)
                 <=> /\ shares' = [shares EXCEPT ![a] = @ - n]
                     /\ totalSupply' = totalSupply - n
                     /\ asset' = Moved(asset, Vault, a, AssetsDown(n, totalAssets, totalSupply))
                     /\ UNCHANGED <<profitVars, configVars>>)
         /\ \A n \in 0..Claim(a) : n <= Claim(a) =>
              (Withdraw(a, n, a)
                 <=> /\ shares' = [shares EXCEPT ![a] = @ - SharesUp(n, totalAssets, totalSupply)]
                     /\ totalSupply' = totalSupply - SharesUp(n, totalAssets, totalSupply)
                     /\ asset' = Moved(asset, Vault, a, n)
                     /\ UNCHANGED <<profitVars, configVars>>)
  BY DEF ClaimsAdmitted, Redeem, Withdraw, Payout, Claim

(* A claim is always payable: no holder can be locked in by lack of assets, *)
(* by a rounding of withdraw against redeem, or by anything but the balances *)
(* themselves (ArbVault.sol:103-119).                                        *)
THEOREM ClaimsPayable == VaultSpec => []ClaimsAdmitted
  BY InvariantAdmitsClaims, VaultInvariant, PTL

\* All claims together, weighted by the issued shares, are at most the holdings weighted
\* by the assets: that is a sum of the roundings of the single claims.
LEMMA InvariantCoversClaims == VaultInv => ClaimsCovered
<1> SUFFICES ASSUME VaultInv PROVE ClaimsCovered
  OBVIOUS
<1> DEFINE A == totalAssets
           S == totalSupply
           claims == [a \in Accounts |-> Claim(a)]
<1>1. A \in Nat /\ S \in Nat /\ A + 1 \in Nat \ {0} /\ S + 1 \in Nat \ {0}
  BY AddressFacts DEF VaultInv, VaultTypeOK, totalAssets
<1>2. shares \in [Accounts -> Nat] /\ IsFiniteSet(Accounts) /\ SumFunction(shares) = S
  BY DEF VaultInv, VaultTypeOK, IsSum
<1>3. \A a \in Accounts : Claim(a) \in Nat /\ Claim(a) * (S + 1) <= shares[a] * (A + 1)
  BY <1>1, <1>2, DivDown DEF Claim, AssetsDown
<1> HIDE DEF A, S
<1>4. claims \in [Accounts -> Nat] /\ \A a \in Accounts : claims[a] * (S + 1) <= shares[a] * (A + 1)
  BY <1>3
<1> HIDE DEF claims
<1>5. SumFunction(claims) \in Nat
  BY <1>2, <1>4, SumIsNatural, Zenon
<1>6. SumFunction(claims) * (S + 1) <= SumFunction(shares) * (A + 1)
  <2>1. S + 1 \in Nat /\ A + 1 \in Nat
    BY <1>1
  <2> QED
    BY <1>2, <1>4, <2>1, SumsCompare, Zenon
<1>7. SumFunction(claims) <= A
  <2>1. \A c, x, y \in Nat : c * (x + 1) <= x * (y + 1) => c <= y
    <3> SUFFICES ASSUME NEW c \in Nat, NEW x \in Nat, NEW y \in Nat,
                        c * (x + 1) <= x * (y + 1), c >= y + 1
                 PROVE  FALSE
      OBVIOUS
    <3>1. c * (x + 1) >= (y + 1) * (x + 1)
      BY SMT
    <3>2. (y + 1) * (x + 1) = x * (y + 1) + (y + 1)
      BY SMT
    <3> QED
      BY <3>1, <3>2, SMT
  <2>2. SumFunction(claims) * (S + 1) <= S * (A + 1)
    BY <1>2, <1>6, Zenon
  <2> QED
    BY <1>1, <1>5, <2>1, <2>2
<1> QED
  BY <1>2, <1>7, Zenon DEF ClaimsCovered, claims, A, S

(* The vault owes no more than it holds: what all holders together may     *)
(* redeem is at most totalAssets, and the supply is the sum of the         *)
(* holdings, through every deposit, withdrawal, transfer, gift and profit  *)
(* report (ArbVault.sol:83-139).                                           *)
THEOREM ClaimsAreCovered == VaultSpec => []ClaimsCovered
  BY InvariantCoversClaims, VaultInvariant, PTL

(* Only a profit report may lower the rate of assets to shares.            *)
THEOREM OnlyReportsLowerTheRate == VaultSpec => OnlyReportsDilute
<1> DEFINE Kept == totalRealizedProfit' = totalRealizedProfit
             => RateAtLeast(totalAssets', totalSupply', totalAssets, totalSupply)
<1>0. \A A, S \in Nat : RateAtLeast(A, S, A, S)
  BY SMT DEF RateAtLeast
<1>1. VaultInv => totalAssets \in Nat /\ totalSupply \in Nat
  BY AddressFacts DEF VaultInv, VaultTypeOK, totalAssets
<1>2. VaultInv /\ [VaultNext]_vaultVars => [Kept]_vaultVars
  <2> SUFFICES ASSUME VaultInv, VaultNext PROVE Kept
    OBVIOUS
  <2> USE VaultAssumption
  <2>1. CASE UserStep
    BY <2>1, UserStepLemma DEF UserStep
  <2>2. CASE TokenStep
    BY <2>2, TokenStepLemma DEF TokenStep
  <2>3. CASE AdminStep
    BY <2>3, <1>0, <1>1, AdminStepLemma
  <2>4. CASE ReportStep /\ totalRealizedProfit' = totalRealizedProfit
    <3>1. PICK n \in Nat, m \in Nat : TakeProfit(n, m, totalAssets) /\ asset' = asset
      BY <2>4 DEF ReportStep, ReportProfit
    <3>2. n = 0
      BY <3>1, <2>4, SMT DEF TakeProfit, VaultInv, VaultTypeOK
    <3> DEFINE k == FeeShares(n, totalAssets)
    <3>3. k \in Nat /\ 2 * k * (totalAssets + 1) <= n * (totalSupply + 1)
      BY <1>1, FeeSharesWorth
    <3>4. k = 0
      BY <3>2, <3>3, <1>1, SMT
    <3>5. totalSupply' = totalSupply /\ totalAssets' = totalAssets
      BY <3>1, <3>4, <1>1, SMT DEF TakeProfit, totalAssets
    <3> QED
      BY <3>5, <1>0, <1>1
  <2>5. CASE LedgerStep
    BY <2>5, <1>0, <1>1, LedgerStepLemma
  <2> QED
    BY <2>1, <2>2, <2>3, <2>4, <2>5 DEF VaultNext
<1> QED
  BY <1>2, VaultInvariant, PTL DEF VaultSpec, OnlyReportsDilute

(* And a report lowers it by no more than half of the profit it reports.   *)
THEOREM ReportDilutionBounded == VaultSpec => FeeSharesWithinCap
<1> DEFINE Bounded ==
      \/ 2 * (totalSupply' - totalSupply) * (totalAssets' + 1)
           <= (totalRealizedProfit' - totalRealizedProfit) * (totalSupply + 1)
      \/ totalRealizedProfit' = totalRealizedProfit
<1>1. VaultInv => totalAssets \in Nat /\ totalSupply \in Nat /\ totalRealizedProfit \in Nat
  BY AddressFacts DEF VaultInv, VaultTypeOK, totalAssets
<1>2. VaultInv /\ [VaultNext]_vaultVars => [Bounded]_vaultVars
  <2> SUFFICES ASSUME VaultInv, VaultNext PROVE Bounded
    OBVIOUS
  <2> USE VaultAssumption
  <2>1. CASE UserStep
    BY <2>1, UserStepLemma DEF UserStep
  <2>2. CASE TokenStep
    BY <2>2, TokenStepLemma DEF TokenStep
  <2>3. CASE AdminStep
    BY <2>3, AdminStepLemma
  <2>4. CASE ReportStep
    <3>1. PICK n \in Nat, m \in Nat :
            TakeProfit(n, m, totalAssets) /\ totalAssets' = totalAssets
      BY <2>4 DEF ReportStep, ReportProfit, totalAssets
    <3> DEFINE k == FeeShares(n, totalAssets)
    <3>2. k \in Nat /\ 2 * k * (totalAssets + 1) <= n * (totalSupply + 1)
      BY <1>1, FeeSharesWorth
    <3>3. totalSupply' - totalSupply = k /\ totalRealizedProfit' - totalRealizedProfit = n
      BY <3>1, <3>2, <1>1, SMT DEF TakeProfit
    <3> QED
      BY <3>1, <3>2, <3>3
  <2>5. CASE LedgerStep
    BY <2>5, LedgerStepLemma
  <2> QED
    BY <2>1, <2>2, <2>3, <2>4, <2>5 DEF VaultNext
<1> QED
  BY <1>2, VaultInvariant, PTL DEF VaultSpec, FeeSharesWithinCap

-----------------------------------------------------------------------------
(* The executor with the vault, the risk manager and the controller.       *)

\* The vault's inductive invariant is also the composition's.
ExecInv == TypeOK /\ VaultInv

(* A request's route is a sequence of hops.                                *)
LEMMA RequestFacts ==
  ASSUME NEW req \in Requests
  PROVE  /\ req.principal \in Nat /\ req.minProfitAssets \in Nat /\ req.asset \in Tokens
         /\ req.route \in Seq(Hops) /\ Len(req.route) \in Nat
         /\ DOMAIN req.route = 1..Len(req.route)
         /\ req.route # <<>> => Len(req.route) \in 1..Len(req.route)
<1>1. /\ req.principal \in Nat /\ req.minProfitAssets \in Nat /\ req.asset \in Tokens
      /\ req.route \in Seq(Hops)
  BY ExecutorAssumption
<1>2. Len(req.route) \in Nat /\ DOMAIN req.route = 1..Len(req.route)
  BY <1>1
<1>3. req.route # <<>> => Len(req.route) # 0
  BY <1>1
<1> QED
  BY <1>1, <1>2, <1>3, SMT

(* What the walk leaves the executor with.                                 *)
LEMMA WalkFacts ==
  ASSUME NEW req \in Requests, NEW outs, req.route # <<>>, WalkSucceeds(req, outs)
  PROVE  Walk(req, outs)[Len(req.route)] \in [Tokens -> Nat]
  BY RequestFacts DEF WalkSucceeds

(* An execution keeps the vault's invariant, and moves the vault like a    *)
(* receipt that pays for the fee shares it issues, at the price of what is *)
(* held after it; the profit is part of the receipt when the request is in *)
(* the vault's asset.                                                      *)
LEMMA ExecuteLemma ==
  ASSUME ExecInv, NEW req \in Requests, NEW outs, Execute(req, outs)
  PROVE  /\ VaultInv' /\ inventory' \in [OtherTokens -> Nat]
         /\ 2 * (totalSupply' - totalSupply) * (totalAssets' + 1)
              <= (totalRealizedProfit' - totalRealizedProfit) * (totalSupply + 1)
         /\ req.asset = Asset =>
            \E gain \in Nat, received \in Nat, minted \in Nat :
              /\ gain <= received
              /\ totalAssets' = totalAssets + received
              /\ totalSupply' = totalSupply + minted
              /\ totalRealizedProfit' = totalRealizedProfit + gain
              /\ minted * (totalAssets + received + 1) <= received * (totalSupply + 1)
<1> DEFINE after == Walk(req, outs)[Len(req.route)]
           balEnd == after[req.asset]
           gain == balEnd - req.principal
           received == Delivered(req, balEnd)
           held == totalAssets + received
<1>1. /\ req.route # <<>> /\ WalkSucceeds(req, outs) /\ Settle(req, after)
      /\ UNCHANGED configVars
  BY DEF Execute, Admitted
<1>2. after \in [Tokens -> Nat]
  BY <1>1, WalkFacts
<1>3. Asset \in Tokens /\ OtherTokens \subseteq Tokens /\ req.asset \in Tokens
  BY RequestFacts DEF Tokens
<1>4. balEnd \in Nat /\ after[Asset] \in Nat
  BY <1>2, <1>3
<1>5. inventory' \in [OtherTokens -> Nat]
  BY <1>1, <1>2, <1>3 DEF Settle, InventoryAfter
<1>6. /\ req.principal \in Nat /\ req.minProfitAssets \in Nat
      /\ asset \in [Addresses -> Nat] /\ totalAssets \in Nat /\ totalSupply \in Nat
      /\ totalRealizedProfit \in Nat
  BY RequestFacts, AddressFacts DEF ExecInv, VaultInv, VaultTypeOK, totalAssets
<1>7. /\ balEnd >= req.principal
      /\ TakeProfit(gain, req.minProfitAssets, held)
      /\ asset' = AssetAfter(req, after)
      /\ totals' \in LedgersAfterExecution(gain)
  BY <1>1 DEF Settle
<1>8. received \in Nat /\ received = IF req.asset = Asset THEN balEnd ELSE 0
  BY <1>4, SMT DEF Delivered
<1>9. asset' \in [Addresses -> Nat] /\ totalAssets' = held
  <2>1. Vault \in Addresses /\ Executor \in Addresses /\ Vault # Executor
    BY AddressFacts, VaultAssumption
  <2>2. CASE req.asset = Asset
    <3>1. asset' = [[asset EXCEPT ![Executor] = balEnd - balEnd] EXCEPT ![Vault] = @ + balEnd]
      BY <1>7, <2>2 DEF AssetAfter, Delivered
    <3>2. balEnd - balEnd = 0
      BY <1>4, SMT
    <3> QED
      BY <2>1, <2>2, <3>1, <3>2, <1>4, <1>6, <1>8, SMTT(30) DEF totalAssets
  <2>3. CASE req.asset # Asset
    <3>1. asset' = [[asset EXCEPT ![Executor] = after[Asset] - 0] EXCEPT ![Vault] = @ + 0]
      BY <1>7, <2>3 DEF AssetAfter, Delivered
    <3>2. after[Asset] - 0 \in Nat
      BY <1>4, SMT
    <3> QED
      BY <2>1, <2>3, <3>1, <3>2, <1>6, <1>8, SMT DEF totalAssets
  <2> QED
    BY <2>2, <2>3
<1> HIDE DEF after, balEnd, received
<1>10. gain \in Nat /\ gain <= balEnd /\ held \in Nat
  BY <1>4, <1>6, <1>7, <1>8, SMT
<1>11. totals' \in Ledgers
  BY <1>7 DEF LedgersAfterExecution, LedgersAfter, ExecInv, VaultInv, VaultTypeOK
<1>12. VaultInv'
  BY <1>1, <1>6, <1>7, <1>9, <1>10, <1>11, TakeProfitLemma DEF ExecInv
<1> DEFINE m == FeeShares(gain, held)
<1>13. /\ m \in Nat /\ m * (held + 1) <= FeeOn(gain) * (totalSupply + 1)
       /\ 2 * m * (held + 1) <= gain * (totalSupply + 1)
  BY <1>10, FeeSharesWorth DEF ExecInv
<1>14. FeeOn(gain) \in Nat /\ FeeOn(gain) <= balEnd
  <2>1. FeeOn(gain) \in Nat /\ 2 * FeeOn(gain) <= gain
    BY <1>10, FeeWithinCap DEF ExecInv
  <2> HIDE DEF gain
  <2> QED
    BY <2>1, <1>4, <1>10, SMT
<1>15. FeeOn(gain) * (totalSupply + 1) <= balEnd * (totalSupply + 1)
  <2>1. \A f, b, s \in Nat : f <= b => f * (s + 1) <= b * (s + 1)
    BY SMT
  <2> QED
    BY <2>1, <1>4, <1>6, <1>14
<1>16. /\ totalSupply' = totalSupply + m
       /\ totalRealizedProfit' = totalRealizedProfit + gain
  BY <1>7 DEF TakeProfit
<1>17. m * (held + 1) <= balEnd * (totalSupply + 1)
  <2>1. held + 1 \in Nat /\ totalSupply + 1 \in Nat
    BY <1>6, <1>10, SMT
  <2>2. /\ m * (held + 1) \in Int /\ FeeOn(gain) * (totalSupply + 1) \in Int
        /\ balEnd * (totalSupply + 1) \in Int
    BY <2>1, <1>4, <1>13, <1>14, SMT
  <2> HIDE DEF m, held, gain
  <2> QED
    BY <2>2, <1>13, <1>15, SMT
<1>18. /\ totalSupply' - totalSupply = m
       /\ totalRealizedProfit' - totalRealizedProfit = gain
  BY <1>6, <1>10, <1>13, <1>16, SMT
<1>19. 2 * (totalSupply' - totalSupply) * (totalAssets' + 1)
         <= (totalRealizedProfit' - totalRealizedProfit) * (totalSupply + 1)
  BY <1>9, <1>13, <1>18
<1> QED
  BY <1>4, <1>5, <1>8, <1>9, <1>10, <1>12, <1>13, <1>16, <1>17, <1>19

(* The steps that leave the vault alone.                                   *)
LEMMA VaultUntouched ==
  ASSUME VaultInv, UNCHANGED vaultVars
  PROVE  VaultInv' /\ UNCHANGED <<totalAssets, totalSupply, totalRealizedProfit>>
  BY DEF VaultInv, VaultTypeOK, totalAssets, vaultVars, ledgerVars,
         profitVars, configVars

LEMMA RiskStepType ==
  ASSUME RiskTypeOK, GuardianRiskStep
  PROVE  RiskTypeOK'
<1> USE RiskAssumption DEF RiskTypeOK
<1>1. ASSUME NEW c \in Chains, NEW b \in BOOLEAN, SetAllowedChain(c, b)
      PROVE  RiskTypeOK'
  BY <1>1 DEF SetAllowedChain
<1>2. ASSUME NEW t \in BlacklistTargets, NEW b \in BOOLEAN, SetBlacklist(t, b)
      PROVE  RiskTypeOK'
  BY <1>2 DEF SetBlacklist
<1>3. ASSUME NEW p \in PolicyChoices, SetPolicy(p)
      PROVE  RiskTypeOK'
  BY <1>3 DEF SetPolicy
<1>4. ASSUME NEW s \in Scopes, PauseScope(s) \/ UnpauseScope(s)
      PROVE  RiskTypeOK'
  BY <1>4 DEF PauseScope, UnpauseScope
<1>5. ASSUME NEW s \in Scopes, NEW l \in Losses, NEW d \in Days, RecordLoss(s, l, d)
      PROVE  RiskTypeOK'
  <2>1. dailyLoss[<<s, d>>] + l \in Nat
    BY SMT
  <2> QED
    BY <1>5, <2>1 DEF RecordLoss
<1> QED
  BY <1>1, <1>2, <1>3, <1>4, <1>5 DEF GuardianRiskStep

LEMMA ControllerStepType ==
  ASSUME ControllerTypeOK, GuardianControllerStep
  PROVE  ControllerTypeOK'
  BY AllocationAssumption DEF ControllerTypeOK, GuardianControllerStep, SetExecutor, SetAllocation

ExecutorTypeOK ==
  /\ trustedVault \in BOOLEAN /\ controllerSet \in BOOLEAN
  /\ whitelistedAdapters \subseteq Adapters

LEMMA ExecutorStepType ==
  ASSUME ExecutorTypeOK, GuardianExecutorStep
  PROVE  ExecutorTypeOK'
  BY DEF ExecutorTypeOK, GuardianExecutorStep, SetTrustedVault, SetController, WhitelistAdapter

(* Users, the administrator, the asset token and the ledger.               *)
LEMMA UserVaultStepLemma ==
  ASSUME VaultInv, UserVaultStep
  PROVE  /\ VaultInv'
         /\ totalRealizedProfit' = totalRealizedProfit
         /\ RateAtLeast(totalAssets', totalSupply', totalAssets, totalSupply)
         /\ SameDirection
<1> USE VaultAssumption
<1>0. totalAssets \in Nat /\ totalSupply \in Nat
  BY AddressFacts DEF VaultInv, VaultTypeOK, totalAssets
<1>1. CASE UserStep
  BY <1>1, UserStepLemma DEF UserStep
<1>2. CASE \E from \in Accounts, to \in Addresses, n \in Amounts : TransferAsset(from, to, n)
  BY <1>2, TokenStepLemma, AddressFacts
<1>3. CASE AdminStep
  <2>1. VaultInv' /\ UNCHANGED <<totalAssets, totalSupply, totalRealizedProfit>>
    BY <1>3, AdminStepLemma
  <2>2. RateAtLeast(totalAssets, totalSupply, totalAssets, totalSupply)
    BY <1>0, SMT DEF RateAtLeast
  <2>3. SameDirection
    BY <2>1, <1>0, SMT DEF SameDirection
  <2> QED
    BY <2>1, <2>2, <2>3
<1>4. CASE LedgerStep
  <2>1. VaultInv' /\ UNCHANGED <<totalAssets, totalSupply, totalRealizedProfit>>
    BY <1>4, LedgerStepLemma
  <2>2. RateAtLeast(totalAssets, totalSupply, totalAssets, totalSupply)
    BY <1>0, SMT DEF RateAtLeast
  <2>3. SameDirection
    BY <2>1, <1>0, SMT DEF SameDirection
  <2> QED
    BY <2>1, <2>2, <2>3
<1> QED
  BY <1>1, <1>2, <1>3, <1>4 DEF UserVaultStep

-----------------------------------------------------------------------------
(* The invariant, by induction.                                            *)
LEMMA ExecInit == Init => ExecInv
<1> SUFFICES ASSUME Init PROVE ExecInv
  OBVIOUS
<1>1. VaultInv
  BY InitEstablishes DEF Init
<1>2. RiskTypeOK
  BY RiskAssumption, ExecutorAssumption DEF Init, RiskTypeOK
<1>3. ControllerTypeOK
  BY ExecutorAssumption DEF Init, ControllerTypeOK
<1>4. inventory \in [OtherTokens -> Nat] /\ now \in Nat /\ ExecutorTypeOK
  BY DEF Init, ExecutorTypeOK
<1> QED
  BY <1>1, <1>2, <1>3, <1>4 DEF ExecInv, TypeOK, VaultInv, ExecutorTypeOK

LEMMA ExecStep == ExecInv /\ [Next]_vars => ExecInv'
<1> SUFFICES ASSUME ExecInv, [Next]_vars PROVE ExecInv'
  OBVIOUS
<1> DEFINE Types == RiskTypeOK /\ ControllerTypeOK /\ ExecutorTypeOK
           Rest == inventory \in [OtherTokens -> Nat] /\ now \in Nat
<1>0. ExecInv <=> Types /\ Rest /\ VaultInv
  BY DEF ExecInv, TypeOK, VaultInv, ExecutorTypeOK
<1>b. ExecInv' <=> Types' /\ Rest' /\ VaultInv'
  BY DEF ExecInv, TypeOK, VaultInv, ExecutorTypeOK
<1>a. ASSUME UNCHANGED <<riskVars, controllerVars, executorVars>> PROVE Types'
  BY <1>0, <1>a DEF riskVars, controllerVars, executorVars, RiskTypeOK, ControllerTypeOK, ExecutorTypeOK
<1>1. ASSUME NEW req \in Requests, ExecuteRequest(req) PROVE ExecInv'
  <2>1. PICK outs : Execute(req, outs)
    BY <1>1 DEF ExecuteRequest
  <2>2. VaultInv' /\ inventory' \in [OtherTokens -> Nat]
    BY <2>1, ExecuteLemma
  <2>3. UNCHANGED <<riskVars, controllerVars, executorVars, now>>
    BY <2>1 DEF Execute
  <2> QED
    BY <1>0, <1>b, <1>a, <2>2, <2>3
<1>2. CASE UserVaultStep
  BY <1>0, <1>b, <1>a, <1>2, UserVaultStepLemma DEF UserVaultStep, restVars
<1>3. CASE GuardianStep
  <2>1. VaultInv' /\ Rest'
    BY <1>0, <1>3, VaultUntouched DEF GuardianStep
  <2>2. CASE GuardianExecutorStep
    <3>1. RiskTypeOK' /\ ControllerTypeOK'
      BY <1>0, <2>2 DEF GuardianExecutorStep, riskVars, controllerVars, RiskTypeOK, ControllerTypeOK
    <3> QED
      BY <1>0, <1>b, <2>1, <2>2, <3>1, ExecutorStepType
  <2>3. CASE GuardianRiskStep
    <3>1. ExecutorTypeOK' /\ ControllerTypeOK'
      BY <1>0, <2>3 DEF GuardianRiskStep, executorVars, controllerVars, ExecutorTypeOK, ControllerTypeOK
    <3> QED
      BY <1>0, <1>b, <2>1, <2>3, <3>1, RiskStepType
  <2>4. CASE GuardianControllerStep
    <3>1. ExecutorTypeOK' /\ RiskTypeOK'
      BY <1>0, <2>4 DEF GuardianControllerStep, executorVars, riskVars, ExecutorTypeOK, RiskTypeOK
    <3> QED
      BY <1>0, <1>b, <2>1, <2>4, <3>1, ControllerStepType
  <2> QED
    BY <1>3, <2>2, <2>3, <2>4 DEF GuardianStep
<1>4. ASSUME NEW t \in OtherTokens, NEW n \in Amounts, ReceiveToken(t, n) PROVE ExecInv'
  <2>1. inventory[t] + n \in Nat
    BY <1>0, VaultAssumption, SMT
  <2>2. inventory' \in [OtherTokens -> Nat]
    BY <1>0, <1>4, <2>1 DEF ReceiveToken
  <2> QED
    BY <1>0, <1>b, <1>a, <1>4, <2>2, VaultUntouched DEF ReceiveToken
<1>5. CASE Tick
  <2>1. now' \in Nat
    BY <1>0, <1>5, SMT DEF Tick
  <2> QED
    BY <1>0, <1>b, <1>a, <1>5, <2>1, VaultUntouched DEF Tick
<1>6. CASE UNCHANGED vars
  BY <1>0, <1>b, <1>a, <1>6, VaultUntouched DEF vars
<1> QED
  BY <1>1, <1>2, <1>3, <1>4, <1>5, <1>6 DEF Next

LEMMA ExecInvariant == Spec => []ExecInv
  BY ExecInit, ExecStep, PTL DEF Spec

(* Every variable of the composition keeps its type.                       *)
THEOREM ExecTypeCorrect == Spec => []TypeOK
<1>1. ExecInv => TypeOK
  BY DEF ExecInv
<1> QED
  BY <1>1, ExecInvariant, PTL

(* Executions never make a claim unpayable (ArbVault.sol:103-119).         *)
THEOREM ClaimsPayableUnderExecution == Spec => []ClaimsAdmitted
<1>1. ExecInv => ClaimsAdmitted
  BY InvariantAdmitsClaims DEF ExecInv
<1> QED
  BY <1>1, ExecInvariant, PTL

(* Routes, transfers and profit reports leave the vault solvent too: all   *)
(* claims together stay within totalAssets (StrategyExecutor.sol:111-181). *)
THEOREM ExecutionsCoverClaims == Spec => []ClaimsCovered
<1>1. ExecInv => ClaimsCovered
  BY InvariantCoversClaims DEF ExecInv
<1> QED
  BY <1>1, ExecInvariant, PTL

(* The fee shares of an execution are priced at what the vault holds once  *)
(* the profit has arrived, in whatever token the request was made          *)
(* (StrategyExecutor.sol:178-181 with ArbVault.sol:135-149).               *)
THEOREM ExecutionDilutionBounded == Spec => FeeSharesWithinCap
<1> DEFINE Bounded ==
      \/ 2 * (totalSupply' - totalSupply) * (totalAssets' + 1)
           <= (totalRealizedProfit' - totalRealizedProfit) * (totalSupply + 1)
      \/ totalRealizedProfit' = totalRealizedProfit
<1>1. ExecInv /\ [Next]_vars => [Bounded]_vaultVars
  <2> SUFFICES ASSUME ExecInv, [Next]_vars, ~UNCHANGED vaultVars PROVE Bounded
    OBVIOUS
  <2>1. ASSUME NEW req \in Requests, ExecuteRequest(req) PROVE Bounded
    BY <2>1, ExecuteLemma DEF ExecuteRequest
  <2>2. CASE UserVaultStep
    BY <2>2, UserVaultStepLemma DEF ExecInv
  <2>3. ASSUME UNCHANGED vaultVars PROVE FALSE
    BY <2>3
  <2> QED
    BY <2>1, <2>2, <2>3 DEF Next, GuardianStep, ReceiveToken, Tick, vars
<1> QED
  BY <1>1, ExecInvariant, PTL DEF Spec, FeeSharesWithinCap

-----------------------------------------------------------------------------
(* Refinement: what a step of the composition is to the fund.              *)
LEMMA FlowIsFundStep ==
  ASSUME totalRealizedProfit' = totalRealizedProfit, totalRealizedProfit \in Nat,
         totalAssets \in Nat, totalAssets' \in Nat,
         RateAtLeast(totalAssets', totalSupply', totalAssets, totalSupply), SameDirection
  PROVE  Fund!Receive \/ Fund!Pay
<1>1. CASE totalAssets' >= totalAssets /\ totalSupply' >= totalSupply
  <2>1. \A p, a, b \in Nat : b >= a => p - p <= b - a /\ p >= p
    BY SMT
  <2>2. /\ totalRealizedProfit' - totalRealizedProfit <= totalAssets' - totalAssets
        /\ totalRealizedProfit' >= totalRealizedProfit
    BY <1>1, <2>1
  <2> QED
    BY <1>1, <2>2 DEF Fund!Receive, Fund!RateKept, Fund!RateAtLeast, RateAtLeast
<1>2. CASE totalAssets' <= totalAssets /\ totalSupply' <= totalSupply
  BY <1>2 DEF Fund!Pay, Fund!RateKept, Fund!RateAtLeast, RateAtLeast
<1> QED
  BY <1>1, <1>2 DEF SameDirection

LEMMA ExecutionIsReceipt ==
  ASSUME SingleAsset, ExecInv, NEW req \in Requests, NEW outs, Execute(req, outs)
  PROVE  Fund!Receive
<1>1. PICK gain \in Nat, received \in Nat, minted \in Nat :
        /\ gain <= received
        /\ totalAssets' = totalAssets + received
        /\ totalSupply' = totalSupply + minted
        /\ totalRealizedProfit' = totalRealizedProfit + gain
        /\ minted * (totalAssets + received + 1) <= received * (totalSupply + 1)
  BY ExecuteLemma DEF SingleAsset
<1> DEFINE A == totalAssets
           S == totalSupply
<1>2. A \in Nat /\ S \in Nat /\ totalRealizedProfit \in Nat
  BY AddressFacts DEF ExecInv, VaultInv, VaultTypeOK, totalAssets
<1> HIDE DEF A, S
<1>3. minted * (A + received + 1) <= received * (S + 1)
  BY <1>1 DEF A, S
<1>4. RateAtLeast(A + received, S + minted, A, S)
  <2>1. (A + received + 1) * (S + 1) = (A + 1) * (S + 1) + received * (S + 1)
    BY <1>2, SMT
  <2>2. (A + 1) * (S + minted + 1) = (A + 1) * (S + 1) + minted * (A + 1)
    BY <1>2, SMT
  <2>3. minted * (A + 1) <= minted * (A + received + 1)
    BY <1>2, SMT
  <2>4. minted * (A + 1) <= received * (S + 1)
    BY <1>2, <1>3, <2>3, SMT
  <2>5. (A + received + 1) * (S + 1) >= (A + 1) * (S + minted + 1)
    BY <1>2, <2>1, <2>2, <2>4, SMT
  <2> QED
    BY <2>5 DEF RateAtLeast
<1>5. /\ totalAssets' = A + received /\ totalSupply' = S + minted
      /\ totalAssets = A /\ totalSupply = S
  BY <1>1 DEF A, S
<1>6. Fund!RateKept
  BY <1>4, <1>5 DEF Fund!RateKept, Fund!RateAtLeast, RateAtLeast
<1>7. /\ totalAssets' >= totalAssets /\ totalSupply' >= totalSupply
      /\ totalRealizedProfit' >= totalRealizedProfit
      /\ totalRealizedProfit' - totalRealizedProfit <= totalAssets' - totalAssets
  BY <1>1, <1>2, <1>5, SMT
<1> QED
  BY <1>6, <1>7 DEF Fund!Receive

LEMMA StepRefinesFund ==
  ASSUME SingleAsset
  PROVE  ExecInv /\ ExecInv' /\ [Next]_vars => [Fund!Receive \/ Fund!Pay]_(Fund!fundVars)
<1> SUFFICES ASSUME ExecInv, ExecInv', [Next]_vars
             PROVE  Fund!Receive \/ Fund!Pay \/ UNCHANGED Fund!fundVars
  OBVIOUS
<1>0. totalAssets \in Nat /\ totalAssets' \in Nat /\ totalRealizedProfit \in Nat
  BY AddressFacts DEF ExecInv, VaultInv, VaultTypeOK, totalAssets
<1>1. ASSUME NEW req \in Requests, ExecuteRequest(req) PROVE Fund!Receive
  BY <1>1, ExecutionIsReceipt DEF ExecuteRequest
<1>2. CASE UserVaultStep
  BY <1>0, <1>2, UserVaultStepLemma, FlowIsFundStep DEF ExecInv
<1>3. ASSUME UNCHANGED vaultVars PROVE UNCHANGED Fund!fundVars
  BY <1>3 DEF Fund!fundVars, vaultVars, ledgerVars, profitVars, totalAssets
<1>4. CASE GuardianStep
  BY <1>3, <1>4 DEF GuardianStep
<1>5. ASSUME NEW t \in OtherTokens, NEW n \in Amounts, ReceiveToken(t, n)
      PROVE  UNCHANGED Fund!fundVars
  BY <1>3, <1>5 DEF ReceiveToken
<1>6. CASE Tick
  BY <1>3, <1>6 DEF Tick
<1>7. CASE UNCHANGED vars
  BY <1>3, <1>7 DEF vars
<1> QED
  BY <1>1, <1>2, <1>4, <1>5, <1>6, <1>7 DEF Next

(* The composed contracts, asked only for routes in the vault's asset,     *)
(* implement the fund: no step of any of them lowers the rate of assets to *)
(* shares, and profit is never reported before it arrives                  *)
(* (StrategyExecutor.sol:162-181, ArbVault.sol:130-149).                   *)
THEOREM ExecutionsImplementFund ==
  ASSUME SingleAsset
  PROVE  Spec => ImplementsFund
<1>1. Init => Fund!FundInit
  BY VaultAssumption DEF Init, VaultInit, Fund!FundInit, totalAssets
<1> QED
  BY <1>1, StepRefinesFund, ExecInvariant, PTL DEF Spec, ImplementsFund, Fund!FundSpec

-----------------------------------------------------------------------------
(* The tokens shown to the risk check cover a connected route: a hop's     *)
(* output is the next hop's input, or the route's last output.             *)
LEMMA ConnectedRouteIsShown ==
  ASSUME NEW route \in Seq(Hops), route # <<>>, Connected(route), NEW i \in DOMAIN route
  PROVE  /\ route[i].tokenIn \in RouteTokens(route) /\ route[i].tokenOut \in RouteTokens(route)
         /\ route[i].pool \in RoutePools(route)
<1>1. Len(route) \in Nat /\ DOMAIN route = 1..Len(route) /\ i \in 1..Len(route)
  OBVIOUS
<1>2. route[i].tokenIn \in RouteTokens(route) /\ route[i].pool \in RoutePools(route)
  BY DEF RouteTokens, RoutePools
<1>3. CASE i = Len(route)
  BY <1>2, <1>3 DEF RouteTokens, Last
<1>4. CASE i # Len(route)
  <2>1. i + 1 \in 2..Len(route) /\ i + 1 \in DOMAIN route /\ (i + 1) - 1 = i
    BY <1>1, <1>4, SMT
  <2>2. route[i + 1].tokenIn = route[i].tokenOut
    BY <2>1 DEF Connected
  <2>3. route[i + 1].tokenIn \in RouteTokens(route)
    BY <2>1 DEF RouteTokens
  <2> QED
    BY <1>2, <2>2, <2>3
<1> QED
  BY <1>3, <1>4

(* No execution of a connected route touches a blacklisted token or pool,  *)
(* for routes of any length (RiskManager.sol:100-105).                     *)
THEOREM ConnectedRoutesAvoidBlacklist == Spec => BlacklistHonoured
<1> DEFINE Honoured == \A req \in Requests :
             RiskManagerSet /\ Connected(req.route) /\ ~Avoids(req.route, blacklist)
               => ~ExecuteRequest(req)
<1>1. [Next]_vars => [Honoured]_vars
  <2> SUFFICES ASSUME NEW req \in Requests, RiskManagerSet, Connected(req.route),
                      ExecuteRequest(req)
               PROVE  Avoids(req.route, blacklist)
    OBVIOUS
  <2>1. PICK outs : Execute(req, outs)
    BY DEF ExecuteRequest
  <2>2. /\ req.route # <<>>
        /\ (RouteTokens(req.route) \cup RoutePools(req.route)) \cap blacklist = {}
    BY <2>1 DEF Execute, Admitted, CheckExecution
  <2>3. req.route \in Seq(Hops)
    BY RequestFacts
  <2> QED
    BY <2>2, <2>3, ConnectedRouteIsShown DEF Avoids
<1> QED
  BY <1>1, PTL DEF Spec, BlacklistHonoured

-----------------------------------------------------------------------------
(* What a walk does to the executor's balances, hop by hop.                *)

LEMMA SwappedType ==
  ASSUME NEW held \in [Tokens -> Int], NEW hop \in Hops, NEW in \in Int, NEW out \in Int
  PROVE  Swapped(held, hop, in, out) \in [Tokens -> Int]
<1>1. hop.tokenIn \in Tokens /\ hop.tokenOut \in Tokens
  BY DEF Hops
<1> QED
  BY <1>1 DEF Swapped

LEMMA AmountInType ==
  ASSUME NEW req \in Requests, NEW outs \in [DOMAIN req.route -> Nat], NEW i \in 1..Len(req.route)
  PROVE  AmountIn(req, outs, i) \in Nat /\ outs[i] \in Nat
<1>1. req.principal \in Nat /\ DOMAIN req.route = 1..Len(req.route) /\ Len(req.route) \in Nat
  BY RequestFacts
<1>2. i # 1 => i - 1 \in DOMAIN req.route
  BY <1>1
<1> QED
  BY <1>1, <1>2 DEF AmountIn

LEMMA WalkSteps ==
  ASSUME NEW req \in Requests, NEW outs \in [DOMAIN req.route -> Nat],
         Holdings \in [Tokens -> Int]
  PROVE  /\ Walk(req, outs)[0] = Holdings
         /\ \A i \in 1..Len(req.route) :
              Walk(req, outs)[i] = Swapped(Walk(req, outs)[i - 1], req.route[i],
                                           AmountIn(req, outs, i), outs[i])
<1> DEFINE n == Len(req.route)
           V == [Tokens -> Int]
           step == [kx \in Nat \X V |->
                      IF kx[1] \in 1..n
                      THEN Swapped(kx[2], req.route[kx[1]], AmountIn(req, outs, kx[1]), outs[kx[1]])
                      ELSE kx[2]]
           Walks(h) == h = [i \in 0..n |->
                              IF i = 0 THEN Holdings
                              ELSE Swapped(h[i - 1], req.route[i], AmountIn(req, outs, i), outs[i])]
<1>1. n \in Nat /\ DOMAIN req.route = 1..n /\ \A i \in 1..n : req.route[i] \in Hops
  BY RequestFacts
<1>2. step \in [Nat \X V -> V]
  <2>1. ASSUME NEW k \in Nat, NEW x \in V, k \in 1..n
        PROVE  Swapped(x, req.route[k], AmountIn(req, outs, k), outs[k]) \in V
    <3>1. k \in 1..Len(req.route) /\ req.route[k] \in Hops
      BY <1>1, <2>1
    <3>2. AmountIn(req, outs, k) \in Nat /\ outs[k] \in Nat
      BY <3>1, AmountInType
    <3>3. AmountIn(req, outs, k) \in Int /\ outs[k] \in Int
      BY <3>2
    <3> QED
      BY <3>1, <3>3, SwappedType
  <2> HIDE DEF V, n
  <2> QED
    BY <2>1
<1>3. \E h : Walks(h)
  <2> HIDE DEF step
  <2>1. PICK h \in [0..n -> V] : IsIteration(h, Holdings, step, n)
    BY <1>1, <1>2, IterationExists
  <2>2. ASSUME NEW i \in 0..n, i # 0
        PROVE  step[<<i, h[i - 1]>>] =
                 Swapped(h[i - 1], req.route[i], AmountIn(req, outs, i), outs[i])
    <3>1. i \in 1..n /\ i \in Nat /\ i - 1 \in 0..n
      BY <1>1, <2>2
    <3>2. <<i, h[i - 1]>> \in Nat \X V
      BY <3>1
    <3> HIDE DEF V, n
    <3> QED
      BY <3>1, <3>2 DEF step
  <2>3. Walks(h)
    BY <2>1, <2>2 DEF IsIteration
  <2> QED
    BY <2>3
<1>4. Walk(req, outs) = CHOOSE h : Walks(h)
  BY DEF Walk
<1>5. Walks(Walk(req, outs))
  <2> HIDE DEF Walks
  <2> QED
    BY <1>3, <1>4
<1>6. 0 \in 0..n /\ \A i \in 1..n : i \in 0..n /\ i # 0
  BY <1>1
<1> HIDE DEF step
<1> QED
  BY <1>5, <1>6

(* Balances that are those of base with one amount of one token on top.    *)
Carries(held, base, token, amount) ==
  /\ held \in [Tokens -> Int]
  /\ \A t \in Tokens : held[t] = base[t] + (IF t = token THEN amount ELSE 0)

(* A swap of all that the last one paid out moves it to the next token.    *)
LEMMA SwappedOn ==
  ASSUME NEW base \in [Tokens -> Int], NEW hop \in Hops, NEW in \in Int, NEW out \in Int,
         NEW held, Carries(held, base, hop.tokenIn, in)
  PROVE  Carries(Swapped(held, hop, in, out), base, hop.tokenOut, out)
<1> DEFINE taken == [held EXCEPT ![hop.tokenIn] = @ - in]
<1>1. hop.tokenIn \in Tokens /\ hop.tokenOut \in Tokens
  BY DEF Hops
<1>2. taken \in [Tokens -> Int] /\ \A t \in Tokens : taken[t] = base[t]
  BY <1>1 DEF Carries
<1>3. Swapped(held, hop, in, out) = [taken EXCEPT ![hop.tokenOut] = @ + out]
  BY DEF Swapped
<1> HIDE DEF taken
<1> QED
  BY <1>1, <1>2, <1>3 DEF Carries

(* The balances of the start, less the principal in the route's first token. *)
Paid(req) ==
  [t \in Tokens |-> Holdings[t] - (IF t = req.route[1].tokenIn THEN req.principal ELSE 0)]

(* On a connected route every hop spends what the one before paid out, so  *)
(* at any hop only the last output is on top of what was paid in.          *)
LEMMA ConnectedWalk ==
  ASSUME NEW req \in Requests, NEW outs \in [DOMAIN req.route -> Nat],
         Holdings \in [Tokens -> Int], req.route # <<>>, Connected(req.route)
  PROVE  \A i \in 1..Len(req.route) :
           Carries(Walk(req, outs)[i], Paid(req), req.route[i].tokenOut, outs[i])
<1> DEFINE n == Len(req.route)
           Through(i) == Carries(Walk(req, outs)[i], Paid(req), req.route[i].tokenOut, outs[i])
           S == {k \in Nat : k + 1 <= n => Through(k + 1)}
<1>1. /\ n \in Nat /\ DOMAIN req.route = 1..n /\ req.principal \in Nat /\ n # 0
      /\ \A i \in 1..n : req.route[i] \in Hops /\ outs[i] \in Int
  BY RequestFacts
<1>2. Paid(req) \in [Tokens -> Int]
  BY <1>1 DEF Paid
<1>3. 0 \in S
  <2>1. 1 \in 1..n /\ AmountIn(req, outs, 1) = req.principal
    BY <1>1 DEF AmountIn
  <2>2. Walk(req, outs)[1] = Swapped(Holdings, req.route[1], req.principal, outs[1])
    BY <2>1, WalkSteps
  <2>3. Carries(Holdings, Paid(req), req.route[1].tokenIn, req.principal)
    BY <1>1 DEF Carries, Paid
  <2>4. Carries(Swapped(Holdings, req.route[1], req.principal, outs[1]), Paid(req),
                req.route[1].tokenOut, outs[1])
    <3>1. req.route[1] \in Hops /\ req.principal \in Int /\ outs[1] \in Int
      BY <1>1, <2>1
    <3> QED
      BY <1>2, <2>3, <3>1, SwappedOn
  <2>5. Through(1)
    BY <2>2, <2>4
  <2> QED
    BY <2>5
<1>4. ASSUME NEW k \in Nat, k \in S PROVE k + 1 \in S
  <2> SUFFICES ASSUME k + 2 <= n PROVE Through(k + 2)
    OBVIOUS
  <2>1. /\ k + 1 \in 1..n /\ k + 2 \in 1..n /\ k + 2 \in 2..n
        /\ (k + 2) - 1 = k + 1 /\ k + 2 # 1
    BY <1>1
  <2>2. Through(k + 1)
    BY <1>4, <2>1
  <2>3. AmountIn(req, outs, k + 2) = outs[k + 1]
    BY <2>1 DEF AmountIn
  <2>4. req.route[k + 2].tokenIn = req.route[k + 1].tokenOut
    BY <2>1 DEF Connected
  <2>5. Walk(req, outs)[k + 2] =
          Swapped(Walk(req, outs)[k + 1], req.route[k + 2], outs[k + 1], outs[k + 2])
    BY <2>1, <2>3, WalkSteps
  <2> QED
    BY <1>1, <1>2, <2>1, <2>2, <2>4, <2>5, SwappedOn
<1>5. Nat \subseteq S
  <2> HIDE DEF S
  <2> QED
    BY <1>3, <1>4, SetInduction
<1>6. ASSUME NEW i \in 1..n PROVE Through(i)
  <2>1. i - 1 \in S /\ (i - 1) + 1 = i
    <3> HIDE DEF S
    <3> QED
      BY <1>1, <1>5
  <2> QED
    BY <1>1, <2>1
<1> QED
  BY <1>6

(* An execution of a cyclic route, of any length and whatever the venues   *)
(* pay out, leaves the executor none of the request's asset and exactly    *)
(* what it had of all others (StrategyExecutor.sol:144-181).               *)
THEOREM CyclicRoutesLeaveNothing == Spec => CyclesLeaveNothing
<1> DEFINE Clean == \A req \in Requests :
             Cyclic(req.route) /\ ~LeavesNothing(req) => ~ExecuteRequest(req)
<1>1. ExecInv /\ [Next]_vars => [Clean]_vars
  <2> SUFFICES ASSUME ExecInv, NEW req \in Requests, Cyclic(req.route),
                      ExecuteRequest(req)
               PROVE  LeavesNothing(req)
    OBVIOUS
  <2>1. PICK outs \in [DOMAIN req.route -> SwapOutputs] : Execute(req, outs)
    BY DEF ExecuteRequest
  <2> DEFINE n == Len(req.route)
             after == Walk(req, outs)[n]
  <2>2. /\ req.route # <<>> /\ Last(req.route).tokenOut = req.asset
        /\ asset' = AssetAfter(req, after) /\ inventory' = InventoryAfter(req, after)
    BY <2>1 DEF Execute, Admitted, Settle
  <2>3. /\ n \in 1..n /\ req.route[n].tokenOut = req.asset /\ req.route[1].tokenIn = req.asset
        /\ Connected(req.route) /\ req.asset \in Tokens /\ req.principal \in Nat
    BY <2>2, RequestFacts DEF Cyclic, Last
  <2>4. outs \in [DOMAIN req.route -> Nat] /\ outs[n] \in Nat
    <3>1. outs \in [DOMAIN req.route -> Nat]
      BY ExecutorAssumption
    <3> QED
      BY <2>3, <3>1, RequestFacts
  <2>5. /\ asset \in [Addresses -> Nat] /\ inventory \in [OtherTokens -> Nat]
        /\ Executor \in Addresses /\ Vault \in Addresses /\ Executor # Vault
    BY VaultAssumption DEF ExecInv, TypeOK, VaultTypeOK, Addresses
  <2>6. Holdings \in [Tokens -> Int]
    BY <2>5 DEF Holdings, Tokens
  <2>7. Carries(after, Paid(req), req.asset, outs[n])
    BY <2>2, <2>3, <2>4, <2>6, ConnectedWalk
  <2>8. \A t \in Tokens : t # req.asset => after[t] = Holdings[t]
    BY <2>3, <2>6, <2>7 DEF Carries, Paid
  <2>9. after[Asset] \in Int /\ Asset \in Tokens /\ Asset \notin OtherTokens
    BY <2>7, ExecutorAssumption DEF Tokens, Carries
  <2> HIDE DEF after
  <2>10. asset'[Executor] = IF req.asset = Asset THEN 0 ELSE Holdings[Asset]
    <3>1. asset'[Executor] = after[Asset] - Delivered(req, after[Asset])
      BY <2>2, <2>5 DEF AssetAfter
    <3> QED
      BY <2>8, <2>9, <3>1 DEF Delivered
  <2>11. \A t \in OtherTokens : inventory'[t] = IF t = req.asset THEN 0 ELSE Holdings[t]
    BY <2>2, <2>8 DEF InventoryAfter, Tokens
  <2>12. ASSUME NEW t \in Tokens
         PROVE  Holdings'[t] = IF t = req.asset THEN 0 ELSE Holdings[t]
    <3>1. Holdings'[t] = IF t = Asset THEN asset'[Executor] ELSE inventory'[t]
      BY DEF Holdings
    <3>2. t # Asset => t \in OtherTokens
      BY DEF Tokens
    <3> QED
      BY <2>10, <2>11, <3>1, <3>2
  <2> QED
    BY <2>12 DEF LeavesNothing
<1> QED
  BY <1>1, ExecInvariant, PTL DEF Spec, CyclesLeaveNothing
=============================================================================
