--------------------------- MODULE SharePriceFund ---------------------------
(***************************************************************************)
(* What the on-chain layer promises a share holder, with everything else   *)
(* left out: a fund of assets and shares whose rate never falls, and whose *)
(* reported profit has always arrived in the step that reports it.         *)
(***************************************************************************)
EXTENDS ShareMath

VARIABLES fundAssets, fundShares, fundProfit

fundVars == <<fundAssets, fundShares, fundProfit>>

FundInit == fundAssets = 0 /\ fundShares = 0 /\ fundProfit = 0

RateKept == RateAtLeast(fundAssets', fundShares', fundAssets, fundShares)

\* Assets arrive: for shares, as a gift, or as profit.
Receive ==
  /\ fundAssets' >= fundAssets /\ fundShares' >= fundShares
  /\ fundProfit' >= fundProfit
  /\ fundProfit' - fundProfit <= fundAssets' - fundAssets
  /\ RateKept

\* Assets leave against shares; profit is not affected.
Pay ==
  /\ fundAssets' <= fundAssets /\ fundShares' <= fundShares
  /\ fundProfit' = fundProfit
  /\ RateKept

FundSpec == FundInit /\ [][Receive \/ Pay]_fundVars
=============================================================================
