------------------------------ MODULE ShareMath ------------------------------
(***************************************************************************)
(* The share arithmetic ArbVault inherits from OpenZeppelin's ERC4626 (v5, *)
(* decimals offset 0): a vault that holds A assets and has issued S shares *)
(* converts between the two at the rate (A + 1) : (S + 1).  The vault      *)
(* rounds every conversion in its own favour.                              *)
(***************************************************************************)
EXTENDS Integers

\* Math.mulDiv(x, y, d, Floor) and Math.mulDiv(x, y, d, Ceil).
MulDivDown(x, y, d) == (x * y) \div d
MulDivUp(x, y, d) == (x * y + (d - 1)) \div d

\* _convertToShares and _convertToAssets in both rounding directions.
SharesDown(assets, A, S) == MulDivDown(assets, S + 1, A + 1)
SharesUp(assets, A, S) == MulDivUp(assets, S + 1, A + 1)
AssetsDown(shares, A, S) == MulDivDown(shares, A + 1, S + 1)
AssetsUp(shares, A, S) == MulDivUp(shares, A + 1, S + 1)

\* The rate of (A2, S2) is at least the rate of (A1, S1).
RateAtLeast(A2, S2, A1, S1) == (A2 + 1) * (S1 + 1) >= (A1 + 1) * (S2 + 1)
=============================================================================
