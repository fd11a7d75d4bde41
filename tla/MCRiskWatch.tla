----------------------------- MODULE MCRiskWatch -----------------------------
(* Two vaults, a limit of two rows, and room for a burst beyond it.          *)
EXTENDS RiskWatch
CONSTANTS v1, v2
MCVaults == {v1, v2}
=============================================================================
