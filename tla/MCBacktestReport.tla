--------------------------- MODULE MCBacktestReport ---------------------------
(* Six blocks, three of them for training and two for testing, limbs of four *)
(* values, and gross profits whose sums cross the limbs.                     *)
EXTENDS BacktestReport
=============================================================================
