--------------------------- MODULE MCCycleSearch ---------------------------
(* A square with a diagonal.                                                 *)
EXTENDS CycleSearch
CONSTANTS A, B, C, D

Pool(address, t0, t1) == [address |-> address, token0 |-> t0, token1 |-> t1]
MCSquareTokens == {A, B, C, D}
Square == {Pool("ab", B, A), Pool("bc", B, C), Pool("cd", D, C), Pool("da", D, A)}
Kite == Square \cup {Pool("ac", A, C)}

\* No pool is profitable against itself: the weights of its directions sum to >= 0.
MCTwoRates == {<<-1, 1>>, <<1, -1>>}
=============================================================================
